------------------------- MODULE ApproverTree_proofs -------------------------
(***************************************************************************)
(* Theorems about ApproverTree, for any transactions, users, forests and   *)
(* number of rows, requests and editors.                                   *)
(***************************************************************************)
EXTENDS ApproverTree, FiniteSetTheorems, TLAPS

-----------------------------------------------------------------------------
(* Induction, as a fact about sets of numbers *)

(* A set with 0 and the successor of each of its numbers has them all: the *)
(* successor would otherwise map the part of it below some N one-to-one    *)
(* into that part without 0.                                               *)
LEMMA NatSets ==
  ASSUME NEW U \in SUBSET Nat, 0 \in U, \A n \in U : n + 1 \in U
  PROVE  U = Nat
<1> SUFFICES ASSUME NEW N \in Nat, N \notin U PROVE FALSE
  OBVIOUS
<1> DEFINE V == {n \in U : n <= N}
           W == V \ {0}
           succ == [n \in V |-> n + 1]
<1>1. IsFiniteSet(V)
  <2>1. V \in SUBSET Nat /\ \A n \in V : n <= N
    OBVIOUS
  <2> HIDE DEF V
  <2> QED
    BY <2>1, FS_BoundedSetOfNaturals
<1>2. 0 \in V
  OBVIOUS
<1>3. V \subseteq Nat /\ \A n \in V : n + 1 \in W
  <2>1. ASSUME NEW n \in V
        PROVE  n \in Nat /\ n + 1 \in U /\ n + 1 <= N /\ n + 1 # 0
    <3>1. n \in U /\ n \in Nat /\ n <= N /\ n # N
      OBVIOUS
    <3> QED
      BY <3>1
  <2> QED
    BY <2>1
<1> HIDE DEF V
<1>4. succ \in Injection(V, W)
  <2>1. succ \in [V -> W]
    BY <1>3
  <2>2. \A m, n \in V : succ[m] = succ[n] => m = n
    BY <1>3
  <2> QED
    BY <2>1, <2>2 DEF Injection, IsInjective
<1> HIDE DEF succ
<1>5. /\ IsFiniteSet(W) /\ Cardinality(W) = Cardinality(V) - 1
      /\ Cardinality(V) \in Nat /\ Cardinality(W) \in Nat
  BY <1>1, <1>2, FS_RemoveElement, FS_CardinalityType
<1>6. Cardinality(V) <= Cardinality(W)
  BY <1>1, <1>4, <1>5, FS_Injection
<1> QED
  BY <1>5, <1>6

LEMMA LeastOf ==
  ASSUME NEW S \in SUBSET Nat, S # {}
  PROVE  \E m \in S : \A n \in S : m <= n
<1> SUFFICES ASSUME \A m \in S : \E n \in S : n < m PROVE FALSE
  <2>1. \A m \in S, n \in S : m <= n \/ n < m
    OBVIOUS
  <2> QED
    BY <2>1
<1> DEFINE U == {k \in Nat : \A n \in S : k < n}
<1>1. 0 \in U
  <2>1. ASSUME NEW n \in S PROVE 0 < n
    <3>1. PICK m \in S : m < n
      OBVIOUS
    <3> QED
      BY <3>1
  <2> QED
    BY <2>1
<1>2. ASSUME NEW k \in U PROVE k + 1 \in U
  <2>1. k \in Nat /\ \A n \in S : k < n
    OBVIOUS
  <2>2. ASSUME NEW n \in S PROVE k + 1 < n
    <3>1. PICK m \in S : m < n
      OBVIOUS
    <3> QED
      BY <2>1, <3>1
  <2> QED
    BY <2>1, <2>2
<1>3. U = Nat
  <2>1. U \in SUBSET Nat
    OBVIOUS
  <2> HIDE DEF U
  <2> QED
    BY <1>1, <1>2, <2>1, NatSets
<1>4. PICK n \in S : n \in U
  BY <1>3
<1>5. n \in Nat /\ n < n
  BY <1>4
<1> QED
  BY <1>5

-----------------------------------------------------------------------------
(* The rows above a row: the least set with the row and the list of each   *)
(* of its rows.  The recursion computes it for any rows r whose lists are  *)
(* rows of r.                                                              *)

LookUp(r) ==
  /\ IsFiniteSet(DOMAIN r) /\ 0 \notin DOMAIN r
  /\ \A n \in DOMAIN r : r[n].listId \in DOMAIN r \cup {0}

Lists(r, S) == {r[n].listId : n \in S} \ {0}
ClosedIn(r, S) == \A n \in S : r[n].listId \in S \cup {0}
Closure(r, S) ==
  {n \in DOMAIN r : \A T \in SUBSET DOMAIN r :
                       S \subseteq T /\ ClosedIn(r, T) => n \in T}

IsUp(r, f) ==
  f = [S \in SUBSET DOMAIN r |->
         IF Lists(r, S) \subseteq S THEN S ELSE f[S \cup Lists(r, S)]]

UpIn(r, id) ==
  LET up[S \in SUBSET DOMAIN r] ==
        LET lists == {r[n].listId : n \in S} \ {0}
        IN IF lists \subseteq S THEN S ELSE up[S \cup lists]
  IN up[{id}]

LEMMA ListsClosed ==
  ASSUME NEW r, NEW S, Lists(r, S) \subseteq S
  PROVE  ClosedIn(r, S)
BY DEF Lists, ClosedIn

LEMMA ListsAreRows ==
  ASSUME NEW r, LookUp(r), NEW S \in SUBSET DOMAIN r
  PROVE  Lists(r, S) \in SUBSET DOMAIN r
BY DEF Lists, LookUp

LEMMA ClosureOfClosed ==
  ASSUME NEW r, NEW S \in SUBSET DOMAIN r, Lists(r, S) \subseteq S
  PROVE  Closure(r, S) = S
BY ListsClosed DEF Closure

LEMMA ClosureOfMore ==
  ASSUME NEW r, NEW S \in SUBSET DOMAIN r
  PROVE  Closure(r, S) = Closure(r, S \cup Lists(r, S))
<1>1. \A T \in SUBSET DOMAIN r : S \subseteq T /\ ClosedIn(r, T) => Lists(r, S) \subseteq T
  BY DEF ClosedIn, Lists
<1> QED
  BY <1>1 DEF Closure

LEMMA ClosureIsUp ==
  ASSUME NEW r, LookUp(r)
  PROVE  IsUp(r, [S \in SUBSET DOMAIN r |-> Closure(r, S)])
<1> DEFINE f == [S \in SUBSET DOMAIN r |-> Closure(r, S)]
<1>1. ASSUME NEW S \in SUBSET DOMAIN r
      PROVE  f[S] = IF Lists(r, S) \subseteq S THEN S ELSE f[S \cup Lists(r, S)]
  <2>1. S \cup Lists(r, S) \in SUBSET DOMAIN r
    BY ListsAreRows
  <2> QED
    BY <2>1, ClosureOfClosed, ClosureOfMore
<1> QED
  BY <1>1 DEF IsUp

(* By induction on the number of rows that are not yet in S. *)
LEMMA UpIsClosure ==
  ASSUME NEW r, LookUp(r), NEW f, IsUp(r, f), NEW S \in SUBSET DOMAIN r
  PROVE  f[S] = Closure(r, S)
<1> DEFINE D == DOMAIN r
           Left(T) == Cardinality(D) - Cardinality(T)
           U == {k \in Nat : \A T \in SUBSET D : Left(T) <= k => f[T] = Closure(r, T)}
<1>1. \A T \in SUBSET D : f[T] = IF Lists(r, T) \subseteq T THEN T ELSE f[T \cup Lists(r, T)]
  BY DEF IsUp
<1>2. /\ IsFiniteSet(D) /\ Cardinality(D) \in Nat
      /\ \A T \in SUBSET D : /\ IsFiniteSet(T) /\ Cardinality(T) \in Nat
                             /\ Cardinality(T) <= Cardinality(D)
                             /\ Cardinality(D) = Cardinality(T) => D = T
  BY FS_Subset, FS_CardinalityType DEF LookUp
<1>3. 0 \in U
  <2>1. ASSUME NEW T \in SUBSET D, Left(T) <= 0 PROVE f[T] = Closure(r, T)
    <3>1. T = D
      BY <1>2, <2>1
    <3>2. Lists(r, T) \subseteq T
      BY <3>1, ListsAreRows
    <3> QED
      BY <1>1, <3>2, ClosureOfClosed
  <2> QED
    BY <2>1
<1>4. ASSUME NEW k \in U PROVE k + 1 \in U
  <2>1. ASSUME NEW T \in SUBSET D, Left(T) <= k + 1 PROVE f[T] = Closure(r, T)
    <3>1. CASE Lists(r, T) \subseteq T
      BY <1>1, <3>1, ClosureOfClosed
    <3>2. CASE ~(Lists(r, T) \subseteq T)
      <4> DEFINE V == T \cup Lists(r, T)
      <4>1. V \in SUBSET D /\ T \in SUBSET V /\ V # T
        BY <3>2, ListsAreRows
      <4>2. Cardinality(T) < Cardinality(V)
        BY <1>2, <4>1, FS_Subset
      <4>3. Left(V) <= k
        BY <1>2, <2>1, <4>1, <4>2
      <4>4. f[V] = Closure(r, V)
        BY <4>1, <4>3
      <4> QED
        BY <1>1, <3>2, <4>4, ClosureOfMore
    <3> QED
      BY <3>1, <3>2
  <2> QED
    BY <2>1
<1>5. U = Nat
  <2>1. U \in SUBSET Nat
    OBVIOUS
  <2> HIDE DEF U
  <2> QED
    BY <1>3, <1>4, <2>1, NatSets
<1>6. Left(S) \in U /\ Left(S) <= Left(S)
  BY <1>2, <1>5
<1> QED
  BY <1>6

LEMMA UpInIsClosure ==
  ASSUME NEW r, LookUp(r), NEW id \in DOMAIN r
  PROVE  UpIn(r, id) = Closure(r, {id})
<1> DEFINE P(g) == IsUp(r, g)
           c == [S \in SUBSET DOMAIN r |-> Closure(r, S)]
<1>1. UpIn(r, id) = (CHOOSE g : P(g))[{id}]
  BY DEF UpIn, IsUp, Lists
<1>2. P(c)
  BY ClosureIsUp
<1> HIDE DEF P, c
<1>3. P(CHOOSE g : P(g))
  BY <1>2, Zenon
<1> QED
  BY <1>1, <1>3, UpIsClosure DEF P

(* What is needed of it. *)
Least(r, id, A) ==
  /\ A \subseteq DOMAIN r /\ id \in A /\ ClosedIn(r, A)
  /\ \A S \in SUBSET DOMAIN r : id \in S /\ ClosedIn(r, S) => A \subseteq S

LEMMA UpInLeast ==
  ASSUME NEW r, LookUp(r), NEW id \in DOMAIN r
  PROVE  Least(r, id, UpIn(r, id))
<1>1. ClosedIn(r, Closure(r, {id}))
  <2>1. ASSUME NEW n \in Closure(r, {id}), r[n].listId # 0
        PROVE  r[n].listId \in Closure(r, {id})
    BY <2>1 DEF Closure, ClosedIn, LookUp
  <2> QED
    BY <2>1 DEF ClosedIn
<1> QED
  BY <1>1, UpInIsClosure DEF Least, Closure

-----------------------------------------------------------------------------
(* The invariant *)

Requests == {edit[q] : q \in Editors}

Approvals == [t : Transactions \cup {NoTransaction}, ids : SUBSET Ids]

(* What a request has read, and no other request can undo: its rows exist, *)
(* and a row is or is not a list for ever.                                 *)
CreateKnown(e) ==
  e.op = "create" =>
    /\ e.t \in Transactions /\ e.dto \in Dtos /\ e.under \in Ids \cup {0}
    /\ e.copy \in [DOMAIN e.dto -> Signatures]
    /\ \A i \in DOMAIN e.dto : ValidApprover(e.dto, i, e.under)
DetachKnown(e) ==
  e.op = "detach" =>
    /\ e.id \in Ids /\ e.t \in Transactions /\ e.parent \in Ids \cup {0}
    /\ e.left \in Nat /\ e.threshold \in Int
    /\ e.parent # 0 /\ e.threshold # 0 => rows[e.parent].threshold # 0
MoveKnown(e) == e.op = "move" => e.id \in Ids /\ e.to \in Ids
ThresholdKnown(e) ==
  e.op = "threshold" =>
    e.id \in Ids /\ e.threshold \in Nat \ {0} /\ rows[e.id].threshold # 0
UserKnown(e) ==
  e.op = "user" => e.id \in Ids /\ e.userId \in Users /\ rows[e.id].threshold = 0
RemoveKnown(e) == e.op = "remove" => e.id \in Ids

Known(e) ==
  CreateKnown(e) /\ DetachKnown(e) /\ MoveKnown(e) /\ ThresholdKnown(e)
    /\ UserKnown(e) /\ RemoveKnown(e)

TypeRows == rows \in Seq(Rows) /\ \A n \in Ids : rows[n].listId \in Ids \cup {0}

Types ==
  /\ TypeRows
  /\ edit = [q \in Editors |-> edit[q]] /\ \A e \in Requests : Known(e)
  /\ approval \in [Users -> Approvals]
  /\ edits \in 0 .. MaxEdits
  /\ overlapped \in BOOLEAN

(* A row stays in the transaction it was created for, whatever becomes of  *)
(* the tree: h tells which.  Who writes later has read that transaction.   *)
Fits(h, e) ==
  /\ e.op = "create" =>
       /\ e.under # 0 => h[e.under] = e.t
       /\ \A i \in DOMAIN e.dto : e.copy[i] # NoSignature => e.copy[i].on = e.t
  /\ e.op = "detach" => h[e.id] = e.t
  /\ e.op = "move" => h[e.to] = h[e.id]

RowAtHome(h, n) ==
  /\ rows[n].listId # 0 => h[rows[n].listId] = h[n]
  /\ rows[n].transactionId # NoTransaction => rows[n].transactionId = h[n]
  /\ rows[n].signature # NoSignature => rows[n].signature.on = h[n]

Home(h) ==
  /\ h \in [Ids -> Transactions]
  /\ \A n \in Ids : RowAtHome(h, n)
  /\ \A u \in Users : \A n \in approval[u].ids : h[n] = approval[u].t
  /\ \A e \in Requests : Fits(h, e)

(* A list is not deleted before its rows, and no live rows form a cycle.   *)
Sound ==
  /\ \A n \in Ids : Live(n) /\ rows[n].listId # 0 => Live(rows[n].listId)
  /\ \A S \in SUBSET Ids : S # {} /\ (\A n \in S : Live(n))
                             => \E n \in S : rows[n].listId \notin S

(* What a request has read is still so, where nobody else writes. *)
Fresh(e) ==
  /\ e.op = "create" /\ e.under # 0 => Live(e.under)
  /\ e.op = "detach" =>
       /\ Live(e.id) /\ rows[e.id].listId # 0
       /\ e.parent = IF Live(rows[e.id].listId) THEN rows[e.id].listId ELSE 0
       /\ e.left = Cardinality(ChildrenOf(rows[e.id].listId)) - 1
       /\ e.threshold = rows[rows[e.id].listId].threshold
  /\ e.op = "move" => Live(e.id) /\ Live(e.to) /\ e.to \notin Below(e.id)
  /\ e.op = "threshold" => e.threshold <= Cardinality(ChildrenOf(e.id))

Alone ==
  ~overlapped =>
    /\ Sound
    /\ \A p, q \in Editors : edit[p] # Idle /\ edit[q] # Idle => p = q
    /\ \A e \in Requests : Fresh(e)

IInv == Types /\ OnePlace /\ (\E h : Home(h)) /\ Alone

-----------------------------------------------------------------------------
(* Rows *)

LEMMA RowsIn ==
  ASSUME NEW r \in Seq(Rows), \A n \in DOMAIN r : r[n].listId \in DOMAIN r \cup {0}
  PROVE  /\ Len(r) \in Nat /\ DOMAIN r = 1 .. Len(r)
         /\ IsFiniteSet(DOMAIN r) /\ 0 \notin DOMAIN r /\ DOMAIN r \subseteq Nat
         /\ \A n \in DOMAIN r : r[n] \in Rows
         /\ LookUp(r)
<1>1. Len(r) \in Nat /\ DOMAIN r = 1 .. Len(r) /\ \A n \in DOMAIN r : r[n] \in Rows
  OBVIOUS
<1>2. IsFiniteSet(DOMAIN r) /\ 0 \notin DOMAIN r /\ DOMAIN r \subseteq Nat
  BY <1>1, FS_Interval
<1> QED
  BY <1>1, <1>2 DEF LookUp

LEMMA RowsAre ==
  ASSUME TypeRows
  PROVE  /\ Len(rows) \in Nat /\ Ids = 1 .. Len(rows)
         /\ IsFiniteSet(Ids) /\ 0 \notin Ids /\ Ids \subseteq Nat
         /\ \A n \in Ids : rows[n] \in Rows
         /\ LookUp(rows)
BY RowsIn DEF TypeRows, Ids

(* A sequence of rows with other values. *)
LEMMA SameLength ==
  ASSUME NEW S, NEW r \in Seq(S), NEW f, f = [n \in DOMAIN r |-> f[n]],
         \A n \in DOMAIN r : f[n] \in S
  PROVE  f \in Seq(S) /\ DOMAIN f = DOMAIN r /\ Len(f) = Len(r)
<1>1. Len(r) \in Nat /\ DOMAIN r = 1 .. Len(r)
  OBVIOUS
<1>2. f \in [1 .. Len(r) -> S]
  BY <1>1
<1> QED
  BY <1>1, <1>2

LEMMA AboveLeast ==
  ASSUME TypeRows, NEW id \in Ids
  PROVE  Least(rows, id, Above(id))
<1>1. Above(id) = UpIn(rows, id)
  BY DEF Above, UpIn, Ids
<1> QED
  BY <1>1, RowsAre, UpInLeast DEF Ids

LEMMA AboveLeastNext ==
  ASSUME TypeRows', NEW id \in Ids'
  PROVE  Least(rows', id, Above(id)')
<1>1. Above(id)' = UpIn(rows', id)
  BY DEF Above, UpIn, Ids
<1>2. LookUp(rows')
  BY RowsIn DEF TypeRows, Ids
<1> QED
  BY <1>1, <1>2, UpInLeast DEF Ids

(* Rows whose lists are the same are below the same rows. *)
LEMMA SameAbove ==
  ASSUME TypeRows, TypeRows', Ids' = Ids,
         \A n \in Ids : rows'[n].listId = rows[n].listId
  PROVE  \A id \in Ids : Above(id)' = Above(id) /\ Below(id)' = Below(id)
<1>1. ASSUME NEW S \in SUBSET Ids PROVE ClosedIn(rows, S) <=> ClosedIn(rows', S)
  BY DEF ClosedIn
<1>2. ASSUME NEW id \in Ids PROVE Above(id)' = Above(id)
  <2>1. Least(rows, id, Above(id)) /\ Least(rows', id, Above(id)')
    BY AboveLeast, AboveLeastNext
  <2> QED
    BY <1>1, <2>1 DEF Least, Ids
<1> QED
  BY <1>2 DEF Below

LEMMA AboveList ==
  ASSUME TypeRows, NEW n \in Ids, rows[n].listId # 0
  PROVE  rows[n].listId \in Ids /\ Above(rows[n].listId) \subseteq Above(n)
<1>1. rows[n].listId \in Ids
  BY DEF TypeRows
<1>2. Least(rows, n, Above(n)) /\ Least(rows, rows[n].listId, Above(rows[n].listId))
  BY <1>1, AboveLeast
<1>3. Above(n) \in SUBSET Ids /\ rows[n].listId \in Above(n) /\ ClosedIn(rows, Above(n))
  BY <1>2 DEF Least, ClosedIn, Ids
<1> QED
  BY <1>1, <1>2, <1>3 DEF Least, Ids

(* The transaction found for a row is its home. *)
LEMMA TransactionIsHome ==
  ASSUME TypeRows, OnePlace, NEW h, Home(h), NEW n \in Ids
  PROVE  /\ TransactionOf(n) \subseteq {h[n]}
         /\ RootOf(n) # {} => TransactionOf(n) = {h[n]}
<1> DEFINE S == {m \in Ids : h[m] = h[n]}
<1>1. ClosedIn(rows, S)
  BY DEF ClosedIn, Home, RowAtHome, TypeRows
<1>2. Above(n) \subseteq S
  BY <1>1, AboveLeast DEF Least, Ids
<1>3. \A m \in RootOf(n) : rows[m].transactionId = h[n]
  BY <1>2 DEF RootOf, OnePlace, Home, RowAtHome
<1> QED
  BY <1>3 DEF TransactionOf

(* Every live row is under live rows only, up to a root. *)
LEMMA SoundAbove ==
  ASSUME TypeRows, Sound, NEW n \in Ids, Live(n)
  PROVE  RootOf(n) # {} /\ \A m \in Above(n) : Live(m)
<1> DEFINE S == {m \in Ids : Live(m)}
<1>1. Least(rows, n, Above(n))
  BY AboveLeast
<1>2. ClosedIn(rows, S)
  BY DEF ClosedIn, Sound, TypeRows
<1>3. Above(n) \subseteq S /\ Above(n) # {}
  BY <1>1, <1>2 DEF Least, Ids
<1>4. PICK m \in Above(n) : rows[m].listId \notin Above(n)
  BY <1>3 DEF Sound
<1>5. rows[m].listId = 0
  BY <1>1, <1>4 DEF Least, ClosedIn
<1> QED
  BY <1>3, <1>4, <1>5 DEF RootOf

-----------------------------------------------------------------------------
(* What a request reads *)

Reads(q, e) ==
  Begin(q, e) /\ Known(e) /\ Fresh(e) /\ \A h : Home(h) => Fits(h, e)

LEMMA UpdatableHas ==
  ASSUME TypeRows, OnePlace, NEW id \in Ids, Updatable(id)
  PROVE  /\ Live(id) /\ \E t \in TransactionOf(id) : t \in Transactions
         /\ \A t \in TransactionOf(id) : t \in Transactions
<1>1. \A n \in RootOf(id) : n \in Ids /\ rows[n].transactionId \in Transactions
  BY RowsAre, AboveLeast DEF RootOf, OnePlace, Rows, Least, Ids
<1> QED
  BY <1>1 DEF Updatable, TransactionOf

LEMMA CopiesAre ==
  ASSUME TypeRows, OnePlace, NEW t, NEW node, NEW c \in Copies(node, t)
  PROVE  /\ c \in Signatures
         /\ \A h : Home(h) /\ c # NoSignature => c.on = t
<1>1. c = NoSignature \/ \E n \in ApproversOf(t) : c = rows[n].signature
  BY DEF Copies
<1>2. ASSUME NEW n \in ApproversOf(t), c = rows[n].signature
      PROVE  /\ c \in Signatures
             /\ \A h : Home(h) /\ c # NoSignature => c.on = t
  <2>1. n \in Ids /\ TransactionOf(n) = {t} /\ rows[n] \in Rows
    BY RowsAre DEF ApproversOf
  <2>2. ASSUME NEW h, Home(h), c # NoSignature PROVE c.on = t
    <3>1. {t} \subseteq {h[n]}
      BY <2>1, <2>2, TransactionIsHome
    <3>2. c.on = h[n]
      BY <1>2, <2>1, <2>2 DEF Home, RowAtHome
    <3> QED
      BY <3>1, <3>2
  <2> QED
    BY <1>2, <2>1, <2>2 DEF Rows
<1> QED
  BY <1>1, <1>2 DEF Signatures

LEMMA CreateReads ==
  ASSUME Types, OnePlace, NEW q \in Editors, BeginCreate(q)
  PROVE  \E e : Reads(q, e)
<1>1. PICK t \in Transactions, dto \in Dtos, under \in Ids \cup {0} :
        /\ Len(rows) + Len(dto) <= MaxRows
        /\ under # 0 => Live(under) /\ TransactionOf(under) = {t}
        /\ \A i \in DOMAIN dto :
             ValidApprover(dto, i, under) /\ ~IsNode(dto, i, t, under)
        /\ \E copy \in [DOMAIN dto -> UNION {Copies(dto[i], t) : i \in DOMAIN dto}] :
             /\ \A i \in DOMAIN dto : copy[i] \in Copies(dto[i], t)
             /\ Begin(q, [op |-> "create", t |-> t, dto |-> dto, under |-> under,
                          copy |-> copy])
  BY DEF BeginCreate
<1>2. PICK copy \in [DOMAIN dto -> UNION {Copies(dto[i], t) : i \in DOMAIN dto}] :
        /\ \A i \in DOMAIN dto : copy[i] \in Copies(dto[i], t)
        /\ Begin(q, [op |-> "create", t |-> t, dto |-> dto, under |-> under,
                     copy |-> copy])
  BY <1>1
<1> DEFINE e == [op |-> "create", t |-> t, dto |-> dto, under |-> under, copy |-> copy]
<1>3. TypeRows
  BY DEF Types
<1>4. \A i \in DOMAIN dto : /\ copy[i] \in Signatures
                            /\ \A h : Home(h) /\ copy[i] # NoSignature => copy[i].on = t
  BY <1>2, <1>3, CopiesAre
<1>5. copy \in [DOMAIN dto -> Signatures]
  BY <1>2, <1>4
<1>6. CreateKnown(e) /\ Fresh(e)
  BY <1>1, <1>5 DEF CreateKnown, Fresh
<1>7. Known(e)
  BY <1>6 DEF Known, DetachKnown, MoveKnown, ThresholdKnown, UserKnown, RemoveKnown
<1>8. ASSUME NEW h, Home(h) PROVE Fits(h, e)
  <2>1. under # 0 => h[under] = t
    <3> SUFFICES ASSUME under # 0 PROVE h[under] = t
      OBVIOUS
    <3>1. under \in Ids /\ {t} \subseteq {h[under]}
      BY <1>1, <1>3, <1>8, TransactionIsHome
    <3> QED
      BY <3>1
  <2> QED
    BY <1>4, <1>8, <2>1 DEF Fits
<1> QED
  BY <1>2, <1>6, <1>7, <1>8 DEF Reads

LEMMA DetachReads ==
  ASSUME Types, OnePlace, NEW q \in Editors, BeginDetach(q)
  PROVE  \E e : Reads(q, e)
<1>1. PICK id \in Ids :
        /\ Updatable(id)
        /\ rows[id].listId # 0
        /\ LET parent == rows[id].listId
               t == CHOOSE x \in TransactionOf(id) : TRUE
           IN Begin(q, [op |-> "detach", id |-> id, t |-> t,
                        parent |-> IF Live(parent) THEN parent ELSE 0,
                        left |-> Cardinality(ChildrenOf(parent)) - 1,
                        threshold |-> rows[parent].threshold])
  BY DEF BeginDetach
<1> DEFINE parent == rows[id].listId
           t == CHOOSE x \in TransactionOf(id) : TRUE
           above == IF Live(parent) THEN parent ELSE 0
           left == Cardinality(ChildrenOf(parent)) - 1
           threshold == rows[parent].threshold
           e == [op |-> "detach", id |-> id, t |-> t, parent |-> above,
                 left |-> left, threshold |-> threshold]
<1>2. TypeRows
  BY DEF Types
<1>3. t \in TransactionOf(id) /\ t \in Transactions /\ Live(id)
  BY <1>1, <1>2, UpdatableHas
<1>4. parent \in Ids /\ rows[parent] \in Rows
  BY <1>1, <1>2, RowsAre DEF TypeRows
<1>5. left \in Nat
  <2>1. IsFiniteSet(ChildrenOf(parent))
    BY <1>2, RowsAre, FS_Subset DEF ChildrenOf
  <2>2. id \in ChildrenOf(parent)
    BY <1>3 DEF ChildrenOf
  <2>3. Cardinality(ChildrenOf(parent)) \in Nat /\ Cardinality(ChildrenOf(parent)) # 0
    BY <2>1, <2>2, FS_CardinalityType, FS_EmptySet
  <2> QED
    BY <2>3
<1>6. threshold \in Int /\ above \in Ids \cup {0} /\ (above # 0 => above = parent)
  BY <1>4 DEF Rows
<1> HIDE DEF t, left, threshold, above
<1>7. DetachKnown(e)
  BY <1>3, <1>5, <1>6 DEF DetachKnown, threshold
<1>8. Known(e)
  BY <1>7 DEF Known, CreateKnown, MoveKnown, ThresholdKnown, UserKnown, RemoveKnown
<1>9. Fresh(e)
  BY <1>1, <1>3 DEF Fresh, left, threshold, above
<1>10. ASSUME NEW h, Home(h) PROVE Fits(h, e)
  <2>1. h[id] = t
    BY <1>2, <1>3, <1>10, TransactionIsHome
  <2> QED
    BY <2>1 DEF Fits
<1>11. Begin(q, e)
  BY <1>1 DEF t, left, threshold, above
<1> QED
  BY <1>8, <1>9, <1>10, <1>11 DEF Reads

LEMMA MoveReads ==
  ASSUME Types, OnePlace, NEW q \in Editors, BeginMove(q)
  PROVE  \E e : Reads(q, e)
<1>1. PICK id \in Ids, to \in Ids :
        /\ Updatable(id)
        /\ Live(to) /\ rows[to].threshold # 0
        /\ to \notin Below(id)
        /\ TransactionOf(to) = TransactionOf(id)
        /\ Begin(q, [op |-> "move", id |-> id, to |-> to])
  BY DEF BeginMove
<1> DEFINE e == [op |-> "move", id |-> id, to |-> to]
<1>2. TypeRows
  BY DEF Types
<1>3. Known(e)
  BY DEF Known, CreateKnown, DetachKnown, MoveKnown, ThresholdKnown, UserKnown, RemoveKnown
<1>4. Fresh(e)
  BY <1>1 DEF Fresh, Updatable
<1>5. ASSUME NEW h, Home(h) PROVE Fits(h, e)
  <2>1. \E t \in TransactionOf(id) : TRUE
    BY <1>1, <1>2, UpdatableHas
  <2>2. TransactionOf(id) \subseteq {h[id]} /\ TransactionOf(to) \subseteq {h[to]}
    BY <1>2, <1>5, TransactionIsHome
  <2>3. h[to] = h[id]
    BY <1>1, <2>1, <2>2
  <2> QED
    BY <2>3 DEF Fits
<1> QED
  BY <1>1, <1>3, <1>4, <1>5 DEF Reads

LEMMA ThresholdReads ==
  ASSUME Types, OnePlace, NEW q \in Editors, BeginThreshold(q)
  PROVE  \E e : Reads(q, e)
<1>1. PICK id \in Ids :
        /\ rows[id].threshold # 0
        /\ \E k \in 1 .. Cardinality(ChildrenOf(id)) :
             Begin(q, [op |-> "threshold", id |-> id, threshold |-> k])
  BY DEF BeginThreshold
<1>2. PICK k \in 1 .. Cardinality(ChildrenOf(id)) :
             Begin(q, [op |-> "threshold", id |-> id, threshold |-> k])
  BY <1>1
<1> DEFINE e == [op |-> "threshold", id |-> id, threshold |-> k]
<1>3. Known(e)
  BY <1>1 DEF Known, CreateKnown, DetachKnown, MoveKnown, ThresholdKnown, UserKnown, RemoveKnown
<1>4. Fresh(e)
  BY DEF Fresh
<1> QED
  BY <1>2, <1>3, <1>4 DEF Reads, Fits

LEMMA UserReads ==
  ASSUME Types, OnePlace, NEW q \in Editors, BeginUser(q)
  PROVE  \E e : Reads(q, e)
<1>1. PICK id \in Ids, u \in Users :
        /\ rows[id].threshold = 0
        /\ Begin(q, [op |-> "user", id |-> id, userId |-> u])
  BY DEF BeginUser
<1> DEFINE e == [op |-> "user", id |-> id, userId |-> u]
<1>2. Known(e)
  BY <1>1 DEF Known, CreateKnown, DetachKnown, MoveKnown, ThresholdKnown, UserKnown, RemoveKnown
<1> QED
  BY <1>1, <1>2 DEF Reads, Fits, Fresh

LEMMA RemoveReads ==
  ASSUME Types, OnePlace, NEW q \in Editors, BeginRemove(q)
  PROVE  \E e : Reads(q, e)
<1>1. PICK id \in Ids : Begin(q, [op |-> "remove", id |-> id])
  BY DEF BeginRemove
<1> DEFINE e == [op |-> "remove", id |-> id]
<1>2. Known(e)
  BY <1>1 DEF Known, CreateKnown, DetachKnown, MoveKnown, ThresholdKnown, UserKnown, RemoveKnown
<1> QED
  BY <1>1, <1>2 DEF Reads, Fits, Fresh

-----------------------------------------------------------------------------
(* What stays true of what was read *)

LEMMA KnownStays ==
  ASSUME Ids \subseteq Ids',
         \A n \in Ids : rows'[n].threshold = 0 <=> rows[n].threshold = 0,
         NEW e, Known(e)
  PROVE  Known(e)'
<1>1. CreateKnown(e)'
  BY DEF Known, CreateKnown
<1>2. DetachKnown(e)'
  <2> SUFFICES ASSUME e.op = "detach" PROVE DetachKnown(e)'
    BY DEF DetachKnown
  <2>1. DetachKnown(e)
    BY DEF Known
  <2> QED
    BY <2>1 DEF DetachKnown
<1>3. MoveKnown(e)' /\ RemoveKnown(e)'
  BY DEF Known, MoveKnown, RemoveKnown
<1>4. ThresholdKnown(e)'
  BY DEF Known, ThresholdKnown
<1>5. UserKnown(e)'
  BY DEF Known, UserKnown
<1> QED
  BY <1>1, <1>2, <1>3, <1>4, <1>5 DEF Known

(* Steps that leave the tree alone. *)
SameTree ==
  /\ Ids' = Ids
  /\ \A n \in Ids : /\ rows'[n].listId = rows[n].listId
                    /\ rows'[n].transactionId = rows[n].transactionId
                    /\ rows'[n].deleted = rows[n].deleted
                    /\ rows'[n].threshold = rows[n].threshold
                    /\ rows'[n].userId = rows[n].userId

LEMMA SameLive ==
  ASSUME SameTree
  PROVE  /\ \A n : Live(n)' <=> Live(n)
         /\ \A n : ChildrenOf(n)' = ChildrenOf(n)
<1>1. \A n : Live(n)' <=> Live(n)
  BY DEF SameTree, Live
<1> QED
  BY <1>1 DEF SameTree, ChildrenOf

LEMMA SoundStays ==
  ASSUME Sound, SameTree
  PROVE  Sound'
BY SameLive DEF Sound, SameTree

LEMMA FreshStays ==
  ASSUME TypeRows, TypeRows', SameTree, NEW e, Known(e), Fresh(e)
  PROVE  Fresh(e)'
<1>1. \A id \in Ids : Below(id)' = Below(id)
  BY SameAbove DEF SameTree
<1>2. e.op = "create" /\ e.under # 0 => Live(e.under)'
  BY SameLive DEF Fresh
<1>3. ASSUME e.op = "detach"
      PROVE  /\ Live(e.id)' /\ rows'[e.id].listId # 0
             /\ e.parent = IF Live(rows[e.id].listId)' THEN rows'[e.id].listId ELSE 0
             /\ e.left = Cardinality(ChildrenOf(rows[e.id].listId)') - 1
             /\ e.threshold = rows'[rows'[e.id].listId].threshold
  <2>1. e.id \in Ids /\ rows[e.id].listId \in Ids
    BY <1>3 DEF Known, DetachKnown, Fresh, TypeRows
  <2> QED
    BY <1>3, <2>1, SameLive DEF Fresh, SameTree
<1>4. e.op = "move" => Live(e.id)' /\ Live(e.to)' /\ e.to \notin Below(e.id)'
  BY <1>1, SameLive DEF Fresh, Known, MoveKnown
<1>5. e.op = "threshold" => e.threshold <= Cardinality(ChildrenOf(e.id))'
  BY SameLive DEF Fresh
<1> QED
  BY <1>2, <1>3, <1>4, <1>5, SameLive DEF Fresh

-----------------------------------------------------------------------------
(* Requests that begin *)

LEMMA RequestsAfter ==
  ASSUME edit = [q \in Editors |-> edit[q]], NEW q \in Editors, NEW e,
         edit' = [edit EXCEPT ![q] = e]
  PROVE  /\ edit' = [p \in Editors |-> edit'[p]]
         /\ edit'[q] = e /\ \A p \in Editors : p # q => edit'[p] = edit[p]
         /\ Requests' \subseteq Requests \cup {e}
<1>1. edit'[q] = e /\ \A p \in Editors : p # q => edit'[p] = edit[p]
  OBVIOUS
<1> QED
  BY <1>1 DEF Requests

LEMMA BeginKeeps ==
  ASSUME IInv, NEW q \in Editors, NEW e, Reads(q, e)
  PROVE  IInv'
<1>1. /\ edit' = [edit EXCEPT ![q] = e] /\ edit[q] = Idle /\ edits < MaxEdits
      /\ edits' = edits + 1
      /\ overlapped' = (overlapped \/ \E p \in Editors : edit[p] # Idle)
      /\ rows' = rows /\ approval' = approval
  BY DEF Reads, Begin
<1>2. SameTree /\ Ids' = Ids
  BY <1>1 DEF SameTree, Ids
<1>3. /\ edit' = [p \in Editors |-> edit'[p]]
      /\ edit'[q] = e /\ \A p \in Editors : p # q => edit'[p] = edit[p]
      /\ Requests' \subseteq Requests \cup {e}
  BY <1>1, RequestsAfter DEF IInv, Types
<1>4. TypeRows /\ TypeRows'
  BY <1>1 DEF IInv, Types, TypeRows, Ids
<1>5. \A x \in Requests' : Known(x) /\ Known(x)'
  <2>1. \A x \in Requests' : Known(x)
    BY <1>3 DEF IInv, Types, Reads
  <2>2. ASSUME NEW x, Known(x) PROVE Known(x)'
    BY <1>1, <1>2, <2>2, KnownStays
  <2> QED
    BY <2>1, <2>2
<1>6. Types'
  <2>1. edits' \in 0 .. MaxEdits
    BY <1>1, TreeAssumption DEF IInv, Types
  <2>2. overlapped' \in BOOLEAN
    BY <1>1 DEF IInv, Types
  <2>3. approval' \in [Users -> Approvals']
    BY <1>1, <1>2 DEF IInv, Types, Approvals
  <2> QED
    BY <1>3, <1>4, <1>5, <2>1, <2>2, <2>3 DEF Types
<1>7. OnePlace'
  BY <1>1, <1>2 DEF IInv, OnePlace
<1>8. ASSUME NEW h, Home(h) PROVE Home(h)'
  <2>1. \A x \in Requests' : Fits(h, x)
    BY <1>3, <1>8 DEF Home, Reads
  <2>2. \A n \in Ids : RowAtHome(h, n)'
    BY <1>1, <1>8 DEF Home, RowAtHome
  <2> QED
    BY <1>1, <1>2, <1>8, <2>1, <2>2 DEF Home
<1>9. Alone'
  <2> SUFFICES ASSUME ~overlapped' PROVE Sound' /\ (\A p, r \in Editors : edit'[p] # Idle /\ edit'[r] # Idle => p = r) /\ (\A x \in Requests' : Fresh(x)')
    BY DEF Alone
  <2>1. ~overlapped /\ \A p \in Editors : edit[p] = Idle
    BY <1>1 DEF IInv, Types
  <2>2. Sound'
    BY <1>2, <2>1, SoundStays DEF IInv, Alone
  <2>3. \A p, r \in Editors : edit'[p] # Idle /\ edit'[r] # Idle => p = r
    BY <1>3, <2>1
  <2>4. \A x \in Requests' : Fresh(x)
    BY <1>3, <2>1 DEF IInv, Alone, Reads
  <2>5. \A x \in Requests' : Fresh(x)'
    BY <1>2, <1>4, <1>5, <2>4, FreshStays
  <2> QED
    BY <2>2, <2>3, <2>5
<1>10. PICK h : Home(h)
  BY DEF IInv
<1> QED
  BY <1>6, <1>7, <1>8, <1>9, <1>10 DEF IInv

-----------------------------------------------------------------------------
(* Approvals *)

LEMMA BeginApproveKeeps ==
  ASSUME IInv, NEW u \in Users, BeginApprove(u)
  PROVE  IInv'
<1>1. PICK t \in Transactions :
        /\ approval' = [approval EXCEPT ![u] =
             [t |-> t, ids |-> {n \in ApproversOf(t) : rows[n].userId = u}]]
        /\ UNCHANGED <<rows, edit, edits, overlapped>>
  BY DEF BeginApprove
<1> DEFINE own == {n \in ApproversOf(t) : rows[n].userId = u}
           a == [t |-> t, ids |-> own]
<1>2. SameTree /\ Ids' = Ids /\ Requests' = Requests
  BY <1>1 DEF SameTree, Ids, Requests
<1>3. TypeRows /\ TypeRows'
  BY <1>1 DEF IInv, Types, TypeRows, Ids
<1>4. own \subseteq Ids
  BY DEF ApproversOf
<1>5. \A x \in Requests' : Known(x) /\ Known(x)'
  <2>1. ASSUME NEW x, Known(x) PROVE Known(x)'
    BY <1>1, <1>2, <2>1, KnownStays
  <2> QED
    BY <1>2, <2>1 DEF IInv, Types
<1>6. approval' = [approval EXCEPT ![u] = a] /\ approval \in [Users -> Approvals]
  BY <1>1 DEF IInv, Types
<1>7. approval'[u] = a /\ \A v \in Users : v # u => approval'[v] = approval[v]
  BY <1>6
<1>8. Types'
  <2>1. a \in Approvals
    BY <1>4 DEF Approvals
  <2>2. approval' \in [Users -> Approvals']
    BY <1>2, <1>6, <2>1 DEF Approvals
  <2> QED
    BY <1>1, <1>3, <1>5, <2>2 DEF IInv, Types
<1>9. OnePlace'
  BY <1>1, <1>2 DEF IInv, OnePlace
<1>10. ASSUME NEW h, Home(h) PROVE Home(h)'
  <2>1. ASSUME NEW n \in own PROVE h[n] = t
    <3>1. n \in Ids /\ TransactionOf(n) = {t}
      BY <2>1 DEF ApproversOf
    <3>2. TransactionOf(n) \subseteq {h[n]}
      BY <1>3, <1>10, <3>1, TransactionIsHome DEF IInv
    <3> QED
      BY <3>1, <3>2
  <2>2. \A v \in Users : \A n \in approval'[v].ids : h[n] = approval'[v].t
    <3>1. ASSUME NEW v \in Users, v # u
          PROVE  \A n \in approval'[v].ids : h[n] = approval'[v].t
      BY <1>7, <1>10, <3>1 DEF Home
    <3> QED
      BY <1>7, <2>1, <3>1
  <2>3. \A n \in Ids : RowAtHome(h, n)'
    BY <1>1, <1>10 DEF Home, RowAtHome
  <2> QED
    BY <1>2, <1>10, <2>2, <2>3 DEF Home
<1>11. Alone'
  <2>1. ASSUME NEW x \in Requests, Fresh(x) PROVE Fresh(x)'
    BY <1>2, <1>3, <1>5, <2>1, FreshStays
  <2> QED
    BY <1>1, <1>2, <2>1, SoundStays DEF IInv, Alone
<1>12. PICK h : Home(h)
  BY DEF IInv
<1> QED
  BY <1>8, <1>9, <1>10, <1>11, <1>12 DEF IInv

(* Only signatures are written. *)
LEMMA CommitApproveRows ==
  ASSUME IInv, NEW u \in Users, CommitApprove(u)
  PROVE  /\ SameTree /\ TypeRows /\ TypeRows'
         /\ \A n \in Ids : rows'[n].signature =
              IF n \in approval[u].ids THEN [by |-> u, on |-> approval[u].t]
              ELSE rows[n].signature
         /\ \A n \in approval[u].ids : approval[u].t \in Transactions
<1> DEFINE a == approval[u]
           sign == [by |-> u, on |-> a.t]
<1>1. TypeRows /\ a \in Approvals
  BY DEF IInv, Types
<1>2. \A n \in Ids : rows[n] \in Rows
  BY <1>1, RowsAre
<1>3. \A n \in a.ids : n \in Ids /\ a.t \in Transactions
  <2>1. PICK h : Home(h)
    BY DEF IInv
  <2> QED
    BY <1>1, <2>1 DEF Home, Approvals
<1>4. rows' = [n \in Ids |-> IF n \in a.ids THEN [rows[n] EXCEPT !.signature = sign]
                             ELSE rows[n]]
  BY DEF CommitApprove
<1>5. ASSUME NEW n \in Ids
      PROVE  /\ rows'[n] \in Rows
             /\ rows'[n].listId = rows[n].listId
             /\ rows'[n].transactionId = rows[n].transactionId
             /\ rows'[n].deleted = rows[n].deleted
             /\ rows'[n].threshold = rows[n].threshold
             /\ rows'[n].userId = rows[n].userId
             /\ rows'[n].signature = IF n \in a.ids THEN sign ELSE rows[n].signature
  <2>1. CASE n \in a.ids
    <3>1. rows'[n] = [rows[n] EXCEPT !.signature = sign] /\ rows[n] \in Rows
      BY <1>2, <1>4, <2>1
    <3>2. sign \in Signatures
      BY <1>3, <2>1 DEF Signatures
    <3> QED
      BY <2>1, <3>1, <3>2 DEF Rows
  <2>2. CASE n \notin a.ids
    BY <1>2, <1>4, <2>2
  <2> QED
    BY <2>1, <2>2
<1>6. rows' \in Seq(Rows) /\ Ids' = Ids
  <2>1. rows \in Seq(Rows) /\ rows' = [n \in DOMAIN rows |-> rows'[n]]
    BY <1>1, <1>4 DEF TypeRows, Ids
  <2> QED
    BY <1>5, <2>1, SameLength DEF Ids
<1> QED
  BY <1>1, <1>3, <1>5, <1>6 DEF SameTree, TypeRows

LEMMA CommitApproveKeeps ==
  ASSUME IInv, NEW u \in Users, CommitApprove(u)
  PROVE  IInv'
<1>1. /\ approval' = [approval EXCEPT ![u] = NoApproval]
      /\ UNCHANGED <<edit, edits, overlapped>>
  BY DEF CommitApprove
<1>2. SameTree /\ Ids' = Ids /\ Requests' = Requests /\ TypeRows /\ TypeRows'
  BY <1>1, CommitApproveRows DEF SameTree, Requests
<1>3. \A x \in Requests' : Known(x) /\ Known(x)'
  <2>1. ASSUME NEW x, Known(x) PROVE Known(x)'
    BY <1>2, <2>1, KnownStays DEF SameTree
  <2> QED
    BY <1>2, <2>1 DEF IInv, Types
<1>4. approval \in [Users -> Approvals]
  BY DEF IInv, Types
<1>5. approval'[u] = NoApproval /\ \A v \in Users : v # u => approval'[v] = approval[v]
  BY <1>1, <1>4
<1>6. Types'
  <2>1. approval' \in [Users -> Approvals']
    BY <1>1, <1>2, <1>4 DEF Approvals, NoApproval
  <2> QED
    BY <1>1, <1>2, <1>3, <2>1 DEF IInv, Types
<1>7. OnePlace'
  BY <1>2 DEF IInv, OnePlace, SameTree
<1>8. ASSUME NEW h, Home(h) PROVE Home(h)'
  <2>1. ASSUME NEW n \in Ids PROVE RowAtHome(h, n)'
    <3>1. RowAtHome(h, n) /\ (n \in approval[u].ids => h[n] = approval[u].t)
      BY <1>8 DEF Home
    <3>2. rows'[n].signature # NoSignature => rows'[n].signature.on = h[n]
      <4>1. rows'[n].signature = IF n \in approval[u].ids
                                 THEN [by |-> u, on |-> approval[u].t]
                                 ELSE rows[n].signature
        BY CommitApproveRows
      <4> QED
        BY <3>1, <4>1 DEF RowAtHome
    <3> QED
      BY <1>2, <3>1, <3>2 DEF RowAtHome, SameTree
  <2>2. \A v \in Users : \A n \in approval'[v].ids : h[n] = approval'[v].t
    <3>1. ASSUME NEW v \in Users, v # u
          PROVE  \A n \in approval'[v].ids : h[n] = approval'[v].t
      BY <1>5, <1>8, <3>1 DEF Home
    <3>2. NoApproval.ids = {}
      BY DEF NoApproval
    <3> QED
      BY <1>5, <3>1, <3>2
  <2> QED
    BY <1>2, <1>8, <2>1, <2>2 DEF Home
<1>9. Alone'
  <2>1. ASSUME NEW x \in Requests, Fresh(x) PROVE Fresh(x)'
    BY <1>2, <1>3, <2>1, FreshStays
  <2> QED
    BY <1>1, <1>2, <2>1, SoundStays DEF IInv, Alone
<1>10. PICK h : Home(h)
  BY DEF IInv
<1> QED
  BY <1>6, <1>7, <1>8, <1>9, <1>10 DEF IInv

-----------------------------------------------------------------------------
(* What every commit does *)

LEMMA FitsStays ==
  ASSUME NEW h, NEW g, \A n \in Ids : g[n] = h[n], NEW e, Known(e), Fits(h, e)
  PROVE  Fits(g, e)
<1>1. e.op = "create" /\ e.under # 0 => g[e.under] = e.t
  BY DEF Fits, Known, CreateKnown
<1>2. e.op = "detach" => g[e.id] = e.t
  BY DEF Fits, Known, DetachKnown
<1>3. e.op = "move" => g[e.to] = g[e.id]
  BY DEF Fits, Known, MoveKnown
<1> QED
  BY <1>1, <1>2, <1>3 DEF Fits

LEMMA IdleIsFine ==
  /\ Known(Idle) /\ Known(Idle)' /\ Fresh(Idle)'
  /\ \A h : Fits(h, Idle)
<1>1. Idle.op = "idle"
  BY DEF Idle
<1> QED
  BY <1>1 DEF Known, CreateKnown, DetachKnown, MoveKnown, ThresholdKnown,
              UserKnown, RemoveKnown, Fits, Fresh

LEMMA CommitKeeps ==
  ASSUME IInv, NEW q \in Editors, Commit(q),
         TypeRows', OnePlace', Ids \subseteq Ids',
         \A n \in Ids : rows'[n].threshold = 0 <=> rows[n].threshold = 0,
         NEW h, Home(h), NEW g \in [Ids' -> Transactions],
         \A n \in Ids : g[n] = h[n], \A n \in Ids' : RowAtHome(g, n)',
         ~overlapped => Sound'
  PROVE  IInv'
<1>1. /\ edit' = [edit EXCEPT ![q] = Idle]
      /\ UNCHANGED <<approval, edits, overlapped>>
  BY DEF Commit
<1>2. /\ edit' = [p \in Editors |-> edit'[p]]
      /\ edit'[q] = Idle /\ \A p \in Editors : p # q => edit'[p] = edit[p]
      /\ Requests' \subseteq Requests \cup {Idle}
  BY <1>1, RequestsAfter DEF IInv, Types
<1>3. \A x \in Requests' : Known(x) /\ Known(x)'
  <2>1. \A x \in Requests' : Known(x)
    BY <1>2, IdleIsFine DEF IInv, Types
  <2>2. ASSUME NEW x, Known(x) PROVE Known(x)'
    BY <2>2, KnownStays
  <2> QED
    BY <2>1, <2>2
<1>4. Types'
  <2>1. approval' \in [Users -> Approvals']
    <3>1. approval \in [Users -> Approvals] /\ Approvals \subseteq Approvals'
      BY DEF IInv, Types, Approvals
    <3> QED
      BY <1>1, <3>1
  <2> QED
    BY <1>1, <1>2, <1>3, <2>1 DEF IInv, Types
<1>5. Home(g)'
  <2>1. \A x \in Requests' : Fits(g, x)
    <3>1. \A x \in Requests' : Fits(h, x)
      BY <1>2, IdleIsFine DEF Home
    <3> QED
      BY <1>3, <3>1, FitsStays
  <2>2. \A u \in Users : \A n \in approval'[u].ids : g[n] = approval'[u].t
    <3>1. \A u \in Users : approval[u].ids \subseteq Ids
      BY DEF IInv, Types, Approvals
    <3> QED
      BY <1>1, <3>1 DEF Home
  <2> QED
    BY <2>1, <2>2 DEF Home
<1>6. Alone'
  <2> SUFFICES ASSUME ~overlapped
               PROVE  /\ Sound' /\ (\A p, r \in Editors : edit'[p] # Idle /\ edit'[r] # Idle => p = r)
                      /\ \A x \in Requests' : Fresh(x)'
    BY <1>1 DEF Alone
  <2>1. \A p \in Editors : edit[p] # Idle => p = q
    <3>1. edit[q] # Idle
      BY IdleIsFine DEF Commit, Idle
    <3> QED
      BY <3>1 DEF IInv, Alone
  <2>2. \A p \in Editors : edit'[p] = Idle
    BY <1>2, <2>1
  <2>3. \A x \in Requests' : x = Idle
    BY <2>2 DEF Requests
  <2> QED
    BY <2>2, <2>3, IdleIsFine
<1> QED
  BY <1>4, <1>5, <1>6 DEF IInv

-----------------------------------------------------------------------------
(* What each commit does to the rows *)

LEMMA DetachRows ==
  ASSUME TypeRows, NEW e, Known(e), e.op = "detach", rows' = AfterDetach(e)
  PROVE  /\ TypeRows' /\ Ids' = Ids /\ e.id \in Ids
         /\ \A n \in Ids :
              /\ rows'[n].listId = IF n = e.id THEN 0 ELSE rows[n].listId
              /\ rows'[n].transactionId = IF n = e.id THEN e.t ELSE rows[n].transactionId
              /\ rows'[n].threshold = IF n = e.parent /\ e.left # 0 /\ e.left < e.threshold
                                      THEN e.left ELSE rows[n].threshold
              /\ rows'[n].deleted = (rows[n].deleted \/ (n = e.parent /\ e.left = 0))
              /\ rows'[n].userId = rows[n].userId
              /\ rows'[n].signature = rows[n].signature
<1>1. /\ e.id \in Ids /\ e.t \in Transactions /\ e.parent \in Ids \cup {0}
      /\ e.left \in Nat /\ e.threshold \in Int
  BY DEF Known, DetachKnown
<1>2. /\ rows \in Seq(Rows) /\ 0 \notin Ids /\ rows = [n \in Ids |-> rows[n]]
      /\ \A n \in Ids : rows[n] \in Rows
  BY RowsAre DEF TypeRows, Ids
<1> DEFINE up == [rows EXCEPT ![e.id].listId = 0, ![e.id].transactionId = e.t]
<1>3. up = [n \in Ids |-> IF n = e.id
                          THEN [[rows[n] EXCEPT !.listId = 0] EXCEPT !.transactionId = e.t]
                          ELSE rows[n]]
  BY <1>1, <1>2 DEF Ids
<1>4. \A n \in Ids :
        /\ up[n] \in Rows
        /\ up[n].listId = IF n = e.id THEN 0 ELSE rows[n].listId
        /\ up[n].transactionId = IF n = e.id THEN e.t ELSE rows[n].transactionId
        /\ up[n].threshold = rows[n].threshold /\ up[n].deleted = rows[n].deleted
        /\ up[n].userId = rows[n].userId /\ up[n].signature = rows[n].signature
  <2> SUFFICES ASSUME NEW n \in Ids
               PROVE  /\ up[n] \in Rows
                      /\ up[n].listId = IF n = e.id THEN 0 ELSE rows[n].listId
                      /\ up[n].transactionId = IF n = e.id THEN e.t ELSE rows[n].transactionId
                      /\ up[n].threshold = rows[n].threshold /\ up[n].deleted = rows[n].deleted
                      /\ up[n].userId = rows[n].userId /\ up[n].signature = rows[n].signature
    OBVIOUS
  <2>1. CASE n = e.id
    <3>1. up[n] = [[rows[n] EXCEPT !.listId = 0] EXCEPT !.transactionId = e.t]
      BY <1>3, <2>1
    <3> QED
      BY <1>1, <1>2, <2>1, <3>1 DEF Rows
  <2>2. CASE n # e.id
    <3>1. up[n] = rows[n]
      BY <1>3, <2>2
    <3> QED
      BY <1>2, <2>2, <3>1
  <2> QED
    BY <2>1, <2>2
<1>5. up = [n \in Ids |-> up[n]]
  BY <1>3
<1>6. rows' = IF e.parent = 0 THEN up
              ELSE IF e.left = 0 THEN [up EXCEPT ![e.parent].deleted = TRUE]
              ELSE IF e.left < e.threshold THEN [up EXCEPT ![e.parent].threshold = e.left]
              ELSE up
  BY DEF AfterDetach
<1> HIDE DEF up
<1>7. rows' = [n \in Ids |-> rows'[n]]
  BY <1>5, <1>6
<1>8. \A n \in Ids :
        rows'[n] = IF n = e.parent /\ e.left = 0 THEN [up[n] EXCEPT !.deleted = TRUE]
                   ELSE IF n = e.parent /\ e.left < e.threshold
                        THEN [up[n] EXCEPT !.threshold = e.left]
                   ELSE up[n]
  BY <1>1, <1>2, <1>5, <1>6
<1>9. ASSUME NEW n \in Ids
      PROVE  /\ rows'[n] \in Rows
             /\ rows'[n].listId = up[n].listId
             /\ rows'[n].transactionId = up[n].transactionId
             /\ rows'[n].threshold = IF n = e.parent /\ e.left # 0 /\ e.left < e.threshold
                                     THEN e.left ELSE up[n].threshold
             /\ rows'[n].deleted = (up[n].deleted \/ (n = e.parent /\ e.left = 0))
             /\ rows'[n].userId = up[n].userId
             /\ rows'[n].signature = up[n].signature
  <2>1. up[n] \in Rows
    BY <1>4
  <2>2. CASE n = e.parent /\ e.left = 0
    <3>1. rows'[n] = [up[n] EXCEPT !.deleted = TRUE]
      BY <1>8, <2>2
    <3> QED
      BY <2>1, <2>2, <3>1 DEF Rows
  <2>3. CASE n = e.parent /\ e.left # 0 /\ e.left < e.threshold
    <3>1. rows'[n] = [up[n] EXCEPT !.threshold = e.left]
      BY <1>8, <2>3
    <3> QED
      BY <1>1, <2>1, <2>3, <3>1 DEF Rows
  <2>4. CASE n # e.parent \/ (e.left # 0 /\ ~(e.left < e.threshold))
    <3>1. rows'[n] = up[n]
      BY <1>8, <2>4
    <3>2. up[n].deleted \in BOOLEAN
      BY <2>1 DEF Rows
    <3> QED
      BY <2>1, <2>4, <3>1, <3>2
  <2> QED
    BY <2>2, <2>3, <2>4
<1>10. rows' \in Seq(Rows) /\ Ids' = Ids
  BY <1>2, <1>7, <1>9, SameLength DEF Ids
<1> QED
  BY <1>1, <1>4, <1>9, <1>10 DEF TypeRows

LEMMA MoveRows ==
  ASSUME TypeRows, NEW e, Known(e), e.op = "move", rows' = AfterMove(e)
  PROVE  /\ TypeRows' /\ Ids' = Ids /\ e.id \in Ids /\ e.to \in Ids
         /\ \A n \in Ids :
              /\ rows'[n].listId = IF n = e.id THEN e.to ELSE rows[n].listId
              /\ rows'[n].transactionId = IF n = e.id THEN NoTransaction
                                          ELSE rows[n].transactionId
              /\ rows'[n].threshold = rows[n].threshold
              /\ rows'[n].deleted = rows[n].deleted
              /\ rows'[n].userId = rows[n].userId
              /\ rows'[n].signature = rows[n].signature
<1>1. e.id \in Ids /\ e.to \in Ids
  BY DEF Known, MoveKnown
<1>2. /\ rows \in Seq(Rows) /\ Ids \subseteq Nat /\ rows = [n \in Ids |-> rows[n]]
      /\ \A n \in Ids : rows[n] \in Rows
  BY RowsAre DEF TypeRows, Ids
<1>3. rows' = [n \in Ids |-> IF n = e.id
                             THEN [[rows[n] EXCEPT !.listId = e.to]
                                      EXCEPT !.transactionId = NoTransaction]
                             ELSE rows[n]]
  BY <1>1, <1>2 DEF AfterMove, Ids
<1>4. ASSUME NEW n \in Ids
      PROVE  /\ rows'[n] \in Rows
             /\ rows'[n].listId = IF n = e.id THEN e.to ELSE rows[n].listId
             /\ rows'[n].transactionId = IF n = e.id THEN NoTransaction
                                         ELSE rows[n].transactionId
             /\ rows'[n].threshold = rows[n].threshold
             /\ rows'[n].deleted = rows[n].deleted
             /\ rows'[n].userId = rows[n].userId
             /\ rows'[n].signature = rows[n].signature
  <2>1. CASE n = e.id
    <3>1. rows'[n] = [[rows[n] EXCEPT !.listId = e.to] EXCEPT !.transactionId = NoTransaction]
      BY <1>3, <2>1
    <3> QED
      BY <1>1, <1>2, <2>1, <3>1 DEF Rows
  <2>2. CASE n # e.id
    BY <1>2, <1>3, <2>2
  <2> QED
    BY <2>1, <2>2
<1>5. rows' \in Seq(Rows) /\ Ids' = Ids
  <2>1. rows' = [n \in DOMAIN rows |-> rows'[n]]
    BY <1>3 DEF Ids
  <2> QED
    BY <1>2, <1>4, <2>1, SameLength DEF Ids
<1> QED
  BY <1>1, <1>4, <1>5 DEF TypeRows

(* A threshold or a user is changed. *)
LEMMA FieldRows ==
  ASSUME TypeRows, NEW e, Known(e),
         \/ e.op = "threshold" /\ rows' = AfterThreshold(e)
         \/ e.op = "user" /\ rows' = AfterUser(e)
  PROVE  /\ TypeRows' /\ Ids' = Ids /\ e.id \in Ids
         /\ \A n \in Ids :
              /\ rows'[n].listId = rows[n].listId
              /\ rows'[n].transactionId = rows[n].transactionId
              /\ rows'[n].threshold = IF n = e.id /\ e.op = "threshold" THEN e.threshold
                                      ELSE rows[n].threshold
              /\ rows'[n].deleted = rows[n].deleted
              /\ rows'[n].userId = IF n = e.id /\ e.op = "user" THEN e.userId
                                   ELSE rows[n].userId
              /\ rows'[n].signature = rows[n].signature
<1>1. /\ e.id \in Ids
      /\ e.op = "threshold" => e.threshold \in Int
      /\ e.op = "user" => e.userId \in Users
  BY DEF Known, ThresholdKnown, UserKnown
<1>2. /\ rows \in Seq(Rows) /\ rows = [n \in Ids |-> rows[n]]
      /\ \A n \in Ids : rows[n] \in Rows
  BY RowsAre DEF TypeRows, Ids
<1>3. rows' = [n \in Ids |-> IF n = e.id
                             THEN IF e.op = "user" THEN [rows[n] EXCEPT !.userId = e.userId]
                                  ELSE [rows[n] EXCEPT !.threshold = e.threshold]
                             ELSE rows[n]]
  BY <1>1, <1>2 DEF AfterThreshold, AfterUser, Ids
<1>4. ASSUME NEW n \in Ids
      PROVE  /\ rows'[n] \in Rows
             /\ rows'[n].listId = rows[n].listId
             /\ rows'[n].transactionId = rows[n].transactionId
             /\ rows'[n].threshold = IF n = e.id /\ e.op = "threshold" THEN e.threshold
                                     ELSE rows[n].threshold
             /\ rows'[n].deleted = rows[n].deleted
             /\ rows'[n].userId = IF n = e.id /\ e.op = "user" THEN e.userId
                                  ELSE rows[n].userId
             /\ rows'[n].signature = rows[n].signature
  <2>1. CASE n = e.id /\ e.op = "user"
    <3>1. rows'[n] = [rows[n] EXCEPT !.userId = e.userId]
      BY <1>3, <2>1
    <3> QED
      BY <1>1, <1>2, <2>1, <3>1 DEF Rows
  <2>2. CASE n = e.id /\ e.op = "threshold"
    <3>1. rows'[n] = [rows[n] EXCEPT !.threshold = e.threshold]
      BY <1>3, <2>2
    <3> QED
      BY <1>1, <1>2, <2>2, <3>1 DEF Rows
  <2>3. CASE n # e.id
    BY <1>2, <1>3, <2>3
  <2> QED
    BY <2>1, <2>2, <2>3
<1>5. rows' \in Seq(Rows) /\ Ids' = Ids
  <2>1. rows' = [n \in DOMAIN rows |-> rows'[n]]
    BY <1>3 DEF Ids
  <2> QED
    BY <1>2, <1>4, <2>1, SameLength DEF Ids
<1> QED
  BY <1>1, <1>4, <1>5 DEF TypeRows

LEMMA RemoveRows ==
  ASSUME TypeRows, NEW e, Known(e), e.op = "remove", rows' = AfterRemove(e)
  PROVE  /\ TypeRows' /\ Ids' = Ids /\ e.id \in Ids
         /\ \A n \in Ids :
              /\ rows'[n].listId = rows[n].listId
              /\ rows'[n].transactionId = rows[n].transactionId
              /\ rows'[n].threshold = rows[n].threshold
              /\ rows'[n].deleted = (rows[n].deleted \/ n \in Below(e.id))
              /\ rows'[n].userId = rows[n].userId
              /\ rows'[n].signature = rows[n].signature
<1>1. e.id \in Ids
  BY DEF Known, RemoveKnown
<1>2. /\ rows \in Seq(Rows) /\ \A n \in Ids : rows[n] \in Rows
  BY RowsAre DEF TypeRows
<1>3. rows' = [n \in Ids |-> IF n \in Below(e.id) THEN [rows[n] EXCEPT !.deleted = TRUE]
                             ELSE rows[n]]
  BY DEF AfterRemove
<1>4. ASSUME NEW n \in Ids
      PROVE  /\ rows'[n] \in Rows
             /\ rows'[n].listId = rows[n].listId
             /\ rows'[n].transactionId = rows[n].transactionId
             /\ rows'[n].threshold = rows[n].threshold
             /\ rows'[n].deleted = (rows[n].deleted \/ n \in Below(e.id))
             /\ rows'[n].userId = rows[n].userId
             /\ rows'[n].signature = rows[n].signature
  <2>1. CASE n \in Below(e.id)
    <3>1. rows'[n] = [rows[n] EXCEPT !.deleted = TRUE]
      BY <1>3, <2>1
    <3> QED
      BY <1>2, <2>1, <3>1 DEF Rows
  <2>2. CASE n \notin Below(e.id)
    <3>1. rows'[n] = rows[n] /\ rows[n].deleted \in BOOLEAN
      BY <1>2, <1>3, <2>2 DEF Rows
    <3> QED
      BY <1>2, <2>2, <3>1
  <2> QED
    BY <2>1, <2>2
<1>5. rows' \in Seq(Rows) /\ Ids' = Ids
  <2>1. rows' = [n \in DOMAIN rows |-> rows'[n]]
    BY <1>3 DEF Ids
  <2> QED
    BY <1>2, <1>4, <2>1, SameLength DEF Ids
<1> QED
  BY <1>1, <1>4, <1>5 DEF TypeRows

(* The new rows are numbered after the old ones. *)
NewRow(e, i, r) ==
  /\ r.listId = IF e.dto[i].at = 0 THEN e.under ELSE Len(rows) + e.dto[i].at
  /\ r.transactionId = IF e.dto[i].at = 0 /\ e.under = 0 THEN e.t ELSE NoTransaction
  /\ r.threshold = e.dto[i].threshold
  /\ r.userId = e.dto[i].userId
  /\ r.signature = e.copy[i]
  /\ r.deleted = FALSE

LEMMA DtoIs ==
  ASSUME NEW dto \in Dtos
  PROVE  /\ Len(dto) \in Nat /\ DOMAIN dto = 1 .. Len(dto)
         /\ \A i \in DOMAIN dto :
              /\ dto[i].at \in Nat /\ dto[i].at < i /\ dto[i].threshold \in Int
              /\ dto[i].userId \in Users \cup {NoUser}
              /\ IsFiniteSet(ChildrenIn(dto, i))
              /\ Cardinality(ChildrenIn(dto, i)) \in Nat
<1>1. dto \in Seq(Nodes) /\ \A i \in DOMAIN dto : dto[i].at < i
  BY TreeAssumption
<1>2. Len(dto) \in Nat /\ DOMAIN dto = 1 .. Len(dto) /\ \A i \in DOMAIN dto : dto[i] \in Nodes
  BY <1>1
<1>3. \A i \in DOMAIN dto : ChildrenIn(dto, i) \in SUBSET DOMAIN dto
  BY DEF ChildrenIn
<1>4. IsFiniteSet(DOMAIN dto)
  BY <1>2, FS_Interval
<1>5. \A i \in DOMAIN dto : /\ IsFiniteSet(ChildrenIn(dto, i))
                            /\ Cardinality(ChildrenIn(dto, i)) \in Nat
  BY <1>3, <1>4, FS_Subset, FS_CardinalityType
<1> QED
  BY <1>1, <1>2, <1>5 DEF Nodes

LEMMA CreateRows ==
  ASSUME TypeRows, NEW e, Known(e), e.op = "create", rows' = AfterCreate(e)
  PROVE  /\ TypeRows' /\ Ids \subseteq Ids'
         /\ \A n \in Ids : rows'[n] = rows[n]
         /\ \A i \in DOMAIN e.dto : /\ Len(rows) + i \in Ids' \ Ids
                                    /\ NewRow(e, i, rows'[Len(rows) + i])
         /\ \A n \in Ids' \ Ids : \E i \in DOMAIN e.dto : n = Len(rows) + i
<1> DEFINE k == Len(rows)
           d == Len(e.dto)
           new == Inserted(e)
<1>1. /\ e.t \in Transactions /\ e.dto \in Dtos /\ e.under \in Ids \cup {0}
      /\ e.copy \in [DOMAIN e.dto -> Signatures]
  BY DEF Known, CreateKnown
<1>2. k \in Nat /\ Ids = 1 .. k /\ rows \in Seq(Rows)
  BY RowsAre DEF TypeRows
<1>3. /\ d \in Nat /\ DOMAIN e.dto = 1 .. d
      /\ \A i \in 1 .. d : /\ e.dto[i].at \in Nat /\ e.dto[i].at < i
                           /\ e.dto[i].threshold \in Int
                           /\ e.dto[i].userId \in Users \cup {NoUser}
  BY <1>1, DtoIs
<1>4. new = [i \in 1 .. d |-> new[i]] /\ \A i \in 1 .. d : NewRow(e, i, new[i]) /\ new[i] \in Rows
  <2>1. ASSUME NEW i \in 1 .. d PROVE NewRow(e, i, new[i]) /\ new[i] \in Rows
    <3> DEFINE x == [listId |-> IF e.dto[i].at = 0 THEN e.under ELSE Len(rows) + e.dto[i].at,
                     transactionId |-> IF e.dto[i].at = 0 /\ e.under = 0 THEN e.t
                                       ELSE NoTransaction,
                     threshold |-> e.dto[i].threshold,
                     userId |-> e.dto[i].userId,
                     signature |-> e.copy[i],
                     deleted |-> FALSE]
    <3>1. new[i] = x
      BY <1>3 DEF Inserted
    <3>2. e.copy[i] \in Signatures
      BY <1>1, <1>3
    <3>3. NewRow(e, i, x)
      BY DEF NewRow
    <3>4. e.under \in Nat /\ Len(rows) + e.dto[i].at \in Nat
      BY <1>1, <1>2, <1>3
    <3> DEFINE list == IF e.dto[i].at = 0 THEN e.under ELSE Len(rows) + e.dto[i].at
               t == IF e.dto[i].at = 0 /\ e.under = 0 THEN e.t ELSE NoTransaction
    <3>5. list \in Nat /\ t \in Transactions \cup {NoTransaction}
      BY <1>1, <3>4
    <3>6. e.dto[i].threshold \in Int /\ e.dto[i].userId \in Users \cup {NoUser}
      BY <1>3
    <3> HIDE DEF list, t
    <3>7. [listId |-> list, transactionId |-> t, threshold |-> e.dto[i].threshold,
           userId |-> e.dto[i].userId, signature |-> e.copy[i], deleted |-> FALSE] \in Rows
      BY <3>2, <3>5, <3>6 DEF Rows
    <3>8. x \in Rows
      BY <3>7 DEF list, t
    <3> QED
      BY <3>1, <3>3, <3>8
  <2>2. new = [i \in 1 .. d |-> new[i]]
    BY <1>3 DEF Inserted
  <2> QED
    BY <2>1, <2>2
<1> HIDE DEF new
<1>5. new \in [1 .. d -> Rows]
  BY <1>4
<1>6. new \in Seq(Rows) /\ Len(new) = d
  BY <1>3, <1>5
<1>7. rows' = rows \o new
  BY DEF AfterCreate, new
<1>8. rows' \in Seq(Rows) /\ Len(rows') = k + d /\ Ids' = 1 .. (k + d)
  <2>1. rows' \in Seq(Rows) /\ Len(rows') = k + d
    BY <1>2, <1>6, <1>7
  <2> QED
    BY <2>1 DEF Ids
<1>9. \A n \in Ids : rows'[n] = rows[n]
  BY <1>2, <1>3, <1>6, <1>7
<1>10. \A i \in 1 .. d : rows'[k + i] = new[i] /\ k + i \in Ids' \ Ids
  BY <1>2, <1>3, <1>6, <1>7, <1>8
<1>11. ASSUME NEW n \in Ids' \ Ids PROVE \E i \in 1 .. d : n = k + i
  <2>1. n - k \in 1 .. d /\ n = k + (n - k)
    BY <1>2, <1>3, <1>8
  <2> QED
    BY <2>1
<1>12. \A n \in Ids' : rows'[n].listId \in Ids' \cup {0}
  <2>1. ASSUME NEW n \in Ids PROVE rows'[n].listId \in Ids' \cup {0}
    BY <1>2, <1>3, <1>8, <1>9 DEF TypeRows
  <2>2. ASSUME NEW i \in 1 .. d PROVE rows'[k + i].listId \in Ids' \cup {0}
    <3>1. NewRow(e, i, rows'[k + i])
      BY <1>4, <1>10
    <3>2. CASE e.dto[i].at = 0
      <4>1. rows'[k + i].listId = e.under
        BY <3>1, <3>2 DEF NewRow
      <4> QED
        BY <1>1, <1>2, <1>3, <1>8, <4>1
    <3>3. CASE e.dto[i].at # 0
      <4>1. rows'[k + i].listId = k + e.dto[i].at
        BY <3>1, <3>3 DEF NewRow
      <4>2. e.dto[i].at \in 1 .. d
        BY <1>3, <3>3
      <4> QED
        BY <1>2, <1>3, <1>8, <4>1, <4>2
    <3> QED
      BY <3>2, <3>3
  <2> QED
    BY <1>11, <2>1, <2>2
<1>13. TypeRows'
  BY <1>8, <1>12 DEF TypeRows
<1>14. Ids \subseteq Ids'
  BY <1>2, <1>3, <1>8
<1>15. \A i \in DOMAIN e.dto : /\ k + i \in Ids' \ Ids
                              /\ NewRow(e, i, rows'[k + i])
  BY <1>3, <1>4, <1>10
<1>16. \A n \in Ids' \ Ids : \E i \in DOMAIN e.dto : n = k + i
  BY <1>3, <1>11
<1> QED
  BY <1>9, <1>13, <1>14, <1>15, <1>16

-----------------------------------------------------------------------------
(* Each commit keeps the invariant *)

LEMMA CommitReads ==
  ASSUME IInv, NEW q \in Editors
  PROVE  /\ TypeRows /\ OnePlace
         /\ Known(edit[q])
         /\ \A h : Home(h) => Fits(h, edit[q])
         /\ ~overlapped => Sound /\ Fresh(edit[q])
BY DEF IInv, Types, Home, Alone, Requests

LEMMA DetachKeeps ==
  ASSUME IInv, NEW q \in Editors, Commit(q), NEW e, e = edit[q], e.op = "detach",
         rows' = AfterDetach(e)
  PROVE  IInv'
<1>1. /\ TypeRows /\ OnePlace /\ Known(e)
      /\ \A h : Home(h) => Fits(h, e)
      /\ ~overlapped => Sound /\ Fresh(e)
  BY CommitReads
<1>2. /\ TypeRows' /\ Ids' = Ids /\ e.id \in Ids
      /\ \A n \in Ids :
           /\ rows'[n].listId = IF n = e.id THEN 0 ELSE rows[n].listId
           /\ rows'[n].transactionId = IF n = e.id THEN e.t ELSE rows[n].transactionId
           /\ rows'[n].threshold = IF n = e.parent /\ e.left # 0 /\ e.left < e.threshold
                                   THEN e.left ELSE rows[n].threshold
           /\ rows'[n].deleted = (rows[n].deleted \/ (n = e.parent /\ e.left = 0))
           /\ rows'[n].userId = rows[n].userId
           /\ rows'[n].signature = rows[n].signature
  BY <1>1, DetachRows
<1>3. /\ e.t \in Transactions /\ e.left \in Nat /\ e.threshold \in Int
      /\ e.parent # 0 /\ e.threshold # 0 => rows[e.parent].threshold # 0
      /\ 0 \notin Ids /\ \A n \in Ids : rows[n] \in Rows
  BY <1>1, RowsAre DEF Known, DetachKnown
<1>4. \A n \in Ids : rows'[n].threshold = 0 <=> rows[n].threshold = 0
  <2>1. ASSUME NEW n \in Ids, n = e.parent, e.left # 0, e.left < e.threshold
        PROVE  rows[n].threshold # 0
    BY <1>3, <2>1
  <2> QED
    BY <1>2, <2>1
<1>5. OnePlace'
  <2>1. ASSUME NEW n \in Ids
        PROVE  rows'[n].listId # 0 <=> rows'[n].transactionId = NoTransaction
    BY <1>1, <1>2, <1>3, TreeAssumption DEF OnePlace
  <2>2. ASSUME NEW n \in Ids PROVE rows'[n].threshold # 0 => rows'[n].userId = NoUser
    BY <1>1, <1>2, <1>4 DEF OnePlace
  <2> QED
    BY <1>2, <2>1, <2>2 DEF OnePlace
<1>6. ASSUME NEW h, Home(h) PROVE \A n \in Ids : RowAtHome(h, n)'
  <2>1. h[e.id] = e.t
    BY <1>1, <1>6 DEF Fits
  <2>2. \A n \in Ids : RowAtHome(h, n)
    BY <1>6 DEF Home
  <2> QED
    BY <1>2, <2>1, <2>2 DEF RowAtHome
<1>7. ~overlapped => Sound'
  <2> SUFFICES ASSUME ~overlapped PROVE Sound'
    OBVIOUS
  <2>1. Sound /\ Fresh(e)
    BY <1>1
  <2>2. \A n \in Ids : Live(n)' <=> Live(n) /\ ~(n = e.parent /\ e.left = 0)
    BY <1>2 DEF Live
  <2>3. ASSUME NEW n \in Ids, Live(n)', rows'[n].listId # 0
        PROVE  Live(rows[n].listId)'
    <3>1. n # e.id /\ rows'[n].listId = rows[n].listId /\ Live(n)
      BY <1>2, <2>2, <2>3
    <3>2. Live(rows[n].listId) /\ rows[n].listId \in Ids
      BY <2>1, <2>3, <3>1 DEF Sound, Live
    <3>3. ~(rows[n].listId = e.parent /\ e.left = 0)
      <4> SUFFICES ASSUME rows[n].listId = e.parent, e.left = 0 PROVE FALSE
        OBVIOUS
      <4> DEFINE C == ChildrenOf(e.parent)
      <4>1. rows[e.id].listId = e.parent /\ Live(e.id) /\ e.left = Cardinality(C) - 1
        BY <1>3, <2>1, <3>2 DEF Fresh
      <4>2. n \in C /\ e.id \in C
        BY <1>2, <3>1, <4>1 DEF ChildrenOf
      <4>3. IsFiniteSet(C) /\ Cardinality(C) \in Nat
        BY <1>1, RowsAre, FS_Subset, FS_CardinalityType DEF ChildrenOf
      <4>4. Cardinality(C) = 1
        BY <4>1, <4>3
      <4>5. \E x : C = {x}
        BY <4>3, <4>4, FS_Singleton
      <4> QED
        BY <3>1, <4>2, <4>5
    <3> QED
      BY <2>2, <3>1, <3>2, <3>3
  <2>4. ASSUME NEW S \in SUBSET Ids, S # {}, \A n \in S : Live(n)'
        PROVE  \E n \in S : rows'[n].listId \notin S
    <3>1. PICK n \in S : rows[n].listId \notin S
      BY <2>1, <2>2, <2>4 DEF Sound
    <3>2. rows'[n].listId \notin S
      BY <1>2, <1>3, <3>1
    <3> QED
      BY <3>2
  <2> QED
    BY <1>2, <2>3, <2>4 DEF Sound
<1>8. PICK h : Home(h)
  BY DEF IInv
<1> QED
  BY <1>2, <1>4, <1>5, <1>6, <1>7, <1>8, CommitKeeps DEF Home

LEMMA MoveKeeps ==
  ASSUME IInv, NEW q \in Editors, Commit(q), NEW e, e = edit[q], e.op = "move",
         rows' = AfterMove(e)
  PROVE  IInv'
<1>1. /\ TypeRows /\ OnePlace /\ Known(e)
      /\ \A h : Home(h) => Fits(h, e)
      /\ ~overlapped => Sound /\ Fresh(e)
  BY CommitReads
<1>2. /\ TypeRows' /\ Ids' = Ids /\ e.id \in Ids /\ e.to \in Ids
      /\ \A n \in Ids :
           /\ rows'[n].listId = IF n = e.id THEN e.to ELSE rows[n].listId
           /\ rows'[n].transactionId = IF n = e.id THEN NoTransaction
                                       ELSE rows[n].transactionId
           /\ rows'[n].threshold = rows[n].threshold
           /\ rows'[n].deleted = rows[n].deleted
           /\ rows'[n].userId = rows[n].userId
           /\ rows'[n].signature = rows[n].signature
  BY <1>1, MoveRows
<1>3. 0 \notin Ids
  BY <1>1, RowsAre
<1>4. OnePlace'
  BY <1>1, <1>2, <1>3 DEF OnePlace
<1>5. ASSUME NEW h, Home(h) PROVE \A n \in Ids : RowAtHome(h, n)'
  <2>1. h[e.to] = h[e.id]
    BY <1>1, <1>5 DEF Fits
  <2>2. \A n \in Ids : RowAtHome(h, n)
    BY <1>5 DEF Home
  <2> QED
    BY <1>2, <2>1, <2>2 DEF RowAtHome
<1>6. ~overlapped => Sound'
  <2> SUFFICES ASSUME ~overlapped PROVE Sound'
    OBVIOUS
  <2>1. Sound /\ Live(e.to) /\ e.to \notin Below(e.id)
    BY <1>1 DEF Fresh
  <2>2. \A n \in Ids : Live(n)' <=> Live(n)
    BY <1>2 DEF Live
  <2>3. ASSUME NEW n \in Ids, Live(n)', rows'[n].listId # 0
        PROVE  Live(rows[n].listId)'
    <3>1. CASE n = e.id
      BY <1>2, <2>1, <2>2, <3>1
    <3>2. CASE n # e.id
      <4>1. Live(rows[n].listId) /\ rows[n].listId \in Ids
        BY <1>2, <2>1, <2>2, <2>3, <3>2 DEF Sound, Live
      <4> QED
        BY <1>2, <2>2, <3>2, <4>1
    <3> QED
      BY <3>1, <3>2
  <2>4. ASSUME NEW S \in SUBSET Ids, S # {}, \A n \in S : Live(n)',
               \A n \in S : rows'[n].listId \in S
        PROVE  FALSE
    <3>1. \A n \in S : Live(n)
      BY <2>2, <2>4
    <3>2. e.id \in S
      <4>1. PICK n \in S : rows[n].listId \notin S
        BY <2>1, <2>4, <3>1 DEF Sound
      <4> QED
        BY <1>2, <2>4, <4>1
    <3> DEFINE A == Above(e.to)
               T == S \cap A
    <3>3. Least(rows, e.to, A) /\ e.id \notin A
      BY <1>1, <1>2, <2>1, AboveLeast DEF Below
    <3>4. e.to \in T
      BY <1>2, <2>4, <3>2, <3>3 DEF Least
    <3>5. PICK n \in T : rows[n].listId \notin T
      <4>1. T \in SUBSET Ids /\ T # {} /\ \A n \in T : Live(n)
        BY <3>1, <3>4
      <4> HIDE DEF T
      <4> QED
        BY <2>1, <4>1 DEF Sound
    <3>6. rows[n].listId \in S
      BY <1>2, <2>4, <3>3, <3>5
    <3>7. rows[n].listId \in A
      BY <1>3, <3>3, <3>5, <3>6 DEF Least, ClosedIn
    <3> QED
      BY <3>5, <3>6, <3>7
  <2> QED
    BY <1>2, <2>3, <2>4 DEF Sound
<1>7. PICK h : Home(h)
  BY DEF IInv
<1> QED
  BY <1>2, <1>4, <1>5, <1>6, <1>7, CommitKeeps DEF Home

LEMMA FieldKeeps ==
  ASSUME IInv, NEW q \in Editors, Commit(q), NEW e, e = edit[q],
         \/ e.op = "threshold" /\ rows' = AfterThreshold(e)
         \/ e.op = "user" /\ rows' = AfterUser(e)
  PROVE  IInv'
<1>1. TypeRows /\ OnePlace /\ Known(e) /\ (~overlapped => Sound)
  BY CommitReads
<1>2. /\ TypeRows' /\ Ids' = Ids /\ e.id \in Ids
      /\ \A n \in Ids :
           /\ rows'[n].listId = rows[n].listId
           /\ rows'[n].transactionId = rows[n].transactionId
           /\ rows'[n].threshold = IF n = e.id /\ e.op = "threshold" THEN e.threshold
                                   ELSE rows[n].threshold
           /\ rows'[n].deleted = rows[n].deleted
           /\ rows'[n].userId = IF n = e.id /\ e.op = "user" THEN e.userId
                                ELSE rows[n].userId
           /\ rows'[n].signature = rows[n].signature
  BY <1>1, FieldRows
<1>3. /\ e.op = "threshold" => e.threshold # 0 /\ rows[e.id].threshold # 0
      /\ e.op = "user" => rows[e.id].threshold = 0
  BY <1>1 DEF Known, ThresholdKnown, UserKnown
<1>4. \A n \in Ids : rows'[n].threshold = 0 <=> rows[n].threshold = 0
  BY <1>2, <1>3
<1>5. OnePlace'
  <2>1. ASSUME NEW n \in Ids
        PROVE  /\ rows'[n].listId # 0 <=> rows'[n].transactionId = NoTransaction
               /\ rows'[n].threshold # 0 => rows'[n].userId = NoUser
    BY <1>1, <1>2, <1>3, <1>4 DEF OnePlace
  <2> QED
    BY <1>2, <2>1 DEF OnePlace
<1>6. ASSUME NEW h, Home(h) PROVE \A n \in Ids : RowAtHome(h, n)'
  BY <1>2, <1>6 DEF Home, RowAtHome
<1>7. ~overlapped => Sound'
  <2>1. \A n : Live(n)' <=> Live(n)
    BY <1>2 DEF Live
  <2> QED
    BY <1>1, <1>2, <2>1 DEF Sound
<1>8. PICK h : Home(h)
  BY DEF IInv
<1> QED
  BY <1>2, <1>4, <1>5, <1>6, <1>7, <1>8, CommitKeeps DEF Home

LEMMA RemoveKeeps ==
  ASSUME IInv, NEW q \in Editors, Commit(q), NEW e, e = edit[q], e.op = "remove",
         rows' = AfterRemove(e)
  PROVE  IInv'
<1>1. TypeRows /\ OnePlace /\ Known(e) /\ (~overlapped => Sound)
  BY CommitReads
<1>2. /\ TypeRows' /\ Ids' = Ids /\ e.id \in Ids
      /\ \A n \in Ids :
           /\ rows'[n].listId = rows[n].listId
           /\ rows'[n].transactionId = rows[n].transactionId
           /\ rows'[n].threshold = rows[n].threshold
           /\ rows'[n].deleted = (rows[n].deleted \/ n \in Below(e.id))
           /\ rows'[n].userId = rows[n].userId
           /\ rows'[n].signature = rows[n].signature
  BY <1>1, RemoveRows
<1>3. OnePlace'
  BY <1>1, <1>2 DEF OnePlace
<1>4. ASSUME NEW h, Home(h) PROVE \A n \in Ids : RowAtHome(h, n)'
  BY <1>2, <1>4 DEF Home, RowAtHome
<1>5. ~overlapped => Sound'
  <2> SUFFICES ASSUME ~overlapped PROVE Sound'
    OBVIOUS
  <2>1. \A n \in Ids : Live(n)' <=> Live(n) /\ n \notin Below(e.id)
    BY <1>2 DEF Live
  <2>2. ASSUME NEW n \in Ids, Live(n)', rows'[n].listId # 0
        PROVE  Live(rows[n].listId)'
    <3>1. Live(n) /\ n \notin Below(e.id) /\ rows[n].listId # 0
      BY <1>2, <2>1, <2>2
    <3>2. Live(rows[n].listId) /\ rows[n].listId \in Ids
      BY <1>1, <3>1 DEF Sound, Live
    <3>3. rows[n].listId \notin Below(e.id)
      BY <1>1, <3>1, AboveList DEF Below
    <3> QED
      BY <1>2, <2>1, <3>2, <3>3
  <2>3. ASSUME NEW S \in SUBSET Ids, S # {}, \A n \in S : Live(n)'
        PROVE  \E n \in S : rows'[n].listId \notin S
    BY <1>1, <1>2, <2>1, <2>3 DEF Sound
  <2> QED
    BY <1>2, <2>2, <2>3 DEF Sound
<1>6. PICK h : Home(h)
  BY DEF IInv
<1> QED
  BY <1>2, <1>3, <1>4, <1>5, <1>6, CommitKeeps DEF Home

LEMMA CreateKeeps ==
  ASSUME IInv, NEW q \in Editors, Commit(q), NEW e, e = edit[q], e.op = "create",
         rows' = AfterCreate(e)
  PROVE  IInv'
<1>0. PICK k : k = Len(rows)
  OBVIOUS
<1> DEFINE D == DOMAIN e.dto
<1>1. /\ TypeRows /\ OnePlace /\ Known(e)
      /\ \A h : Home(h) => Fits(h, e)
      /\ ~overlapped => Sound /\ Fresh(e)
  BY CommitReads
<1>2. /\ TypeRows' /\ Ids \subseteq Ids'
      /\ \A n \in Ids : rows'[n] = rows[n]
      /\ \A i \in D : k + i \in Ids' \ Ids /\ NewRow(e, i, rows'[k + i])
      /\ \A n \in Ids' \ Ids : \E i \in D : n = k + i
  BY <1>0, <1>1, CreateRows
<1>3. /\ e.t \in Transactions /\ e.dto \in Dtos /\ e.under \in Ids \cup {0}
      /\ \A i \in D : ValidApprover(e.dto, i, e.under)
  BY <1>1 DEF Known, CreateKnown
<1>4. /\ k \in Nat /\ Ids = 1 .. k
      /\ \A i \in D : /\ i \in Nat /\ e.dto[i].at \in Nat /\ e.dto[i].at < i
                      /\ Cardinality(ChildrenIn(e.dto, i)) \in Nat
                      /\ e.dto[i].at # 0 => e.dto[i].at \in D
  BY <1>0, <1>1, <1>3, RowsAre, DtoIs
<1>5. OnePlace'
  <2>1. ASSUME NEW i \in D
        PROVE  /\ rows'[k + i].listId # 0 <=> rows'[k + i].transactionId = NoTransaction
               /\ rows'[k + i].threshold # 0 => rows'[k + i].userId = NoUser
    <3>1. NewRow(e, i, rows'[k + i]) /\ ValidApprover(e.dto, i, e.under)
      BY <1>2, <1>3
    <3>2. rows'[k + i].listId # 0 <=> rows'[k + i].transactionId = NoTransaction
      <4>1. k + e.dto[i].at = 0 => e.dto[i].at = 0
        BY <1>4
      <4> QED
        BY <1>0, <1>3, <3>1, <4>1, TreeAssumption DEF NewRow
    <3>3. rows'[k + i].threshold # 0 => rows'[k + i].userId = NoUser
      BY <1>4, <3>1 DEF NewRow, ValidApprover
    <3> QED
      BY <3>2, <3>3
  <2> QED
    BY <1>1, <1>2, <2>1 DEF OnePlace
<1>6. PICK h : Home(h)
  BY DEF IInv
<1>7. PICK g \in [Ids' -> Transactions] :
        /\ \A n \in Ids : g[n] = h[n]
        /\ \A n \in Ids' \ Ids : g[n] = e.t
  <2> DEFINE f == [n \in Ids' |-> IF n \in Ids THEN h[n] ELSE e.t]
  <2>1. f \in [Ids' -> Transactions]
    BY <1>2, <1>3, <1>6 DEF Home
  <2> QED
    BY <1>2, <2>1
<1>8. \A n \in Ids' : RowAtHome(g, n)'
  <2>1. Fits(h, e)
    BY <1>1, <1>6
  <2>2. ASSUME NEW n \in Ids PROVE RowAtHome(g, n)'
    <3>1. RowAtHome(h, n) /\ rows[n].listId \in Ids \cup {0}
      BY <1>1, <1>6 DEF Home, TypeRows
    <3> QED
      BY <1>2, <1>7, <3>1 DEF RowAtHome
  <2>3. ASSUME NEW i \in D PROVE RowAtHome(g, k + i)'
    <3>1. NewRow(e, i, rows'[k + i]) /\ g[k + i] = e.t
      BY <1>2, <1>7
    <3>2. rows'[k + i].listId # 0 => g[rows'[k + i].listId] = e.t
      <4>1. CASE e.dto[i].at = 0
        <5>1. rows'[k + i].listId = e.under
          BY <3>1, <4>1 DEF NewRow
        <5>2. e.under # 0 => g[e.under] = e.t
          BY <1>3, <1>7, <2>1 DEF Fits
        <5> QED
          BY <5>1, <5>2
      <4>2. CASE e.dto[i].at # 0
        <5>1. rows'[k + i].listId = k + e.dto[i].at
          BY <1>0, <3>1, <4>2 DEF NewRow
        <5>2. k + e.dto[i].at \in Ids' \ Ids
          BY <1>2, <1>4, <4>2
        <5> QED
          BY <1>7, <5>1, <5>2
      <4> QED
        BY <4>1, <4>2
    <3>3. rows'[k + i].transactionId # NoTransaction => rows'[k + i].transactionId = e.t
      BY <3>1 DEF NewRow
    <3>4. rows'[k + i].signature # NoSignature => rows'[k + i].signature.on = e.t
      BY <2>1, <3>1 DEF NewRow, Fits
    <3> QED
      BY <3>1, <3>2, <3>3, <3>4 DEF RowAtHome
  <2> QED
    BY <1>2, <2>2, <2>3
<1>9. ~overlapped => Sound'
  <2> SUFFICES ASSUME ~overlapped PROVE Sound'
    OBVIOUS
  <2>1. Sound /\ (e.under # 0 => Live(e.under))
    BY <1>1 DEF Fresh
  <2>2. \A n \in Ids : Live(n)' <=> Live(n)
    BY <1>2 DEF Live
  <2>3. \A i \in D : Live(k + i)'
    BY <1>2 DEF Live, NewRow
  <2>4. ASSUME NEW n \in Ids', Live(n)', rows'[n].listId # 0
        PROVE  Live(rows[n].listId)'
    <3>1. CASE n \in Ids
      <4>1. Live(rows[n].listId) /\ rows[n].listId \in Ids
        BY <1>2, <2>1, <2>2, <2>4, <3>1 DEF Sound, Live
      <4> QED
        BY <1>2, <2>2, <3>1, <4>1
    <3>2. CASE n \notin Ids
      <4>1. PICK i \in D : n = k + i
        BY <1>2, <3>2
      <4>2. NewRow(e, i, rows'[n])
        BY <1>2, <4>1
      <4>3. CASE e.dto[i].at = 0
        <5>1. rows'[n].listId = e.under
          BY <4>2, <4>3 DEF NewRow
        <5> QED
          BY <1>3, <2>1, <2>2, <2>4, <5>1
      <4>4. CASE e.dto[i].at # 0
        <5>1. rows'[n].listId = k + e.dto[i].at
          BY <1>0, <4>2, <4>4 DEF NewRow
        <5> QED
          BY <1>4, <2>3, <4>4, <5>1
      <4> QED
        BY <4>3, <4>4
    <3> QED
      BY <3>1, <3>2
  <2>5. ASSUME NEW S \in SUBSET (Ids'), S # {}, \A n \in S : Live(n)'
        PROVE  \E n \in S : rows'[n].listId \notin S
    <3>1. CASE S \cap Ids # {}
      <4> DEFINE T == S \cap Ids
      <4>1. T \in SUBSET Ids /\ T # {} /\ \A n \in T : Live(n)
        BY <2>2, <2>5, <3>1
      <4>2. PICK n \in T : rows[n].listId \notin T
        <5> HIDE DEF T
        <5> QED
          BY <2>1, <4>1 DEF Sound
      <4>3. rows'[n].listId = rows[n].listId /\ rows[n].listId \in Ids \cup {0}
        BY <1>1, <1>2 DEF TypeRows
      <4>4. 0 \notin S
        <5>1. 0 \notin Ids'
          BY <1>2, RowsIn DEF TypeRows, Ids
        <5> QED
          BY <5>1
      <4> QED
        BY <4>2, <4>3, <4>4
    <3>2. CASE S \cap Ids = {}
      <4>1. S \in SUBSET Nat /\ 0 \notin S
        <5>1. Ids' \subseteq Nat /\ 0 \notin Ids'
          BY <1>2, RowsIn DEF TypeRows, Ids
        <5> QED
          BY <5>1
      <4>2. PICK m \in S : \A n \in S : m <= n
        BY <2>5, <4>1, LeastOf
      <4>3. PICK i \in D : m = k + i
        BY <1>2, <3>2
      <4>4. NewRow(e, i, rows'[m])
        BY <1>2, <4>3
      <4>5. CASE e.dto[i].at = 0
        <5>1. rows'[m].listId = e.under
          BY <4>4, <4>5 DEF NewRow
        <5> QED
          BY <1>3, <3>2, <4>1, <5>1
      <4>6. CASE e.dto[i].at # 0
        <5>1. rows'[m].listId = k + e.dto[i].at
          BY <1>0, <4>4, <4>6 DEF NewRow
        <5>2. ~(m <= k + e.dto[i].at)
          BY <1>4, <4>3
        <5> QED
          BY <4>2, <5>1, <5>2
      <4> QED
        BY <4>5, <4>6
    <3> QED
      BY <3>1, <3>2
  <2> QED
    BY <2>4, <2>5 DEF Sound
<1>10. \A n \in Ids : rows'[n].threshold = 0 <=> rows[n].threshold = 0
  BY <1>2
<1> QED
  BY <1>2, <1>5, <1>6, <1>7, <1>8, <1>9, <1>10, CommitKeeps

-----------------------------------------------------------------------------
(* The theorems *)

LEMMA InitHolds == Init => IInv
<1> SUFFICES ASSUME Init PROVE IInv
  OBVIOUS
<1>1. Ids = {} /\ rows = <<>>
  BY DEF Init, Ids
<1>2. Requests \subseteq {Idle} /\ edit = [q \in Editors |-> Idle]
  BY DEF Init, Requests
<1>3. Types
  <2>1. TypeRows
    BY <1>1 DEF TypeRows
  <2>2. approval \in [Users -> Approvals]
    BY DEF Init, Approvals, NoApproval
  <2>3. edits \in 0 .. MaxEdits /\ overlapped \in BOOLEAN
    <3>1. MaxEdits \in Nat
      BY TreeAssumption
    <3>2. overlapped \in BOOLEAN
      BY Zenon DEF Init
    <3>3. edits \in 0 .. MaxEdits
      BY <3>1 DEF Init
    <3> QED
      BY <3>2, <3>3
  <2> QED
    BY <1>2, <2>1, <2>2, <2>3, IdleIsFine DEF Types
<1>4. OnePlace
  BY <1>1 DEF OnePlace
<1>5. Home(<<>>)
  <2>1. <<>> \in [Ids -> Transactions]
    BY <1>1
  <2>2. \A u \in Users : approval[u].ids = {}
    BY DEF Init, NoApproval
  <2> QED
    BY <1>1, <1>2, <2>1, <2>2, IdleIsFine DEF Home
<1>6. Alone
  <2>1. Sound
    BY <1>1 DEF Sound
  <2>2. Fresh(Idle)
    BY DEF Fresh, Idle
  <2> QED
    BY <1>2, <2>1, <2>2 DEF Alone
<1> QED
  BY <1>3, <1>4, <1>5, <1>6 DEF IInv

LEMMA NextKeeps ==
  ASSUME IInv, [Next]_vars
  PROVE  IInv'
<1>1. Types /\ OnePlace
  BY DEF IInv
<1>2. ASSUME NEW q \in Editors,
             \/ BeginCreate(q) \/ BeginDetach(q) \/ BeginMove(q)
             \/ BeginThreshold(q) \/ BeginUser(q) \/ BeginRemove(q)
      PROVE  IInv'
  <2>1. PICK e : Reads(q, e)
    BY <1>1, <1>2, CreateReads, DetachReads, MoveReads, ThresholdReads, UserReads, RemoveReads
  <2> QED
    BY <2>1, BeginKeeps
<1>3. ASSUME NEW q \in Editors, Commit(q) PROVE IInv'
  <2>1. PICK e : e = edit[q]
    OBVIOUS
  <2>2. \/ e.op = "create" /\ rows' = AfterCreate(e)
        \/ e.op = "detach" /\ rows' = AfterDetach(e)
        \/ e.op = "move" /\ rows' = AfterMove(e)
        \/ e.op = "threshold" /\ rows' = AfterThreshold(e)
        \/ e.op = "user" /\ rows' = AfterUser(e)
        \/ e.op = "remove" /\ rows' = AfterRemove(e)
    BY <1>3, <2>1 DEF Commit
  <2> QED
    BY <1>3, <2>1, <2>2, CreateKeeps, DetachKeeps, MoveKeeps, FieldKeeps, RemoveKeeps
<1>4. ASSUME NEW u \in Users, BeginApprove(u) \/ CommitApprove(u) PROVE IInv'
  BY <1>4, BeginApproveKeeps, CommitApproveKeeps
<1>5. CASE UNCHANGED vars
  <2>1. /\ rows' = rows /\ edit' = edit /\ approval' = approval
        /\ edits' = edits /\ overlapped' = overlapped
    BY <1>5 DEF vars
  <2>2. SameTree /\ Ids' = Ids /\ Requests' = Requests /\ TypeRows /\ TypeRows'
    BY <1>1, <2>1 DEF SameTree, Ids, Requests, Types, TypeRows
  <2>3. ASSUME NEW x \in Requests PROVE Known(x) /\ Known(x)'
    <3>1. Known(x)
      BY <1>1 DEF Types
    <3> QED
      BY <2>1, <2>2, <3>1, KnownStays
  <2>4. Types'
    BY <1>1, <2>1, <2>2, <2>3 DEF Types, Approvals
  <2>5. OnePlace'
    BY <1>1, <2>1, <2>2 DEF OnePlace
  <2>6. \A h : Home(h) => Home(h)'
    BY <2>1, <2>2 DEF Home, RowAtHome
  <2>7. Alone'
    <3>1. ASSUME NEW x \in Requests, Fresh(x) PROVE Fresh(x)'
      BY <2>2, <2>3, <3>1, FreshStays
    <3> QED
      BY <2>1, <2>2, <3>1, SoundStays DEF IInv, Alone
  <2> QED
    BY <2>4, <2>5, <2>6, <2>7 DEF IInv
<1> QED
  BY <1>2, <1>3, <1>4, <1>5 DEF Next

LEMMA Invariant == Spec => []IInv
BY InitHolds, NextKeeps, PTL DEF Spec

(* Rows stay rows, name rows that are there, and approvals read such rows,  *)
(* whatever is inserted, moved and removed meanwhile.                       *)
THEOREM TypeCorrect == Spec => []TypeOK
<1>1. IInv => TypeOK
  BY DEF IInv, Types, TypeRows, TypeOK, Approvals
<1> QED
  BY <1>1, Invariant, PTL

(* Whatever requests overlap, every row is in one place, a list is not a    *)
(* user; and as long as no two requests of creators overlapped, every live  *)
(* row is under live lists only, up to a root that names its transaction.   *)
THEOREM TreeHolds == Spec => []TreeIsSound
<1>1. IInv => TreeIsSound
  BY SoundAbove DEF IInv, Types, Alone, TreeIsSound
<1> QED
  BY <1>1, Invariant, PTL

(* However rows are copied, moved and signed late, and whatever requests    *)
(* overlap, a signature was given for the transaction its row belongs to.   *)
THEOREM SignedHolds == Spec => []SignedForItsTransaction
<1>1. ASSUME IInv PROVE SignedForItsTransaction
  <2>1. PICK h : Home(h)
    BY <1>1 DEF IInv
  <2>2. TypeRows /\ OnePlace
    BY <1>1 DEF IInv, Types
  <2>3. ASSUME NEW n \in Ids, rows[n].signature # NoSignature
        PROVE  TransactionOf(n) \subseteq {rows[n].signature.on}
    <3>1. rows[n].signature.on = h[n]
      BY <2>1, <2>3 DEF Home, RowAtHome
    <3> QED
      BY <2>1, <2>2, <3>1, TransactionIsHome
  <2> QED
    BY <2>3 DEF SignedForItsTransaction
<1> QED
  BY <1>1, Invariant, PTL

-----------------------------------------------------------------------------
(* Lists that ask for too many *)

Lost(p) == \E c \in ChildrenOf(p) : rows'[c].deleted \/ rows'[c].listId \notin {0, p}

LEMMA ChildrenFinite ==
  ASSUME NEW r \in Seq(Rows), \A n \in DOMAIN r : r[n].listId \in DOMAIN r \cup {0},
         NEW S \in SUBSET DOMAIN r
  PROVE  IsFiniteSet(S) /\ Cardinality(S) \in Nat
BY RowsIn, FS_Subset, FS_CardinalityType

(* A list that keeps its rows and its threshold is stranded only if it was. *)
LEMMA KeptIsNotStranded ==
  ASSUME TypeRows, TypeRows', NEW p \in Ids, Live(p)' => Live(p),
         rows'[p].threshold = rows[p].threshold, ChildrenOf(p) \subseteq ChildrenOf(p)',
         Stranded(p)'
  PROVE  Stranded(p)
<1>1. ChildrenOf(p)' \in SUBSET DOMAIN rows'
  BY DEF ChildrenOf, Ids
<1>2. IsFiniteSet(ChildrenOf(p)') /\ Cardinality(ChildrenOf(p)') \in Nat
  BY <1>1, ChildrenFinite DEF TypeRows, Ids
<1>3. Cardinality(ChildrenOf(p)) <= Cardinality(ChildrenOf(p)')
      /\ Cardinality(ChildrenOf(p)) \in Nat
  BY <1>2, FS_Subset, FS_CardinalityType
<1>4. rows[p].threshold \in Int
  BY RowsAre DEF Rows
<1> QED
  BY <1>2, <1>3, <1>4 DEF Stranded

LEMMA DetachStrands ==
  ASSUME IInv, TypeRows', NEW q \in Editors, NEW e, e = edit[q], e.op = "detach",
         rows' = AfterDetach(e), ~overlapped, NEW p \in Ids, Stranded(p)'
  PROVE  Stranded(p) \/ Lost(p)
<1>1. TypeRows /\ Known(e) /\ Fresh(e)
  BY CommitReads
<1>2. /\ Ids' = Ids /\ e.id \in Ids
      /\ \A n \in Ids :
           /\ rows'[n].listId = IF n = e.id THEN 0 ELSE rows[n].listId
           /\ rows'[n].threshold = IF n = e.parent /\ e.left # 0 /\ e.left < e.threshold
                                   THEN e.left ELSE rows[n].threshold
           /\ rows'[n].deleted = (rows[n].deleted \/ (n = e.parent /\ e.left = 0))
  BY <1>1, DetachRows
<1>3. Live(p)' /\ Live(p) /\ ~(p = e.parent /\ e.left = 0)
  BY <1>2 DEF Live, Stranded
<1>4. /\ Live(e.id) /\ rows[e.id].listId # 0
      /\ e.parent = IF Live(rows[e.id].listId) THEN rows[e.id].listId ELSE 0
      /\ e.left = Cardinality(ChildrenOf(rows[e.id].listId)) - 1
      /\ e.threshold = rows[rows[e.id].listId].threshold
  BY <1>1 DEF Fresh
<1>5. CASE p = e.parent
  <2> DEFINE C == ChildrenOf(p)
  <2>1. rows[e.id].listId = p /\ e.left # 0 /\ e.left = Cardinality(C) - 1
        /\ e.threshold = rows[p].threshold
    <3>1. 0 \notin Ids
      BY <1>1, RowsAre
    <3> QED
      BY <1>3, <1>4, <1>5, <3>1
  <2>2. e.id \in C /\ C \in SUBSET DOMAIN rows
    BY <1>2, <1>4, <2>1 DEF ChildrenOf, Ids
  <2>3. IsFiniteSet(C) /\ Cardinality(C) \in Nat
    BY <1>1, <2>2, ChildrenFinite DEF TypeRows, Ids
  <2>4. \A n \in Ids : Live(n)' <=> Live(n)
    BY <1>2, <2>1 DEF Live
  <2>5. ChildrenOf(p)' = C \ {e.id}
    <3>1. p # 0
      BY <1>1, RowsAre
    <3>2. \A n \in Ids : Live(n)' /\ rows'[n].listId = p
                           <=> Live(n) /\ rows[n].listId = p /\ n # e.id
      BY <1>2, <2>4, <3>1
    <3> QED
      BY <1>2, <3>2 DEF ChildrenOf
  <2>6. Cardinality(ChildrenOf(p)') = e.left
    <3>1. Cardinality(C \ {e.id}) = Cardinality(C) - 1
      <4> HIDE DEF C
      <4> QED
        BY <2>2, <2>3, FS_RemoveElement
    <3> QED
      BY <2>1, <2>5, <3>1
  <2>7. rows[p].threshold \in Int /\ e.left \in Nat
    BY <1>1, <2>1, <2>3, RowsAre DEF Rows, Known, DetachKnown
  <2>8. rows'[p].threshold <= e.left
    BY <1>2, <1>5, <2>1, <2>7
  <2>9. rows'[p].threshold > e.left
    BY <2>6 DEF Stranded
  <2>10. rows'[p].threshold \in Int
    BY <1>2, <2>7
  <2> QED
    BY <2>7, <2>8, <2>9, <2>10
<1>6. CASE p # e.parent
  <2> SUFFICES ASSUME ~Lost(p) PROVE Stranded(p)
    OBVIOUS
  <2>1. rows[e.id].listId # p
    BY <1>3, <1>4, <1>6
  <2>2. ASSUME NEW c \in ChildrenOf(p) PROVE c \in ChildrenOf(p)'
    BY <1>2, <2>1 DEF Lost, ChildrenOf, Live
  <2>3. rows'[p].threshold = rows[p].threshold
    BY <1>2, <1>6
  <2> QED
    BY <1>1, <1>3, <2>2, <2>3, KeptIsNotStranded
<1> QED
  BY <1>5, <1>6

LEMMA MoveStrands ==
  ASSUME IInv, TypeRows', NEW q \in Editors, NEW e, e = edit[q], e.op = "move",
         rows' = AfterMove(e), NEW p \in Ids, Stranded(p)'
  PROVE  Stranded(p) \/ Lost(p)
<1>1. TypeRows /\ Known(e)
  BY CommitReads
<1>2. /\ Ids' = Ids /\ e.id \in Ids /\ e.to \in Ids
      /\ \A n \in Ids :
           /\ rows'[n].listId = IF n = e.id THEN e.to ELSE rows[n].listId
           /\ rows'[n].threshold = rows[n].threshold
           /\ rows'[n].deleted = rows[n].deleted
  BY <1>1, MoveRows
<1> SUFFICES ASSUME ~Lost(p) PROVE Stranded(p)
  OBVIOUS
<1>3. e.to # 0
  BY <1>1, <1>2, RowsAre
<1>4. ASSUME NEW c \in ChildrenOf(p) PROVE c \in ChildrenOf(p)'
  BY <1>2, <1>3 DEF Lost, ChildrenOf, Live
<1>5. Live(p)' => Live(p)
  BY <1>2 DEF Live
<1> QED
  BY <1>1, <1>2, <1>4, <1>5, KeptIsNotStranded

LEMMA FieldStrands ==
  ASSUME IInv, TypeRows', NEW q \in Editors, NEW e, e = edit[q],
         \/ e.op = "threshold" /\ rows' = AfterThreshold(e)
         \/ e.op = "user" /\ rows' = AfterUser(e),
         ~overlapped, NEW p \in Ids, Stranded(p)'
  PROVE  Stranded(p)
<1>1. TypeRows /\ Known(e) /\ Fresh(e)
  BY CommitReads
<1>2. /\ Ids' = Ids /\ e.id \in Ids
      /\ \A n \in Ids :
           /\ rows'[n].listId = rows[n].listId
           /\ rows'[n].threshold = IF n = e.id /\ e.op = "threshold" THEN e.threshold
                                   ELSE rows[n].threshold
           /\ rows'[n].deleted = rows[n].deleted
  BY <1>1, FieldRows
<1>3. \A n \in Ids : Live(n)' <=> Live(n)
  BY <1>2 DEF Live
<1>4. ChildrenOf(p)' = ChildrenOf(p)
  BY <1>2, <1>3 DEF ChildrenOf
<1>5. CASE p = e.id /\ e.op = "threshold"
  <2>1. rows'[p].threshold = e.threshold /\ e.threshold <= Cardinality(ChildrenOf(p))
    BY <1>1, <1>2, <1>5 DEF Fresh
  <2>2. e.threshold > Cardinality(ChildrenOf(p))
    BY <1>4, <2>1 DEF Stranded
  <2>3. e.threshold \in Nat /\ Cardinality(ChildrenOf(p)) \in Nat
    <3>1. ChildrenOf(p) \in SUBSET DOMAIN rows
      BY DEF ChildrenOf, Ids
    <3> QED
      BY <1>1, <1>5, <3>1, ChildrenFinite DEF Known, ThresholdKnown, TypeRows, Ids
  <2> QED
    BY <2>1, <2>2, <2>3
<1>6. CASE ~(p = e.id /\ e.op = "threshold")
  BY <1>1, <1>2, <1>3, <1>4, <1>6, KeptIsNotStranded
<1> QED
  BY <1>5, <1>6

LEMMA RemoveStrands ==
  ASSUME IInv, TypeRows', NEW q \in Editors, NEW e, e = edit[q], e.op = "remove",
         rows' = AfterRemove(e), NEW p \in Ids, Stranded(p)'
  PROVE  Stranded(p) \/ Lost(p)
<1>1. TypeRows /\ Known(e)
  BY CommitReads
<1>2. /\ Ids' = Ids
      /\ \A n \in Ids :
           /\ rows'[n].listId = rows[n].listId
           /\ rows'[n].threshold = rows[n].threshold
           /\ rows'[n].deleted = (rows[n].deleted \/ n \in Below(e.id))
  BY <1>1, RemoveRows
<1> SUFFICES ASSUME ~Lost(p) PROVE Stranded(p)
  OBVIOUS
<1>3. ASSUME NEW c \in ChildrenOf(p) PROVE c \in ChildrenOf(p)'
  BY <1>2 DEF Lost, ChildrenOf, Live
<1>4. Live(p)' => Live(p)
  BY <1>2 DEF Live
<1> QED
  BY <1>1, <1>2, <1>3, <1>4, KeptIsNotStranded

LEMMA CreateStrands ==
  ASSUME IInv, TypeRows', NEW q \in Editors, NEW e, e = edit[q], e.op = "create",
         rows' = AfterCreate(e), NEW p \in Ids', Stranded(p)'
  PROVE  p \in Ids /\ Stranded(p)
<1>0. PICK k : k = Len(rows)
  OBVIOUS
<1> DEFINE D == DOMAIN e.dto
<1>1. TypeRows /\ Known(e)
  BY CommitReads
<1>2. /\ Ids \subseteq Ids'
      /\ \A n \in Ids : rows'[n] = rows[n]
      /\ \A i \in D : k + i \in Ids' \ Ids /\ NewRow(e, i, rows'[k + i])
      /\ \A n \in Ids' \ Ids : \E i \in D : n = k + i
  BY <1>0, <1>1, CreateRows
<1>3. CASE p \in Ids
  <2>1. \A n \in Ids : Live(n)' <=> Live(n)
    BY <1>2 DEF Live
  <2>2. ChildrenOf(p) \subseteq ChildrenOf(p)'
    BY <1>2, <2>1 DEF ChildrenOf
  <2>3. rows'[p].threshold = rows[p].threshold
    BY <1>2, <1>3
  <2> QED
    BY <1>1, <1>3, <2>1, <2>2, <2>3, KeptIsNotStranded
<1>4. CASE p \notin Ids
  <2>1. PICK i \in D : p = k + i
    BY <1>2, <1>4
  <2>2. /\ k \in Nat /\ e.dto \in Dtos /\ ValidApprover(e.dto, i, e.under)
        /\ i \in Nat \ {0} /\ \A j \in D : j \in Nat
    BY <1>0, <1>1, RowsAre, DtoIs DEF Known, CreateKnown
  <2> DEFINE C == ChildrenIn(e.dto, i)
             f == [j \in C |-> k + j]
  <2>3. PICK K : K = ChildrenOf(p)'
    OBVIOUS
  <2>4. IsFiniteSet(K) /\ Cardinality(K) \in Nat
    <3>1. K \in SUBSET DOMAIN rows'
      BY <2>3 DEF ChildrenOf, Ids
    <3> QED
      BY <3>1, ChildrenFinite DEF TypeRows, Ids
  <2>5. \A j \in C : j \in D /\ k + j \in K
    <3>1. ASSUME NEW j \in C PROVE j \in D /\ k + j \in K
      <4>1. j \in D /\ e.dto[j].at = i
        BY DEF ChildrenIn
      <4>2. PICK n : n = k + j
        OBVIOUS
      <4>3. n \in Ids' /\ NewRow(e, j, rows'[n])
        BY <1>2, <4>1, <4>2
      <4>4. rows'[n].listId = p /\ ~rows'[n].deleted
        BY <1>0, <2>1, <2>2, <4>1, <4>3 DEF NewRow
      <4>5. n \in ChildrenOf(p)'
        BY <4>3, <4>4 DEF ChildrenOf, Live
      <4> QED
        BY <2>3, <4>1, <4>2, <4>5
    <3> QED
      BY <3>1
  <2>6. f \in Injection(C, K)
    <3>1. f \in [C -> K]
      BY <2>5
    <3>2. \A a, b \in C : f[a] = f[b] => a = b
      BY <2>2, <2>5
    <3> QED
      BY <3>1, <3>2 DEF Injection, IsInjective
  <2>7. Cardinality(C) <= Cardinality(K) /\ Cardinality(C) \in Nat
    <3> HIDE DEF f
    <3> QED
      BY <2>2, <2>4, <2>6, FS_Injection, DtoIs
  <2>8. rows'[p].threshold = e.dto[i].threshold /\ e.dto[i].threshold \in Int
    BY <1>2, <2>1, <2>2, DtoIs DEF NewRow
  <2>9. e.dto[i].threshold <= Cardinality(C)
    BY <2>2, <2>7, <2>8 DEF ValidApprover
  <2>10. rows'[p].threshold > Cardinality(K)
    BY <2>3 DEF Stranded
  <2> QED
    BY <2>4, <2>7, <2>8, <2>9, <2>10
<1> QED
  BY <1>3, <1>4

(* As long as no two requests of creators overlapped, only moving a row to  *)
(* another list or removing it leaves a list whose threshold its rows       *)
(* cannot reach.                                                            *)
THEOREM OnlyMovesHolds == Spec => OnlyMovesStrand
<1> DEFINE Ok(p) == \/ p \in Ids /\ Stranded(p)
                    \/ overlapped'
                    \/ Lost(p)
<1>1. ASSUME IInv, IInv', [Next]_vars, NEW p \in Ids', Stranded(p)' PROVE Ok(p)
  <2>1. TypeRows /\ TypeRows'
    BY <1>1 DEF IInv, Types
  <2>2. CASE SameTree
    <3>1. p \in Ids
      BY <1>1, <2>2 DEF SameTree
    <3>2. Live(p)' => Live(p)
      BY <2>2, <3>1, SameLive
    <3>3. ChildrenOf(p)' = ChildrenOf(p)
      BY <2>2, <3>1, SameLive
    <3>4. rows'[p].threshold = rows[p].threshold
      BY <2>2, <3>1 DEF SameTree
    <3> QED
      BY <1>1, <2>1, <3>1, <3>2, <3>3, <3>4, KeptIsNotStranded
  <2>3. ASSUME NEW q \in Editors, Commit(q) PROVE Ok(p)
    <3> SUFFICES ASSUME ~overlapped PROVE Ok(p)
      BY <2>3 DEF Commit
    <3>1. PICK e : e = edit[q]
      OBVIOUS
    <3>2. CASE e.op = "create" /\ rows' = AfterCreate(e)
      BY <1>1, <2>1, <3>1, <3>2, CreateStrands
    <3>3. CASE e.op # "create"
      <4>1. \/ e.op = "detach" /\ rows' = AfterDetach(e)
            \/ e.op = "move" /\ rows' = AfterMove(e)
            \/ e.op = "threshold" /\ rows' = AfterThreshold(e)
            \/ e.op = "user" /\ rows' = AfterUser(e)
            \/ e.op = "remove" /\ rows' = AfterRemove(e)
        BY <2>3, <3>1, <3>3 DEF Commit
      <4>2. p \in Ids /\ Known(e)
        <5>1. Known(e)
          BY <1>1, <3>1, CommitReads
        <5>2. Ids' = Ids
          BY <2>1, <4>1, <5>1, DetachRows, MoveRows, FieldRows, RemoveRows
        <5> QED
          BY <1>1, <5>1, <5>2
      <4> QED
        BY <1>1, <2>1, <3>1, <4>1, <4>2, DetachStrands, MoveStrands, FieldStrands,
           RemoveStrands
    <3>4. e.op = "create" => rows' = AfterCreate(e)
      BY <2>3, <3>1 DEF Commit
    <3> QED
      BY <3>2, <3>3, <3>4
  <2>4. ASSUME NEW q \in Editors,
               \/ BeginCreate(q) \/ BeginDetach(q) \/ BeginMove(q)
               \/ BeginThreshold(q) \/ BeginUser(q) \/ BeginRemove(q)
        PROVE  SameTree
    <3>1. rows' = rows
      BY <2>4 DEF BeginCreate, BeginDetach, BeginMove, BeginThreshold, BeginUser,
                  BeginRemove, Begin
    <3> QED
      BY <3>1 DEF SameTree, Ids
  <2>5. ASSUME NEW u \in Users, BeginApprove(u) \/ CommitApprove(u) PROVE SameTree
    <3>1. BeginApprove(u) => rows' = rows
      BY DEF BeginApprove
    <3>2. rows' = rows => SameTree
      BY DEF SameTree, Ids
    <3> QED
      BY <1>1, <2>5, <3>1, <3>2, CommitApproveRows
  <2>6. UNCHANGED vars => SameTree
    BY DEF vars, SameTree, Ids
  <2> QED
    BY <1>1, <2>2, <2>3, <2>4, <2>5, <2>6 DEF Next
<1>2. IInv /\ IInv' /\ [Next]_vars =>
        [\A p \in DOMAIN rows' :
           Stranded(p)' =>
             \/ p \in Ids /\ Stranded(p)
             \/ overlapped'
             \/ \E c \in ChildrenOf(p) :
                  rows'[c].deleted \/ rows'[c].listId \notin {0, p}]_vars
  BY <1>1 DEF Lost, Ids
<1> QED
  BY <1>2, Invariant, PTL DEF Spec, OnlyMovesStrand

=============================================================================
