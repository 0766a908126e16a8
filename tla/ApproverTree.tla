---------------------------- MODULE ApproverTree ----------------------------
(***************************************************************************)
(* The approvers of transactions (apps/api/src/transactions/approvers):    *)
(* rows that form trees.  A root belongs to a transaction, every other row *)
(* names the row above it (listId); a row is a user or a list with a       *)
(* threshold.  The creator creates, moves, detaches and removes rows and   *)
(* changes thresholds and users; the users approve.  Every request reads   *)
(* what it checks and writes later, over whatever was committed meanwhile: *)
(* the database transactions are READ COMMITTED and lock no row they read. *)
(*                                                                         *)
(* Left out: who the creator is, signature verification, the status of the *)
(* transaction (a request may be refused at any time: here it is not made) *)
(* and the events, which StatusNotifications starts from.                  *)
(***************************************************************************)
EXTENDS Integers, Sequences, FiniteSets

CONSTANTS
  Transactions,
  Users,
  Dtos,           \* the forests a create request may ask for
  Editors,        \* requests of creators in flight at once
  MaxRows,        \* bound: rows ever inserted
  MaxEdits,       \* bound: requests of creators
  NoTransaction, NoUser, NoSignature

(* A forest is a sequence in which a list comes before its children: "at"  *)
(* is the position of the list above, 0 for the row the request names.     *)
Nodes == [at : Nat, threshold : Int, userId : Users \cup {NoUser}]

ASSUME TreeAssumption ==
  /\ NoTransaction \notin Transactions
  /\ NoUser \notin Users
  /\ NoSignature \notin [by : Users, on : Transactions]
  /\ MaxRows \in Nat
  /\ MaxEdits \in Nat
  /\ Dtos \subseteq Seq(Nodes)
  /\ \A d \in Dtos : \A i \in DOMAIN d : d[i].at < i

VARIABLES
  rows,        \* transaction_approver; a row's id is its position
  edit,        \* what each request of a creator has read
  approval,    \* the rows that each user's approval has read
  edits,       \* requests of creators so far
  overlapped   \* two of them were in flight at once (history)

vars == <<rows, edit, approval, edits, overlapped>>

-----------------------------------------------------------------------------
(* The rows: threshold 0 and listId 0 stand for null. *)

Signatures == [by : Users, on : Transactions] \cup {NoSignature}

Rows == [listId : Nat, transactionId : Transactions \cup {NoTransaction},
         threshold : Int, userId : Users \cup {NoUser},
         signature : Signatures, deleted : BOOLEAN]

Ids == DOMAIN rows

Live(id) == id \in Ids /\ ~rows[id].deleted

(* The row and everything above it, deleted rows included. *)
Above(id) ==
  LET up[S \in SUBSET Ids] ==
        LET lists == {rows[n].listId : n \in S} \ {0}
        IN IF lists \subseteq S THEN S ELSE up[S \cup lists]
  IN up[{id}]

(* The row and everything below it, deleted rows included. *)
Below(id) == {n \in Ids : id \in Above(n)}

(* getRootNodeFromNode: at most one row; none on or under a cycle, where   *)
(* the recursive query has no end.                                         *)
RootOf(id) == {n \in Above(id) : rows[n].listId = 0}

TransactionOf(id) == {rows[n].transactionId : n \in RootOf(id)}

OnCycle(id) == rows[id].listId # 0 /\ id \in Above(rows[id].listId)

(* getApproversByTransactionId *)
ApproversOf(t) == {n \in Ids : Live(n) /\ TransactionOf(n) = {t}}

(* The relation "approvers", which does not load deleted rows. *)
ChildrenOf(id) == {n \in Ids : Live(n) /\ rows[n].listId = id}

-----------------------------------------------------------------------------
(* The checks of a create request that need no row. *)

ChildrenIn(dto, i) == {j \in DOMAIN dto : dto[j].at = i}

(* A threshold may be negative, which only an update refuses; one that is  *)
(* no integer fails in the database with the whole request.                *)
ValidApprover(dto, i, under) ==
  LET kids == Cardinality(ChildrenIn(dto, i))
      node == dto[i]
  IN /\ under = 0 /\ node.at = 0
          => node.threshold # 0 \/ node.userId # NoUser \/ kids > 0
     /\ kids > 0 => node.userId = NoUser /\ node.threshold # 0 /\ node.threshold <= kids
     /\ kids = 0 => node.threshold = 0

(* isNode, among the rows and among the new ones of the same request. *)
IsNode(dto, i, t, under) ==
  LET node == dto[i]
  IN /\ node.userId # NoUser
     /\ \/ /\ node.at = 0
           /\ \E n \in Ids :
                /\ Live(n)
                /\ rows[n].userId = node.userId
                /\ IF under = 0 THEN rows[n].transactionId = t
                   ELSE rows[n].listId = under
        \/ \E j \in 1 .. i - 1 :
             dto[j].at = node.at /\ dto[j].userId = node.userId

(* Mutant: the first row of the user in any transaction. *)
CopiesAnywhere(node, t) ==
  {rows[n].signature : n \in {x \in Ids : Live(x) /\ rows[x].userId = node.userId}}
    \cup {NoSignature}

(* What a new row takes over from "the first" row of the same user in the  *)
(* transaction; the query has no order.                                    *)
Copies(node, t) ==
  LET own == {n \in ApproversOf(t) : rows[n].userId = node.userId}
  IN IF node.userId = NoUser \/ own = {} THEN {NoSignature}
     ELSE {rows[n].signature : n \in own}

-----------------------------------------------------------------------------
(* Requests of creators: first what they read ... *)

Idle == [op |-> "idle"]

Begin(q, e) ==
  /\ edit[q] = Idle
  /\ edits < MaxEdits
  /\ edit' = [edit EXCEPT ![q] = e]
  /\ edits' = edits + 1
  /\ overlapped' = (overlapped \/ \E p \in Editors : edit[p] # Idle)
  /\ UNCHANGED <<rows, approval>>

BeginCreate(q) ==
  \E t \in Transactions, dto \in Dtos, under \in Ids \cup {0} :
    /\ Len(rows) + Len(dto) <= MaxRows
    /\ under # 0 => Live(under) /\ TransactionOf(under) = {t}
    /\ \A i \in DOMAIN dto :
         ValidApprover(dto, i, under) /\ ~IsNode(dto, i, t, under)
    /\ \E copy \in [DOMAIN dto -> UNION {Copies(dto[i], t) : i \in DOMAIN dto}] :
         /\ \A i \in DOMAIN dto : copy[i] \in Copies(dto[i], t)
         /\ Begin(q, [op |-> "create", t |-> t, dto |-> dto, under |-> under,
                      copy |-> copy])

(* A row is updated only if its root is found; the transaction of the root *)
(* must be that of the request.                                            *)
Updatable(id) == Live(id) /\ RootOf(id) # {}

BeginDetach(q) ==
  \E id \in Ids :
    /\ Updatable(id)
    /\ rows[id].listId # 0
    /\ LET parent == rows[id].listId
           t == CHOOSE x \in TransactionOf(id) : TRUE
       IN Begin(q, [op |-> "detach", id |-> id, t |-> t,
                    parent |-> IF Live(parent) THEN parent ELSE 0,
                    left |-> Cardinality(ChildrenOf(parent)) - 1,
                    threshold |-> rows[parent].threshold])

(* Mutant: the list may be below the row. *)
BeginMoveBelow(q) ==
  \E id, to \in Ids :
    /\ Updatable(id) /\ Live(to) /\ rows[to].threshold # 0
    /\ TransactionOf(to) = TransactionOf(id)
    /\ Begin(q, [op |-> "move", id |-> id, to |-> to])

BeginMove(q) ==
  \E id, to \in Ids :
    /\ Updatable(id)
    /\ Live(to) /\ rows[to].threshold # 0
    /\ to \notin Below(id)
    /\ TransactionOf(to) = TransactionOf(id)
    /\ Begin(q, [op |-> "move", id |-> id, to |-> to])

BeginThreshold(q) ==
  \E id \in Ids :
    /\ Updatable(id)
    /\ rows[id].threshold # 0 /\ rows[id].userId = NoUser
    /\ \E k \in 1 .. Cardinality(ChildrenOf(id)) :
         /\ k # rows[id].threshold
         /\ Begin(q, [op |-> "threshold", id |-> id, threshold |-> k])

BeginUser(q) ==
  \E id \in Ids, u \in Users :
    /\ Updatable(id)
    /\ rows[id].threshold = 0
    /\ u # rows[id].userId
    /\ Begin(q, [op |-> "user", id |-> id, userId |-> u])

BeginRemove(q) ==
  \E id \in Ids : Live(id) /\ Begin(q, [op |-> "remove", id |-> id])

-----------------------------------------------------------------------------
(* ... then what they write. *)

Inserted(e) ==
  [i \in DOMAIN e.dto |->
     [listId |-> IF e.dto[i].at = 0 THEN e.under ELSE Len(rows) + e.dto[i].at,
      transactionId |-> IF e.dto[i].at = 0 /\ e.under = 0 THEN e.t
                        ELSE NoTransaction,
      threshold |-> e.dto[i].threshold,
      userId |-> e.dto[i].userId,
      signature |-> e.copy[i],
      deleted |-> FALSE]]

AfterCreate(e) == rows \o Inserted(e)

(* Mutant: the threshold of the list it leaves is not lowered. *)
AfterDetachOnly(e) ==
  LET up == [rows EXCEPT ![e.id].listId = 0, ![e.id].transactionId = e.t]
  IN IF e.parent # 0 /\ e.left = 0 THEN [up EXCEPT ![e.parent].deleted = TRUE]
     ELSE up

(* The row becomes a root; the list it leaves is deleted when it is empty, *)
(* and its threshold never asks for more than the rows that are left.      *)
AfterDetach(e) ==
  LET up == [rows EXCEPT ![e.id].listId = 0, ![e.id].transactionId = e.t]
  IN IF e.parent = 0 THEN up
     ELSE IF e.left = 0 THEN [up EXCEPT ![e.parent].deleted = TRUE]
     ELSE IF e.left < e.threshold THEN [up EXCEPT ![e.parent].threshold = e.left]
     ELSE up

AfterMove(e) ==
  [rows EXCEPT ![e.id].listId = e.to, ![e.id].transactionId = NoTransaction]

AfterThreshold(e) == [rows EXCEPT ![e.id].threshold = e.threshold]

(* userKeyId, signature and approved are set to undefined, which TypeORM's *)
(* update() leaves out of the statement: the columns keep their values.    *)
AfterUser(e) == [rows EXCEPT ![e.id].userId = e.userId]

AfterRemove(e) ==
  [n \in Ids |-> IF n \in Below(e.id) THEN [rows[n] EXCEPT !.deleted = TRUE]
                 ELSE rows[n]]

Commit(q) ==
  LET e == edit[q]
  IN /\ \/ e.op = "create" /\ rows' = AfterCreate(e)
        \/ e.op = "detach" /\ rows' = AfterDetach(e)
        \/ e.op = "move" /\ rows' = AfterMove(e)
        \/ e.op = "threshold" /\ rows' = AfterThreshold(e)
        \/ e.op = "user" /\ rows' = AfterUser(e)
        \/ e.op = "remove" /\ ~OnCycle(e.id) /\ rows' = AfterRemove(e)
     /\ edit' = [edit EXCEPT ![q] = Idle]
     /\ UNCHANGED <<approval, edits, overlapped>>

-----------------------------------------------------------------------------
(* approveTransaction: reads the user's rows, one of them unsigned, and    *)
(* later signs all of them by id, whatever became of them.                 *)

NoApproval == [t |-> NoTransaction, ids |-> {}]

BeginApprove(u) ==
  \E t \in Transactions :
    LET own == {n \in ApproversOf(t) : rows[n].userId = u}
    IN /\ approval[u] = NoApproval
       /\ \E n \in own : rows[n].signature = NoSignature
       /\ approval' = [approval EXCEPT ![u] = [t |-> t, ids |-> own]]
       /\ UNCHANGED <<rows, edit, edits, overlapped>>

CommitApprove(u) ==
  LET a == approval[u]
  IN /\ a # NoApproval
     /\ rows' = [n \in Ids |->
                   IF n \in a.ids
                   THEN [rows[n] EXCEPT !.signature = [by |-> u, on |-> a.t]]
                   ELSE rows[n]]
     /\ approval' = [approval EXCEPT ![u] = NoApproval]
     /\ UNCHANGED <<edit, edits, overlapped>>

Init ==
  /\ rows = <<>>
  /\ edit = [q \in Editors |-> Idle]
  /\ approval = [u \in Users |-> NoApproval]
  /\ edits = 0
  /\ overlapped = FALSE

Next ==
  \/ \E q \in Editors :
       \/ BeginCreate(q) \/ BeginDetach(q) \/ BeginMove(q)
       \/ BeginThreshold(q) \/ BeginUser(q) \/ BeginRemove(q)
       \/ Commit(q)
  \/ \E u \in Users : BeginApprove(u) \/ CommitApprove(u)

Spec == Init /\ [][Next]_vars

-----------------------------------------------------------------------------
(* Properties *)

TypeOK ==
  /\ rows \in Seq(Rows)
  /\ \A n \in Ids : rows[n].listId \in Ids \cup {0}
  /\ edits \in 0 .. MaxEdits
  /\ overlapped \in BOOLEAN
  /\ \A u \in Users : approval[u].ids \subseteq Ids

(* "If the approver has a listId, then transactionId should be null"       *)
(* (transaction-approver.entity.ts), and a root has one; a list is not a   *)
(* user: whatever requests overlap, no row belongs nowhere or twice.       *)
OnePlace ==
  \A n \in Ids :
    /\ rows[n].listId # 0 <=> rows[n].transactionId = NoTransaction
    /\ rows[n].threshold # 0 => rows[n].userId = NoUser

(* Every row is in one place, and every approver can be found from its     *)
(* transaction with the lists above it (getTreeStructure drops a row whose *)
(* list is not among the approvers) as long as the requests of creators do *)
(* not overlap.  Two that do can move two lists under each other, or a row *)
(* into a list that is being removed.                                      *)
TreeIsSound ==
  /\ OnePlace
  /\ ~overlapped =>
       \A n \in Ids : Live(n) => RootOf(n) # {} /\ \A m \in Above(n) : Live(m)

(* A signature was given for the transaction its row belongs to, although  *)
(* new rows copy signatures and rows move with theirs.                     *)
SignedForItsTransaction ==
  \A n \in Ids :
    rows[n].signature # NoSignature
      => TransactionOf(n) \subseteq {rows[n].signature.on}

(* A list that asks for more approvals than it has rows. *)
Stranded(id) ==
  Live(id) /\ rows[id].threshold > Cardinality(ChildrenOf(id))

(* "Update the parent threshold if the current one is more than the        *)
(* children": only a row that is moved to another list or removed leaves a *)
(* list with a threshold its rows cannot reach; creating, detaching and    *)
(* changing a threshold do not.                                            *)
OnlyMovesStrand ==
  [][\A p \in DOMAIN rows' :
       Stranded(p)' =>
         \/ p \in Ids /\ Stranded(p)
         \/ overlapped'
         \/ \E c \in ChildrenOf(p) :
              rows'[c].deleted \/ rows'[c].listId \notin {0, p}]_vars
=============================================================================
