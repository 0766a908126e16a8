-------------------------- MODULE TransactionCreation --------------------------
(***************************************************************************)
(* Transactions are created one at a time or as the items of a group: the  *)
(* ids are looked up, the rows saved in one database transaction, the      *)
(* reminders set in Redis, and the group saved in another transaction.     *)
(* The table has no unique constraint on the transaction id, and nothing   *)
(* undoes an earlier step when a later one fails.                          *)
(***************************************************************************)
EXTENDS Integers, Sequences, FiniteSets, SequencesExt

CONSTANTS TransactionIds,
          Creators,    \* requests in flight at a time
          Items,       \* lists of transaction ids a request may carry
          MaxRequests  \* bound: requests sent

ASSUME ItemsAssumption == Items \subseteq Seq(TransactionIds) \ {<< >>}
ASSUME RequestsAssumption == MaxRequests \in Nat

Sent == 1 .. MaxRequests
Transactions == [tid : TransactionIds, active : BOOLEAN, by : Sent, group : BOOLEAN]
Answers == {"none", "refused", "failed", "created"}
NoRequest == [stage |-> "idle"]
RequestSteps == [stage : {"checked", "saved"}, number : Sent, items : Items, group : BOOLEAN]

VARIABLES transactions,  \* rows of table transaction, in the order of their ids
          creating,      \* requests in flight
          answers,       \* history: what each request sent was answered
          sizes,         \* history: [items, group] of each request sent
          overlapped     \* history: ids two requests in flight carried

creationVars == <<transactions, creating, answers, sizes, overlapped>>

CreationTypeOK ==
  /\ transactions \in Seq(Transactions)
  /\ creating \in [Creators -> RequestSteps \cup {NoRequest}]
  /\ answers \in Seq(Answers) /\ sizes \in Seq([items : Items, group : BOOLEAN])
  /\ Len(answers) = Len(sizes) /\ Len(answers) <= MaxRequests
  /\ overlapped \subseteq TransactionIds

CreationInit ==
  /\ transactions = << >>
  /\ creating = [c \in Creators |-> NoRequest]
  /\ answers = << >> /\ sizes = << >>
  /\ overlapped = {}

(* Mutant: only the first id of the request is looked up. *)
ExistingFirst(items) ==
  \E i \in DOMAIN transactions : transactions[i].active /\ transactions[i].tid = items[1]

(* CANCELED, REJECTED and ARCHIVED transactions do not count. *)
Existing(items) == \E i \in DOMAIN transactions : transactions[i].active /\ transactions[i].tid \in ToSet(items)

Carried(c) == IF creating[c] = NoRequest THEN {} ELSE ToSet(creating[c].items)

(* createTransactions up to the check; the ids of one request are not compared
   with each other. *)
BeginCreate(c, items, group) ==
  LET n == Len(answers) + 1 IN
  /\ creating[c] = NoRequest
  /\ n <= MaxRequests
  /\ group \/ Len(items) = 1
  /\ sizes' = Append(sizes, [items |-> items, group |-> group])
  /\ IF Existing(items)
     THEN answers' = Append(answers, "refused") /\ UNCHANGED creating
     ELSE /\ answers' = Append(answers, "none")
          /\ creating' = [creating EXCEPT ![c] = [stage |-> "checked", number |-> n,
                                                  items |-> items, group |-> group]]
  /\ overlapped' = overlapped \cup (ToSet(items) \cap UNION {Carried(d) : d \in Creators})
  /\ UNCHANGED transactions

(* The rows of a request, saved together. *)
RowsFor(request) ==
  [i \in 1 .. Len(request.items) |->
     [tid |-> request.items[i], active |-> TRUE, by |-> request.number, group |-> FALSE]]

SaveTransactions(c) ==
  /\ creating[c].stage = "checked"
  /\ transactions' = transactions \o RowsFor(creating[c])
  /\ creating' = [creating EXCEPT ![c].stage = "saved"]
  /\ UNCHANGED <<answers, sizes, overlapped>>

Answer(c, answer) ==
  /\ answers' = [answers EXCEPT ![creating[c].number] = answer]
  /\ creating' = [creating EXCEPT ![c] = NoRequest]

(* The reminders are set; a single transaction is answered. *)
FinishSingle(c) ==
  /\ creating[c].stage = "saved" /\ ~creating[c].group
  /\ Answer(c, "created")
  /\ UNCHANGED <<transactions, sizes, overlapped>>

(* Mutant: only the last item is saved with the group. *)
GroupedLast(number) ==
  [transactions EXCEPT ![Len(transactions)].group = (transactions[Len(transactions)].by = number)]

(* The group and its items, saved together. *)
Grouped(number) ==
  [i \in DOMAIN transactions |->
     IF transactions[i].by = number THEN [transactions[i] EXCEPT !.group = TRUE] ELSE transactions[i]]

SaveGroup(c) ==
  /\ creating[c].stage = "saved" /\ creating[c].group
  /\ transactions' = Grouped(creating[c].number)
  /\ Answer(c, "created")
  /\ UNCHANGED <<sizes, overlapped>>

(* A save or a reminder fails, or the process dies: what was saved stays. *)
FailCreate(c) ==
  /\ creating[c] # NoRequest
  /\ Answer(c, "failed")
  /\ UNCHANGED <<transactions, sizes, overlapped>>

(* Cancelled, rejected or archived later on. *)
Deactivate(i) ==
  /\ transactions[i].active
  /\ transactions' = [transactions EXCEPT ![i].active = FALSE]
  /\ UNCHANGED <<creating, answers, sizes, overlapped>>

CreationNext ==
  \/ \E c \in Creators :
       \/ \E items \in Items, group \in BOOLEAN : BeginCreate(c, items, group)
       \/ SaveTransactions(c) \/ FinishSingle(c) \/ SaveGroup(c) \/ FailCreate(c)
  \/ \E i \in DOMAIN transactions : Deactivate(i)

CreationSpec == CreationInit /\ [][CreationNext]_creationVars

-----------------------------------------------------------------------------
RowsBy(n) == {i \in DOMAIN transactions : transactions[i].by = n}
Repeats(l) == {t \in ToSet(l) : Cardinality({i \in DOMAIN l : l[i] = t}) > 1}

(* A transaction id names one transaction that is still active, however often   *)
(* it is cancelled and created again.  Only requests that overlapped, or one    *)
(* request that repeats an id, get around the check.                            *)
OneActive ==
  \A tid \in TransactionIds \ overlapped :
    (\A n \in DOMAIN sizes : tid \notin Repeats(sizes[n].items))
      => Cardinality({i \in DOMAIN transactions :
                        transactions[i].tid = tid /\ transactions[i].active}) <= 1

(* What a request was answered tells what it left: "created" every transaction, *)
(* in the group if there is one; "refused" none; after a failure either none,   *)
(* or all of them, outside any group.                                           *)
AnswerTellsWhatIsLeft ==
  \A n \in DOMAIN answers :
    LET saved == RowsBy(n)
        all == Cardinality(saved) = Len(sizes[n].items)
        grouped == {i \in saved : transactions[i].group}
    IN CASE answers[n] = "created" -> all /\ grouped = (IF sizes[n].group THEN saved ELSE {})
         [] answers[n] = "refused" -> saved = {}
         [] OTHER -> (saved = {} \/ all) /\ grouped = {}

=============================================================================
