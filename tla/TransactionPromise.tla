------------------------- MODULE TransactionPromise -------------------------
(***************************************************************************)
(* What the back-end promises about one transaction, without saying who    *)
(* does what when.  A client sees the status; the ledger sees whether and  *)
(* how consensus took the transaction id; in between there is only the     *)
(* fact that some executor has checked the status and may still submit.    *)
(***************************************************************************)
CONSTANTS
  Open,     \* statuses of a transaction in progress
  Ready     \* the open status from which an execution may be recorded

VARIABLES
  status,   \* the status clients are shown
  net,      \* what consensus knows of the transaction id
  inFlight  \* some executor has validated the status and not yet submitted

promiseVars == <<status, net, inFlight>>

PromiseInit == status \in Open /\ net = "unknown" /\ inFlight = FALSE

(* Signatures come and go: an open transaction changes between the open    *)
(* statuses.                                                               *)
Review == /\ status \in Open /\ status' \in Open
          /\ UNCHANGED <<net, inFlight>>

(* An executor takes an open transaction; one that gives up (or dies) may  *)
(* leave nobody in flight.                                                 *)
Take == /\ status \in Open /\ inFlight' = TRUE
        /\ UNCHANGED <<status, net>>
Drop == /\ inFlight /\ inFlight' = FALSE
        /\ UNCHANGED <<status, net>>

(* Consensus settles the transaction id once, on behalf of somebody in     *)
(* flight.                                                                 *)
Settle == /\ inFlight /\ net = "unknown"
          /\ net' \in {"success", "failure"}
          /\ inFlight' \in BOOLEAN
          /\ UNCHANGED status

(* The answer is recorded: success only if consensus said so.              *)
Record == /\ status = Ready
          /\ \/ status' = "EXECUTED" /\ net = "success"
             \/ status' = "FAILED"
          /\ UNCHANGED <<net, inFlight>>

(* An open transaction is canceled or expires.                             *)
Close == /\ status \in Open /\ status' \in {"CANCELED", "EXPIRED"}
         /\ UNCHANGED <<net, inFlight>>

(* Any transaction may be archived.                                        *)
Archive == /\ status' = "ARCHIVED"
           /\ UNCHANGED <<net, inFlight>>

PromiseNext == Review \/ Take \/ Drop \/ Settle \/ Record \/ Close \/ Archive

Promise == PromiseInit /\ [][PromiseNext]_promiseVars

=============================================================================
