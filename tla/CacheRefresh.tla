---------------------------- MODULE CacheRefresh ----------------------------
(***************************************************************************)
(* The cron jobs that refresh the cached row of CacheClaim, one per chain  *)
(* pod, each behind the CircuitBreaker of its pod.  A job asks the breaker *)
(* before it refreshes the rows it listed and records how the refresh      *)
(* ended: a refused claim counts as a success, although the mirror node    *)
(* was not asked.  The breaker is memory: a restarted pod begins with a    *)
(* closed circuit.                                                         *)
(***************************************************************************)
EXTENDS CacheClaim, CircuitBreaker

VARIABLE circuit   \* per job: the circuit of the row's network in its pod

refreshVars == <<row, keyRows, mirror, call, faults, circuit>>

RefreshTypeOK == TypeOK /\ circuit \in [Jobs -> Circuit]

-----------------------------------------------------------------------------
(* refreshStaleAccounts up to the first row: the breaker is asked, and     *)
(* says yes ...                                                            *)
Begin(j) ==
  /\ IsAvailable(circuit[j]) /\ JobRead(j)
  /\ circuit' = [circuit EXCEPT ![j] = Asked(@)]

(* ... or no: the job ends. *)
Skip(j) ==
  /\ call[j].pc = "idle" /\ Listed /\ ~IsAvailable(circuit[j])
  /\ circuit' = [circuit EXCEPT ![j] = Asked(@)]
  /\ UNCHANGED vars

(* What becomes of the circuit when a job's call ended. *)
After(k, pc) == IF pc = "done" THEN RecordSuccess(k) ELSE RecordFailure(k)

End(j) ==
  /\ Finish(j)
  /\ circuit' = [circuit EXCEPT ![j] = After(@, call[j].pc)]

Restart(j) ==
  /\ Crash(j)
  /\ circuit' = [circuit EXCEPT ![j] = NewCircuit]

Elapse ==
  /\ Tick
  /\ circuit' = [j \in Jobs |-> Elapsed(circuit[j])]

RefreshInit == Init /\ circuit = [j \in Jobs |-> NewCircuit]

JobStep(j) == Begin(j) \/ Skip(j) \/ End(j)

(* The steps that no breaker hears of. *)
Unheard(step) == step /\ UNCHANGED circuit

RefreshNext ==
  \/ \E j \in Jobs : JobStep(j) \/ Restart(j)
  \/ \E c \in Requests : Unheard(Read(c)) \/ Unheard(Finish(c)) \/ Unheard(Crash(c))
  \/ \E c \in Calls : Unheard(CallStep(c)) \/ Unheard(StatementFails(c))
  \/ Elapse
  \/ Unheard(Cleanup)
  \/ Unheard(LedgerChanges)
  \/ Unheard(MirrorToggles)

(* Time passes, the cron goes on starting jobs, and a call that was begun  *)
(* goes on; nobody has to ask for the account, and the ledger need not     *)
(* change.                                                                 *)
Fairness ==
  /\ WF_refreshVars(Elapse)
  /\ \A j \in Jobs : WF_refreshVars(JobStep(j))
  /\ \A c \in Calls : WF_refreshVars(Unheard(CallStep(c)))

RefreshSpec == RefreshInit /\ [][RefreshNext]_refreshVars /\ Fairness

-----------------------------------------------------------------------------
(* A call loses its claim although it is alive: its fetch took longer than *)
(* ClaimFor.                                                               *)
TakenOver == row.token \in Calls /\ row'.token \in Calls \ {row.token}

(* A cached row does not stay behind a mirror node that answers, unless    *)
(* the refreshes are always slower than the claim timeout: a claim left by *)
(* a dead call is taken over, and an open circuit is probed and closed     *)
(* again.  Only the jobs are relied on, no request.                        *)
CatchesUp ==
  <>[]mirror.up /\ <>[][~TakenOver]_refreshVars
    => []<>(row.there => row.data = mirror.version)

=============================================================================
