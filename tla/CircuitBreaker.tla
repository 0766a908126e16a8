--------------------------- MODULE CircuitBreaker ---------------------------
(***************************************************************************)
(* MirrorNodeCircuitBreaker: the circuit of one network in one pod.        *)
(* Timestamps are kept as the time elapsed since, capped at ResetAfter.    *)
(***************************************************************************)
EXTENDS Integers

CONSTANTS
  Threshold,    \* CIRCUIT_BREAKER_FAILURE_THRESHOLD
  ResetAfter,   \* CIRCUIT_BREAKER_RESET_TIMEOUT_MS, in units of time
  HalfOpenMax   \* CIRCUIT_BREAKER_HALF_OPEN_MAX_ATTEMPTS

ASSUME BreakerAssumption ==
  /\ Threshold \in Nat \ {0} /\ ResetAfter \in Nat /\ HalfOpenMax \in Nat \ {0}

Circuit == [state : {"CLOSED", "OPEN", "HALF_OPEN"}, failures : 0 .. Threshold,
            sinceFailure : 0 .. ResetAfter, sinceHalfOpen : 0 .. ResetAfter,
            successes : 0 .. HalfOpenMax, attempts : 0 .. HalfOpenMax]

NewCircuit == [state |-> "CLOSED", failures |-> 0, sinceFailure |-> 0,
               sinceHalfOpen |-> 0, successes |-> 0, attempts |-> 0]

(* transitionTo *)
Opened(k)     == [k EXCEPT !.state = "OPEN", !.sinceFailure = 0]
Closed(k)     == [k EXCEPT !.state = "CLOSED", !.failures = 0,
                           !.successes = 0, !.attempts = 0]
HalfOpened(k) == [k EXCEPT !.state = "HALF_OPEN", !.sinceHalfOpen = 0,
                           !.successes = 0, !.attempts = 0]

(* isAvailable: what it answers, and the circuit after it was asked.       *)
(* Mutant: an open circuit waits for a success that nobody can bring.      *)
IsAvailableUnlessOpen(k) ==
  \/ k.state = "CLOSED"
  \/ k.state = "HALF_OPEN" /\ k.attempts < HalfOpenMax

IsAvailable(k) ==
  \/ k.state = "CLOSED"
  \/ k.state = "OPEN" /\ k.sinceFailure = ResetAfter
  \/ k.state = "HALF_OPEN" /\ k.attempts < HalfOpenMax

Asked(k) ==
  CASE k.state = "OPEN" /\ k.sinceFailure = ResetAfter
         -> [HalfOpened(k) EXCEPT !.attempts = 1]
    [] k.state = "HALF_OPEN" /\ k.attempts < HalfOpenMax
         -> [k EXCEPT !.attempts = k.attempts + 1]
    [] k.state = "HALF_OPEN" /\ k.attempts = HalfOpenMax
         /\ k.sinceHalfOpen = ResetAfter -> Opened(k)
    [] OTHER -> k

RecordSuccess(k) ==
  CASE k.state = "HALF_OPEN" /\ k.successes + 1 < HalfOpenMax
         -> [k EXCEPT !.successes = k.successes + 1]
    [] k.state = "HALF_OPEN" /\ k.successes + 1 >= HalfOpenMax -> Closed(k)
    [] k.state = "CLOSED" -> [k EXCEPT !.failures = 0]
    [] OTHER -> k

RecordFailure(k) ==
  CASE k.state = "CLOSED" /\ k.failures + 1 < Threshold
         -> [k EXCEPT !.failures = k.failures + 1, !.sinceFailure = 0]
    [] k.state = "CLOSED" /\ k.failures + 1 >= Threshold
         -> [Opened(k) EXCEPT !.failures = Threshold]
    [] k.state = "HALF_OPEN" -> Opened(k)
    [] OTHER -> [k EXCEPT !.sinceFailure = 0]

(* Time passes.  Only the time that the state reads is counted: it is set  *)
(* when the state is entered.                                              *)
Later(t) == IF t < ResetAfter THEN t + 1 ELSE t

Elapsed(k) ==
  [k EXCEPT !.sinceFailure  = IF k.state = "OPEN" THEN Later(@) ELSE 0,
            !.sinceHalfOpen = IF k.state = "HALF_OPEN" THEN Later(@) ELSE 0]

=============================================================================
