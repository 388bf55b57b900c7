---------------------------- MODULE CircuitBreaker ----------------------------
(***************************************************************************)
(* The circuits of one CircuitBreaker (utils/circuit_breaker.py), one per  *)
(* provider.  The lock of the breaker is never held across an await, so    *)
(* each method is one step.                                                *)
(*                                                                         *)
(* Of the clock only this is kept: an open circuit cools after             *)
(* reset_seconds, and a failure recorded meanwhile starts the wait again.  *)
(***************************************************************************)
EXTENDS Integers

CONSTANTS Providers, FailureThreshold

ASSUME ThresholdAssumption == FailureThreshold \in Nat \ {0}

VARIABLE circuit    \* _states; a circuit without a state is closed

\* Beyond the threshold the count no longer matters: it is not counted on.
Circuits == [failures : 0..FailureThreshold,
             phase : {"closed", "open", "cooled"},
             probe : BOOLEAN]
Closed == [failures |-> 0, phase |-> "closed", probe |-> FALSE]

Rejects(s) ==
    \/ circuit[s].phase = "open"
    \/ circuit[s].phase = "cooled" /\ circuit[s].probe

\* Whether the next call of s would be the probe.
HalfOpen(s) == circuit[s].phase = "cooled"

\* Mutant: the probe does not take the flag.
BeforeCall_NoFlag(s) == ~Rejects(s) /\ UNCHANGED circuit

\* _before_call: rejected, or admitted, the first call after the wait as the probe.
BeforeCall(s) ==
    /\ ~Rejects(s)
    /\ circuit' = [circuit EXCEPT ![s].probe = HalfOpen(s)]

RecordSuccess(s) == circuit' = [circuit EXCEPT ![s] = Closed]

Failures(s) ==
    IF circuit[s].failures < FailureThreshold THEN circuit[s].failures + 1 ELSE FailureThreshold

\* Mutant: a failure leaves the flag of the probe.
RecordFailure_KeepsFlag(s) ==
    LET open == circuit[s].phase # "closed" \/ Failures(s) = FailureThreshold
    IN  circuit' = [circuit EXCEPT ![s].failures = Failures(s),
                                   ![s].phase = IF open THEN "open" ELSE "closed"]

RecordFailure(s) ==
    LET open == circuit[s].phase # "closed" \/ Failures(s) = FailureThreshold
    IN  circuit' = [circuit EXCEPT ![s] = [failures |-> Failures(s),
                                           phase |-> IF open THEN "open" ELSE "closed",
                                           probe |-> FALSE]]

\* Mutant: a cancelled call keeps the flag.
ReleaseProbe_Never(s) == UNCHANGED circuit

ReleaseProbe(s) == circuit' = [circuit EXCEPT ![s].probe = FALSE]

\* reset_seconds have passed since opened_at.
CoolDown(s) ==
    /\ circuit[s].phase = "open"
    /\ circuit' = [circuit EXCEPT ![s].phase = "cooled"]
=============================================================================
