----------------------------- MODULE AnalysisJobs -----------------------------
(***************************************************************************)
(* The asynchronous analysis of a domain: the API processes of             *)
(* AnalysisService and the worker of AnalysisTask, interleaved over the    *)
(* Redis state of JobState.                                                *)
(***************************************************************************)
EXTENDS AnalysisService, AnalysisTask

Init == StateInit /\ ServiceInit /\ TaskInit

Next == ServiceNext \/ TaskNext

Spec == Init /\ [][Next]_vars

(***************************************************************************)
(* Fairness.  A coroutine that has been answered by Redis is resumed by    *)
(* the event loop; a child process keeps running what it was given (the    *)
(* analysis has a deadline); Celery delivers what is in the broker to an   *)
(* idle child and broadcasts reach a live worker; leases lapse.            *)
(***************************************************************************)
Fairness ==
    /\ \A j \in Jobs : WF_vars(CreateStep(j))
    /\ \A p \in Callers : WF_vars(GetStep(p) \/ CancelStep(p))
    /\ WF_vars(Deliver)
    /\ \A w \in Children : WF_vars(RunStep(w))
    /\ \A j \in Jobs : WF_vars(HandleRevocation(j)) /\ WF_vars(ExpireLease(j))

FairSpec == Spec /\ Fairness

-----------------------------------------------------------------------------
\* What a get request made now would answer.
Status(j) ==
    IF record[j] = NoRecord THEN "missing" ELSE _job_from_snapshot(record[j], backend[j])

NoneOf(kinds) == faults \cap kinds = {}

TypeOK == StateTypeOK /\ ServiceTypeOK /\ TaskTypeOK

\* Two creates with the same Idempotency-Key never both start a job while the
\* key lives, however their Redis calls interleave or fail: create's SET NX and
\* the rollback in _delete_async.
OneJobPerKey ==
    \A i, j \in Jobs :
        (Accepted(i) /\ Accepted(j) /\ KeyOf(i) = KeyOf(j) /\ KeyOf(i) # NoKey)
            => i = j \/ ~NoneOf({"expiry"})

\* A duplicate create is told 404 only when something failed before: the job of
\* the winning create exists from before its key is bound until it is rolled back.
DuplicateCreateFindsJob ==
    \A j \in Jobs : (At(j, "done") /\ call[j].reply = "missing")
                        => ~NoneOf({"store", "enqueue", "expiry"})

\* A duplicate create is only ever shown the status of a job for its own domain
\* and key.
DuplicateCreateMatches ==
    \A j \in Jobs : (At(j, "done") /\ call[j].reply \in Statuses)
                        => request[call[j].id] = request[j]

\* A create whose enqueue failed leaves no tracker entry and no key behind, so
\* a retry with the key starts a new job, and no record but one that a
\* concurrent cancel wrote back.
FailedCreateLeavesNothing ==
    \A j \in Jobs :
        (At(j, "done") /\ call[j].reply = "unavailable" /\ call[j].id = j
            /\ NoneOf({"store", "tracker", "revoke"}))
        => /\ j \notin queued
           /\ \A k \in Keys : idem[k] # j
           /\ Status(j) \in {"missing", "cancelled"}

\* Once a client has been told that its job is cancelled, no later request finds
\* it alive, completed tasks included, unless a revoke failed and was rolled back.
CancelHonoured ==
    \A p \in Callers :
        (call[p].reply = "cancelled" /\ NoneOf({"revoke"}))
            => Status(Target(p)) \in {"missing", "cancelled"}

\* No task is revoked, killed or discarded before its job was flagged cancelled,
\* so no get shows a killed job as anything else: cancel sets the flag first,
\* and only a failed revoke takes it back.
RevokedIsFlagged ==
    \A j \in Jobs :
        /\ j \in revocations \cup revokedIds \/ backend[j] = "REVOKED"
        /\ record[j] # NoRecord
        /\ NoneOf({"revoke"})
        => record[j].cancelled

\* A job whose analysis runs has left the queue depth: the tracker is marked
\* before the message is sent, so a fast worker cannot be overtaken by the mark.
StartedNotQueued ==
    \A w \in Children :
        (run[w].pc \in {"analyzing", "releasing"} /\ NoneOf({"tracker"}))
            => run[w].job \notin queued

\* An accepted job that waits for its first run, not cancelled, is counted by the
\* queue depth.
WaitingIsCounted ==
    \A j \in Jobs :
        /\ Accepted(j)
        /\ Status(j) \in {"queued", "running"}
        /\ \E m \in msgs : m.job = j
        /\ NoneOf({"tracker", "expiry", "revoke", "childLost", "restart", "fork"})
        => j \in queued

\* Never more jobs at work than ANALYSIS_MAX_CONCURRENCY, but for those whose lease
\* has gone from under them: through lost children, redelivery, revocation, and
\* leases that are left behind, lapse early or are shared by a forked job. Without
\* a fork the same is true of analyses.
ConcurrencyBound ==
    LET leased == {w \in Children : InOperation(w)} \ overrun
    IN  /\ Cardinality({run[w].job : w \in leased}) <= MaxConcurrency
        /\ NoneOf({"fork"}) => Cardinality(leased) <= MaxConcurrency

\* A job has one message or one run at a time, as long as none was lost after it
\* had published its retry.
SingleDelivery ==
    NoneOf({"fork"}) =>
        /\ \A w \in Busy, v \in Busy :
              (run[w].job = run[v].job) => w = v
        /\ \A w \in Busy : run[w].outcome # "retry" => \A m \in msgs : m.job # run[w].job

-----------------------------------------------------------------------------
\* The README's job lifecycle (207): completed, failed and cancelled are terminal.
TerminalIsFinal ==
    [][\A j \in Jobs : Status(j) \in TerminalStatus
            => Status(j)' \in {Status(j), "missing"}]_vars

\* What the code keeps of it: while no result expires and no run is lost or
\* repeated, a terminal job changes only to cancelled.
TerminalChangesOnlyToCancelled ==
    [][\A j \in Jobs :
        (Status(j) \in TerminalStatus
            /\ (faults \cap {"resultExpiry", "revoke", "fork", "childLost", "restart"})' = {})
        => Status(j)' \in {Status(j), "cancelled", "missing"}]_vars

\* metrics.py:159 calls the depth the number of queued jobs: a job whose status is
\* terminal is not counted.
QueueDepthExact ==
    \A j \in queued : Status(j) \notin {"completed", "failed"}

\* Every accepted job reaches a terminal task state, unless losses never stop.
AcceptedJobEnds ==
    \A j \in Jobs :
        <>[][~Loss]_vars => (Accepted(j) ~> (backend[j] \in _TERMINAL_STATES))
=============================================================================
