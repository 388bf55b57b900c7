----------------------------- MODULE AnalysisTask -----------------------------
(***************************************************************************)
(* The Celery worker executing analyze_domain_task (tasks/domain.py) under *)
(* the distributed concurrency limit (analysis_concurrency.py).  Delivery, *)
(* late acknowledgement, requeueing of lost tasks, retries and revocation  *)
(* are Celery's, as core/celery_app.py configures it: acks_late,           *)
(* reject_on_worker_lost, track_started.                                   *)
(*                                                                         *)
(* A lease is abstracted to membership in slots.  It is set at acquire and *)
(* never renewed by the run that holds it, so it may lapse at any time;    *)
(* under a run in the limited section it does so only as a failure, which  *)
(* the lease, longer than ANALYSIS_TIMEOUT_SECONDS (core/config.py), makes *)
(* rare: what follows the deadline is not bounded by it, and the hard time *)
(* limit is longer.                                                        *)
(***************************************************************************)
EXTENDS JobState

RunPCs == {"idle", "initial", "acquire", "started", "analyzing", "releasing",
           "retry", "store", "ack"}
Outcomes == {"none", "completed", "failed", "retry"}
Idle == [pc |-> "idle", job |-> NoJob, attempt |-> 0, outcome |-> "none"]

TaskRuns == [pc : RunPCs, job : Jobs \cup {NoJob}, attempt : 0 .. MaxRetries,
             outcome : Outcomes]

TaskTypeOK ==
    /\ run \in [Children -> TaskRuns]
    /\ slots \in SUBSET Jobs
    /\ overrun \in SUBSET Children
    /\ revokedIds \in SUBSET Jobs

TaskInit ==
    /\ run = [w \in Children |-> Idle]
    /\ slots = {}
    /\ overrun = {}
    /\ revokedIds = {}

-----------------------------------------------------------------------------
Runs(w, pc) == run[w].pc = pc
Proceed(w, pc) == run' = [run EXCEPT ![w].pc = pc]
Finish(w, pc, outcome) ==
    run' = [run EXCEPT ![w].pc = pc, ![w].outcome = outcome]
Stop(w) == run' = [run EXCEPT ![w] = Idle] /\ overrun' = overrun \ {w}

\* The message child w has not acknowledged.
Held(w) == [job |-> run[w].job, attempt |-> run[w].attempt]
Busy == {w \in Children : ~Runs(w, "idle")}

\* Inside run_with_concurrency_limit, between acquire and the end of release.
InSection(w) == run[w].pc \in {"started", "analyzing", "releasing"}
InOperation(w) == Runs(w, "analyzing")
Inside(j) == {w \in Children : run[w].job = j /\ InSection(w)}

-----------------------------------------------------------------------------
(* Delivery (external) and publish_initial *)

\* A retry is due ANALYSIS_CONCURRENCY_RETRY_SECONDS, at least a second, after
\* it was published: by then the run that published it has ended.
Due(m) == \A v \in Children : run[v].job = m.job => run[v].outcome # "retry"

Receive(w, m) ==
    /\ Runs(w, "idle") /\ m \in msgs /\ m.job \notin revokedIds /\ Due(m)
    /\ msgs' = msgs \ {m}
    /\ run' = [run EXCEPT ![w] = [pc |-> "initial", job |-> m.job,
                                  attempt |-> m.attempt, outcome |-> "none"]]
    /\ StoreState(m.job, "STARTED")
    /\ NoFault
    /\ UNCHANGED <<storeVars, queued, revocations, leaseVars, revokedIds, serviceVars>>

Discard(m) ==
    /\ m \in msgs /\ m.job \in revokedIds
    /\ msgs' = msgs \ {m}
    /\ StoreState(m.job, "REVOKED")
    /\ NoFault
    /\ UNCHANGED <<storeVars, queued, revocations, taskVars, serviceVars>>

\* Mutant: the job leaves the queue depth before it has a slot.
PublishInitial_Started(w) ==
    /\ Runs(w, "initial")
    /\ StoreState(run[w].job, "PROGRESS")
    /\ RemoveQueued(run[w].job)
    /\ Proceed(w, "acquire")
    /\ UNCHANGED <<storeVars, msgs, revocations, leaseVars, revokedIds, serviceVars>>

\* Published before a slot is taken; a failed publication is swallowed.
PublishInitial(w) ==
    /\ Runs(w, "initial")
    /\ \/ StoreState(run[w].job, "PROGRESS") /\ NoFault
       \/ UNCHANGED backend /\ Fault("progress")
    /\ Proceed(w, "acquire")
    /\ UNCHANGED <<storeVars, queued, msgs, revocations, leaseVars, revokedIds, serviceVars>>

-----------------------------------------------------------------------------
(* run_with_concurrency_limit *)

\* Mutant: off by one.
Grantable_Full(j) == j \in slots \/ Cardinality(slots) <= MaxConcurrency

\* _ACQUIRE_SCRIPT: the member renews its own lease, or takes a free slot.
Grantable(j) == j \in slots \/ Cardinality(slots) < MaxConcurrency

\* Mutant: on_acquired is skipped when the lease was already held.
Acquire_Renewed(w) ==
    /\ Runs(w, "acquire")
    /\ \/ Grantable(run[w].job) /\ slots' = slots \cup {run[w].job}
          /\ Proceed(w, IF run[w].job \in slots THEN "analyzing" ELSE "started")
       \/ ~Grantable(run[w].job) /\ UNCHANGED slots /\ Proceed(w, "retry")
    /\ NoFault
    /\ UNCHANGED <<storeVars, queued, brokerVars, overrun, revokedIds, serviceVars>>

Acquire(w) ==
    /\ Runs(w, "acquire")
    /\ \/ /\ Grantable(run[w].job)
          /\ slots' = slots \cup {run[w].job}
          /\ Proceed(w, "started") /\ NoFault
       \/ /\ ~Grantable(run[w].job)
          /\ UNCHANGED slots
          /\ Proceed(w, "retry") /\ NoFault
       \/ /\ \/ UNCHANGED slots
             \/ Grantable(run[w].job) /\ slots' = slots \cup {run[w].job}
          /\ Proceed(w, "retry") /\ Fault("limiter")
    /\ UNCHANGED <<storeVars, queued, brokerVars, overrun, revokedIds, serviceVars>>

\* on_acquired: mark_analysis_started.
MarkAnalysisStarted(w) ==
    /\ Runs(w, "started")
    /\ RemoveQueued(run[w].job)
    /\ Proceed(w, "analyzing")
    /\ UNCHANGED <<storeVars, brokerVars, leaseVars, revokedIds, serviceVars>>

ReportProgress(w) ==
    /\ Runs(w, "analyzing")
    /\ StoreState(run[w].job, "PROGRESS")
    /\ NoFault
    /\ UNCHANGED <<storeVars, queued, msgs, revocations, taskVars, serviceVars>>

Analyze(w) ==
    /\ Runs(w, "analyzing")
    /\ \/ Finish(w, "releasing", "completed") /\ NoFault
       \/ Finish(w, "releasing", "failed") /\ Fault("analysis")
    /\ UNCHANGED <<storeVars, queued, brokerVars, leaseVars, revokedIds, serviceVars>>

\* The lease of j goes, for whatever reason; `left` are the runs still to need it.
LeaseGoes(j, left) == slots' = slots \ {j} /\ overrun' = overrun \cup left

\* The finally block: a limiter that cannot be reached is ignored.
Release(w) ==
    /\ Runs(w, "releasing")
    /\ \/ LeaseGoes(run[w].job, Inside(run[w].job) \ {w}) /\ NoFault
       \/ UNCHANGED leaseVars /\ Fault("limiter")
    /\ Proceed(w, "store")
    /\ UNCHANGED <<storeVars, queued, brokerVars, revokedIds, serviceVars>>

-----------------------------------------------------------------------------
(* The end of a run: the retry is published before this message is acked *)

\* Mutant: a retry that is never published.
Retry_Lost(w) ==
    /\ Runs(w, "retry")
    /\ UNCHANGED msgs
    /\ Finish(w, "store", "retry")
    /\ NoFault
    /\ UNCHANGED <<storeVars, queued, backend, revocations, leaseVars, revokedIds, serviceVars>>

\* Mutant: task.retry publishes the retry, and its exception is not raised.
Retry_NotRaised(w) ==
    /\ Runs(w, "retry")
    /\ \/ /\ run[w].attempt < MaxRetries
          /\ msgs' = msgs \cup {[job |-> run[w].job, attempt |-> run[w].attempt + 1]}
       \/ run[w].attempt = MaxRetries /\ UNCHANGED msgs
    /\ Finish(w, "store", "failed")
    /\ NoFault
    /\ UNCHANGED <<storeVars, queued, backend, revocations, leaseVars, revokedIds, serviceVars>>

Retry(w) ==
    /\ Runs(w, "retry")
    /\ \/ /\ run[w].attempt < MaxRetries
          /\ msgs' = msgs \cup {[job |-> run[w].job, attempt |-> run[w].attempt + 1]}
          /\ Finish(w, "store", "retry")
       \/ /\ run[w].attempt = MaxRetries
          /\ UNCHANGED msgs
          /\ Finish(w, "store", "failed")
    /\ NoFault
    /\ UNCHANGED <<storeVars, queued, backend, revocations, leaseVars, revokedIds, serviceVars>>

StoreOutcome(w) ==
    /\ Runs(w, "store")
    /\ StoreState(run[w].job, CASE run[w].outcome = "completed" -> "SUCCESS"
                                [] run[w].outcome = "retry" -> "RETRY"
                                [] OTHER -> "FAILURE")
    /\ Proceed(w, "ack")
    /\ NoFault
    /\ UNCHANGED <<storeVars, queued, msgs, revocations, leaseVars, revokedIds, serviceVars>>

Acknowledge(w) ==
    /\ Runs(w, "ack")
    /\ Stop(w)
    /\ NoFault
    /\ UNCHANGED <<storeVars, queued, brokerVars, slots, revokedIds, serviceVars>>

-----------------------------------------------------------------------------
(* Revocation, losses and expiry (external). None of them runs the finally  *)
(* block, so a killed run leaves its lease behind.                          *)

\* terminate=True: running tasks with this id are killed and acknowledged.
HandleRevocation(j) ==
    /\ j \in revocations
    /\ revocations' = revocations \ {j}
    /\ revokedIds' = revokedIds \cup {j}
    /\ LET killed == {w \in Busy : run[w].job = j} IN
       /\ run' = [w \in Children |-> IF w \in killed THEN Idle ELSE run[w]]
       /\ overrun' = overrun \ killed
       /\ \/ killed # {} /\ StoreState(j, "REVOKED")
          \/ killed = {} /\ UNCHANGED backend
    /\ NoFault
    /\ UNCHANGED <<storeVars, queued, msgs, slots, serviceVars>>

LoseRevocation(j) ==
    /\ j \in revocations
    /\ revocations' = revocations \ {j}
    /\ Fault("revokeLost")
    /\ UNCHANGED <<storeVars, queued, msgs, backend, taskVars, serviceVars>>

\* A lost run is delivered again. Once its retry was published, the job then
\* has two messages.
LossKinds(lost, kind) ==
    {kind} \cup IF \E w \in lost : run[w].outcome = "retry" THEN {"fork"} ELSE {}

ChildLost(w) ==
    /\ w \in Busy
    /\ msgs' = msgs \cup {Held(w)}
    /\ Stop(w)
    /\ Faults(LossKinds({w}, "childLost"))
    /\ UNCHANGED <<storeVars, queued, backend, revocations, slots, revokedIds, serviceVars>>

WorkerRestart ==
    /\ msgs' = msgs \cup {Held(w) : w \in Busy}
    /\ run' = [w \in Children |-> Idle] /\ overrun' = {}
    /\ revokedIds' = {}
    /\ Faults(LossKinds(Busy, "restart"))
    /\ UNCHANGED <<storeVars, queued, backend, revocations, slots, serviceVars>>

HardTimeLimit(w) ==
    /\ Runs(w, "analyzing")
    /\ StoreState(run[w].job, "FAILURE")
    /\ Stop(w)
    /\ Fault("hardLimit")
    /\ UNCHANGED <<storeVars, queued, msgs, revocations, slots, revokedIds, serviceVars>>

\* A lease left behind lapses in time.
ExpireLease(j) ==
    /\ j \in slots /\ Inside(j) = {}
    /\ LeaseGoes(j, {})
    /\ NoFault
    /\ UNCHANGED <<storeVars, queued, brokerVars, run, revokedIds, serviceVars>>

\* The lease of a run that takes longer lapses under it.
OutliveLease(j) ==
    /\ j \in slots /\ Inside(j) # {}
    /\ LeaseGoes(j, Inside(j))
    /\ Fault("lease")
    /\ UNCHANGED <<storeVars, queued, brokerVars, run, revokedIds, serviceVars>>

ExpireResult(j) ==
    /\ backend[j] \in _TERMINAL_STATES
    /\ backend' = [backend EXCEPT ![j] = "PENDING"]
    /\ Fault("resultExpiry")
    /\ UNCHANGED <<storeVars, queued, msgs, revocations, taskVars, serviceVars>>

-----------------------------------------------------------------------------
RunStep(w) ==
    \/ PublishInitial(w) \/ Acquire(w) \/ MarkAnalysisStarted(w)
    \/ Analyze(w) \/ Release(w) \/ Retry(w)
    \/ StoreOutcome(w) \/ Acknowledge(w)

Deliver == \E m \in msgs : Discard(m) \/ \E w \in Children : Receive(w, m)

Loss ==
    \/ WorkerRestart
    \/ \E w \in Children : ChildLost(w) \/ HardTimeLimit(w)
    \/ \E j \in Jobs : LoseRevocation(j) \/ ExpireResult(j)

TaskNext ==
    \/ Deliver
    \/ \E w \in Children : RunStep(w) \/ ReportProgress(w)
    \/ \E j \in Jobs : HandleRevocation(j) \/ ExpireLease(j) \/ OutliveLease(j)
    \/ Loss
=============================================================================
