------------------------------ MODULE JobState ------------------------------
(***************************************************************************)
(* The state of the asynchronous analysis jobs.  What the API processes    *)
(* and the Celery worker share is in Redis: the analysis records and       *)
(* idempotency keys (analysis_jobs.py), the queue-depth tracker            *)
(* (analysis_queue.py), and Celery's messages, task states and revoke      *)
(* broadcasts, which are external and modelled from how src/ configures    *)
(* and calls Celery.  The variables of the two sides are declared here     *)
(* too, so that every action can name what it leaves alone.                *)
(*                                                                         *)
(* A job is identified with the create call that mints its uuid.           *)
(***************************************************************************)
EXTENDS Integers, FiniteSets

CONSTANTS
    Jobs,           \* the uuids, one per create call
    Clients,        \* browsers that get and cancel jobs
    Keys,           \* idempotency keys
    Domains,        \* normalised domains
    Children,       \* the worker's child processes
    NoKey,          \* a create call without an Idempotency-Key header
    NoJob,          \* "no job": an unbound key, a client that polls nothing
    NoRecord,       \* an absent analysis record
    MaxConcurrency, \* ANALYSIS_MAX_CONCURRENCY
    MaxRetries,     \* ANALYSIS_CONCURRENCY_MAX_RETRIES
    AllowedFaults   \* the kinds of failure a run lets happen

\* The kinds of failure the code and its services can meet.
FaultKinds ==
    { "store",        \* a Redis command on records or keys raises
      "enqueue",      \* send_task raises, the message delivered or not
      "revoke",       \* control.revoke raises, the broadcast sent or not
      "revokeLost",   \* a broadcast no worker receives
      "tracker",      \* a tracker write fails (and is swallowed)
      "limiter",      \* the concurrency limiter cannot be reached
      "progress",     \* the initial progress publication fails
      "analysis",     \* the analysis raises, soft time limit included
      "hardLimit",    \* the child is killed by task_time_limit
      "childLost",    \* a child process dies, its message is requeued
      "fork",         \* a child dies between publishing a retry and its ack
      "restart",      \* the worker restarts and forgets its revoked ids
      "lease",        \* a lease lapses under a run in the limited section
      "expiry",       \* a record, key or tracker entry outlives its TTL
      "resultExpiry" }\* a Celery result outlives result_expires

ASSUME JobAssumption ==
    /\ NoJob \notin Jobs
    /\ NoKey \notin Keys
    /\ Clients \cap Jobs = {}
    /\ NoRecord \notin [domain : Domains, cancelled : BOOLEAN]
    /\ IsFiniteSet(Jobs)
    /\ MaxConcurrency \in Nat \ {0}
    /\ MaxRetries \in Nat
    /\ AllowedFaults \subseteq FaultKinds

VARIABLES
    \* Redis, written by both sides
    record,       \* job key -> record
    idem,         \* idempotency key -> job id
    queued,       \* members of the queue-depth sorted set
    msgs,         \* task messages waiting in the broker
    backend,      \* Celery's state of each task id
    revocations,  \* revoke broadcasts on their way to the worker
    \* the API processes (AnalysisService)
    request,      \* what each create call asks for
    call,         \* where each request is
    \* the worker (AnalysisTask)
    run,          \* what each child process executes
    slots,        \* members of the concurrency sorted set
    overrun,      \* history: children whose lease has gone while they needed it
    revokedIds,   \* revoked ids the worker remembers, in memory only
    \* history
    faults        \* the kinds of failure that have happened

storeVars == <<record, idem>>
brokerVars == <<msgs, backend, revocations>>
serviceVars == <<request, call>>
leaseVars == <<slots, overrun>>
taskVars == <<run, leaseVars, revokedIds>>
vars == <<storeVars, queued, brokerVars, serviceVars, taskVars, faults>>

Callers == Jobs \cup Clients
Records == [domain : Domains, cancelled : BOOLEAN]
Messages == [job : Jobs, attempt : 0 .. MaxRetries]
TaskStates == {"PENDING", "STARTED", "PROGRESS", "RETRY",
               "SUCCESS", "FAILURE", "REVOKED"}
_TERMINAL_STATES == {"SUCCESS", "FAILURE", "REVOKED"}

StateTypeOK ==
    /\ record \in [Jobs -> Records \cup {NoRecord}]
    /\ idem \in [Keys -> Jobs \cup {NoJob}]
    /\ queued \in SUBSET Jobs
    /\ msgs \in SUBSET Messages
    /\ backend \in [Jobs -> TaskStates]
    /\ revocations \in SUBSET Jobs
    /\ faults \in SUBSET AllowedFaults

StateInit ==
    /\ record = [j \in Jobs |-> NoRecord]
    /\ idem = [k \in Keys |-> NoJob]
    /\ queued = {}
    /\ msgs = {}
    /\ backend = [j \in Jobs |-> "PENDING"]
    /\ revocations = {}
    /\ faults = {}

-----------------------------------------------------------------------------
\* A step in which failures of some kinds happen, and one in which none does.
Faults(kinds) == kinds \subseteq AllowedFaults /\ faults' = faults \cup kinds
Fault(kind) == Faults({kind})
NoFault == UNCHANGED faults

\* Single Redis commands on the records and the keys.
SetRecord(j, domain, cancelled) ==
    record' = [record EXCEPT ![j] = [domain |-> domain, cancelled |-> cancelled]]
DeleteRecord(j) == record' = [record EXCEPT ![j] = NoRecord]
BindKey(k, j) == idem' = [idem EXCEPT ![k] = j]

\* The tracker's two writes. A failed write is logged and swallowed: the caller
\* goes on, and the set is changed or not.
MarkQueued(j) ==
    \/ queued' = queued \cup {j} /\ NoFault
    \/ queued' \in {queued, queued \cup {j}} /\ Fault("tracker")
RemoveQueued(j) ==
    \/ queued' = queued \ {j} /\ NoFault
    \/ queued' \in {queued, queued \ {j}} /\ Fault("tracker")

\* Celery's Redis backend never overwrites SUCCESS; every other state it does.
StoreState(j, state) ==
    backend' = [backend EXCEPT ![j] = IF @ = "SUCCESS" THEN @ ELSE state]

\* Mutant: the task state is looked at before the flag.
_job_from_snapshot_StateFirst(rec, state) ==
    CASE state = "SUCCESS" -> "completed"
      [] state = "FAILURE" -> "failed"
      [] state \notin {"SUCCESS", "FAILURE"} /\ (rec.cancelled \/ state = "REVOKED") -> "cancelled"
      [] state \in {"STARTED", "RETRY", "PROGRESS"} /\ ~rec.cancelled -> "running"
      [] OTHER -> "queued"

\* The status a client is shown for a record and a task state.
_job_from_snapshot(rec, state) ==
    CASE rec.cancelled \/ state = "REVOKED" -> "cancelled"
      [] ~rec.cancelled /\ state = "SUCCESS" -> "completed"
      [] ~rec.cancelled /\ state = "FAILURE" -> "failed"
      [] ~rec.cancelled /\ state \in {"STARTED", "RETRY", "PROGRESS"} -> "running"
      [] OTHER -> "queued"

TerminalStatus == {"completed", "failed", "cancelled"}
Statuses == TerminalStatus \cup {"queued", "running"}
=============================================================================
