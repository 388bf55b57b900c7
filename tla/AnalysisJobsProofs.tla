-------------------------- MODULE AnalysisJobsProofs ---------------------------
(* Theorems about AnalysisJobs, for every set of jobs, clients, keys and      *)
(* children, every bound and every set of failures: the types, the ownership  *)
(* of idempotency keys and what a create is answered, and the tracker.  Each  *)
(* property is a consequence of an inductive invariant, proved one action at  *)
(* a time.                                                                    *)
EXTENDS AnalysisJobs, TLAPS

\* What TypeOK needs to be inductive: a call that touches its key has one, one
\* that works on a job has one, and so does a busy child.
WellFormed ==
    /\ \A j \in Jobs :
          call[j].pc \in {"setKey", "readKey", "readOwnKey", "deleteKey"}
              => KeyOf(j) # NoKey
    /\ \A p \in Callers :
          call[p].id = NoJob => call[p].pc = "idle" /\ call[p].reply = "none"
    /\ \A w \in Children : run[w].job = NoJob => run[w].pc = "idle"

\* The updates of the request table keep its type.
LEMMA CallTypes ==
    ASSUME call \in [Callers -> Calls], NEW p \in Callers
    PROVE  /\ \A pc \in PCs : Goto(p, pc) => call' \in [Callers -> Calls]
           /\ \A reply \in Replies : Answer(p, reply) => call' \in [Callers -> Calls]
           /\ \A reply \in Replies :
                 UnqueueThenAnswer(p, reply) => call' \in [Callers -> Calls]
<1>1. {"done", "idle", "unqueue"} \subseteq PCs
  BY DEF PCs, GetPCs
<1>2. ASSUME NEW pc \in PCs, Goto(p, pc) PROVE call' \in [Callers -> Calls]
  BY <1>2 DEF Goto, Calls
<1>3. ASSUME NEW reply \in Replies, Answer(p, reply) PROVE call' \in [Callers -> Calls]
  <2>1. PICK pc \in PCs : call' = [call EXCEPT ![p].pc = pc, ![p].reply = reply]
    BY <1>1, <1>3 DEF Answer
  <2>q. QED
    BY <2>1 DEF Calls
<1>4. ASSUME NEW reply \in Replies, UnqueueThenAnswer(p, reply)
      PROVE call' \in [Callers -> Calls]
  BY <1>1, <1>4 DEF UnqueueThenAnswer, Calls
<1>q. QED
  BY <1>2, <1>3, <1>4

\* A create that finds its key taken turns to the job the key names.
LEMMA RetargetTypes ==
    ASSUME call \in [Callers -> Calls], NEW p \in Callers, NEW pc \in PCs, NEW id \in Jobs,
           call' = [call EXCEPT ![p].pc = pc, ![p].id = id]
    PROVE  call' \in [Callers -> Calls]
BY DEF Calls

\* Redis commands on the records and keys keep their types.
LEMMA RecordTypes ==
    ASSUME record \in [Jobs -> Records \cup {NoRecord}], NEW j \in Jobs
    PROVE  /\ \A d \in Domains, c \in BOOLEAN :
                 SetRecord(j, d, c) => record' \in [Jobs -> Records \cup {NoRecord}]
           /\ DeleteRecord(j) => record' \in [Jobs -> Records \cup {NoRecord}]
<1>1. ASSUME NEW d \in Domains, NEW c \in BOOLEAN, SetRecord(j, d, c)
      PROVE  record' \in [Jobs -> Records \cup {NoRecord}]
  <2>1. [domain |-> d, cancelled |-> c] \in Records
    BY DEF Records
  <2>q. QED
    BY <1>1, <2>1 DEF SetRecord
<1>2. ASSUME DeleteRecord(j) PROVE record' \in [Jobs -> Records \cup {NoRecord}]
  BY <1>2 DEF DeleteRecord
<1>q. QED
  BY <1>1, <1>2

\* The steps of a create call keep the types.
LEMMA CreateTypes ==
    ASSUME TypeOK, WellFormed, NEW j \in Jobs, CreateStep(j)
    PROVE  TypeOK'
<1> USE JobAssumption DEF TypeOK, StateTypeOK, ServiceTypeOK, TaskTypeOK,
        storeVars, brokerVars, taskVars, leaseVars, serviceVars, Fault, Faults, NoFault
<1>0. /\ j \in Callers
      /\ DomainOf(j) \in Domains
      /\ KeyOf(j) # NoKey => KeyOf(j) \in Keys
      /\ CreatePCs \cup GetPCs \subseteq PCs
      /\ {"unavailable", "error", "missing", "conflict", "queued"} \subseteq Replies
  BY DEF Callers, DomainOf, KeyOf, Requests, PCs, Replies, Statuses
<1>1. CASE ReserveRecord(j)
  BY <1>0, <1>1, CallTypes, RecordTypes DEF ReserveRecord, CreatePCs, GetPCs
<1>2. CASE ReserveKey(j)
  BY <1>0, <1>2, CallTypes DEF ReserveKey, CreatePCs, GetPCs, BindKey
<1>3. CASE ReadKey(j)
  <2>1. call' \in [Callers -> Calls]
    <3>1. CASE call' = [call EXCEPT ![j].pc = "dropRecord", ![j].id = idem[KeyOf(j)]]
               /\ idem[KeyOf(j)] # NoJob
      <4>0. KeyOf(j) # NoKey
        BY <1>3 DEF ReadKey, WellFormed, At
      <4>1. "dropRecord" \in PCs /\ idem[KeyOf(j)] \in Jobs
        BY <1>0, <3>1, <4>0 DEF CreatePCs
      <4>q. QED
        BY <1>0, <3>1, <4>1, RetargetTypes
    <3>q. QED
      BY <1>0, <1>3, <3>1, CallTypes DEF ReadKey, CreatePCs
  <2>q. QED
    BY <1>3, <2>1 DEF ReadKey
<1>4. CASE DropRecord(j)
  BY <1>0, <1>4, CallTypes, RecordTypes DEF DropRecord, CreatePCs, GetPCs
<1>5. CASE AbortReserve(j)
  BY <1>0, <1>5, CallTypes, RecordTypes DEF AbortReserve, CreatePCs, GetPCs
<1>6. CASE LookupExisting(j)
  BY <1>0, <1>6, CallTypes DEF LookupExisting, CreatePCs, GetPCs
<1>7. CASE MarkAnalysisQueued(j)
  BY <1>0, <1>7, CallTypes DEF MarkAnalysisQueued, CreatePCs, GetPCs, MarkQueued
<1>8. CASE Enqueue(j)
  BY <1>0, <1>8, CallTypes DEF Enqueue, CreatePCs, GetPCs, Messages
<1>9. CASE UnmarkQueued(j)
  BY <1>0, <1>9, CallTypes DEF UnmarkQueued, CreatePCs, GetPCs, RemoveQueued
<1>10. CASE DeleteOwnRecord(j)
  BY <1>0, <1>10, CallTypes, RecordTypes DEF DeleteOwnRecord, CreatePCs, GetPCs
<1>11. CASE ReadOwnKey(j)
  BY <1>0, <1>11, CallTypes DEF ReadOwnKey, CreatePCs, GetPCs
<1>12. CASE DeleteOwnKey(j)
  BY <1>0, <1>12, CallTypes DEF DeleteOwnKey, CreatePCs, GetPCs, BindKey
<1>q. QED
  BY <1>1, <1>2, <1>3, <1>4, <1>5, <1>6, <1>7, <1>8, <1>9, <1>10, <1>11, <1>12 DEF CreateStep

\* The steps of get and cancel keep the types.
LEMMA RequestTypes ==
    ASSUME TypeOK, WellFormed, NEW p \in Callers,
           GetStep(p) \/ CancelStep(p) \/ RequestFails(p)
    PROVE  TypeOK'
<1> USE JobAssumption DEF TypeOK, StateTypeOK, ServiceTypeOK, TaskTypeOK,
        storeVars, brokerVars, taskVars, leaseVars, serviceVars, Fault, Faults, NoFault
<1>0. /\ Target(p) # NoJob => Target(p) \in Jobs /\ DomainOf(Target(p)) \in Domains
      /\ GetPCs \cup CancelPCs \subseteq PCs
      /\ {"unavailable", "error", "missing"} \cup Statuses \subseteq Replies
      /\ "cancelled" \in Statuses
      /\ call[p].reply \in Replies
      /\ \A rec, state : _job_from_snapshot(rec, state) \in Statuses
  BY DEF Target, DomainOf, Requests, Calls, PCs, Replies, Statuses, TerminalStatus,
     _job_from_snapshot
<1>1. Target(p) \in Jobs \/ At(p, "idle")
  BY <1>0 DEF WellFormed, Target, At
<1>2. CASE GetRecord(p)
  BY <1>0, <1>1, <1>2, CallTypes DEF GetRecord, GetPCs, CancelPCs, At
<1>3. CASE GetSnapshot(p)
  BY <1>0, <1>1, <1>3, CallTypes DEF GetSnapshot, GetPCs, CancelPCs, At
<1>4. CASE RemoveFromQueue(p)
  BY <1>0, <1>1, <1>4, CallTypes DEF RemoveFromQueue, GetPCs, CancelPCs, At, RemoveQueued
<1>5. CASE CancelRecord(p)
  BY <1>0, <1>1, <1>5, CallTypes DEF CancelRecord, GetPCs, CancelPCs, At
<1>6. CASE CancelSnapshot(p)
  BY <1>0, <1>1, <1>6, CallTypes DEF CancelSnapshot, GetPCs, CancelPCs, At
<1>7. CASE ReadFlag(p)
  BY <1>0, <1>1, <1>7, CallTypes DEF ReadFlag, GetPCs, CancelPCs, At
<1>8. CASE WriteFlag(p)
  BY <1>0, <1>1, <1>8, CallTypes, RecordTypes DEF WriteFlag, GetPCs, CancelPCs, At
<1>9. CASE Revoke(p)
  BY <1>0, <1>1, <1>9, CallTypes DEF Revoke, GetPCs, CancelPCs, At
<1>10. CASE WriteUndo(p)
  BY <1>0, <1>1, <1>10, CallTypes, RecordTypes DEF WriteUndo, GetPCs, CancelPCs, At
<1>11. CASE RequestFails(p)
  BY <1>0, <1>1, <1>11, CallTypes, RecordTypes DEF RequestFails, GetPCs, CancelPCs, At
<1>q. QED
  BY <1>2, <1>3, <1>4, <1>5, <1>6, <1>7, <1>8, <1>9, <1>10, <1>11 DEF GetStep, CancelStep

\* A client's next request and the expiries keep the types.
LEMMA ClientTypes ==
    ASSUME TypeOK, (\E p \in Clients, j \in Jobs : ClientAsks(p, j)) \/ Expiry
    PROVE  TypeOK'
<1> USE JobAssumption DEF TypeOK, StateTypeOK, ServiceTypeOK, TaskTypeOK,
        storeVars, brokerVars, taskVars, leaseVars, serviceVars, Fault, Faults, NoFault
<1>1. ASSUME NEW p \in Clients, NEW j \in Jobs, ClientAsks(p, j) PROVE TypeOK'
  <2>1. p \in Callers /\ {"get", "cancel"} \subseteq PCs
    BY DEF Callers, PCs, GetPCs, CancelPCs
  <2>2. call' \in [Callers -> Calls]
    BY <1>1, <2>1 DEF ClientAsks, Calls
  <2>q. QED
    BY <1>1, <2>2 DEF ClientAsks
<1>2. ASSUME NEW j \in Jobs, ExpireRecord(j) \/ ExpireTracked(j) PROVE TypeOK'
  BY <1>2, RecordTypes DEF ExpireRecord, ExpireTracked
<1>3. ASSUME NEW k \in Keys, ExpireKey(k) PROVE TypeOK'
  BY <1>3 DEF ExpireKey, BindKey
<1>q. QED
  BY <1>1, <1>2, <1>3 DEF Expiry

\* The updates of the worker's children and of the task states keep their types.
LEMMA RunTypes ==
    ASSUME run \in [Children -> TaskRuns], NEW w \in Children
    PROVE  /\ \A pc \in RunPCs : Proceed(w, pc) => run' \in [Children -> TaskRuns]
           /\ \A pc \in RunPCs, outcome \in Outcomes :
                 Finish(w, pc, outcome) => run' \in [Children -> TaskRuns]
           /\ Stop(w) => run' \in [Children -> TaskRuns]
           /\ Idle \in TaskRuns
<1>1. ASSUME NEW pc \in RunPCs, Proceed(w, pc) PROVE run' \in [Children -> TaskRuns]
  BY <1>1 DEF Proceed, TaskRuns
<1>2. ASSUME NEW pc \in RunPCs, NEW outcome \in Outcomes, Finish(w, pc, outcome)
      PROVE run' \in [Children -> TaskRuns]
  BY <1>2 DEF Finish, TaskRuns
<1>3. Idle \in TaskRuns
  BY JobAssumption DEF Idle, TaskRuns, RunPCs, Outcomes
<1>4. ASSUME Stop(w) PROVE run' \in [Children -> TaskRuns]
  BY <1>3, <1>4 DEF Stop
<1>q. QED
  BY <1>1, <1>2, <1>3, <1>4

\* Storing a task state keeps the type of the result backend.
LEMMA BackendTypes ==
    ASSUME backend \in [Jobs -> TaskStates], NEW j \in Jobs, NEW state \in TaskStates,
           StoreState(j, state)
    PROVE  backend' \in [Jobs -> TaskStates]
BY DEF StoreState

\* The steps of the worker keep the types.
LEMMA TaskTypes ==
    ASSUME TypeOK, WellFormed, TaskNext
    PROVE  TypeOK'
<1> USE JobAssumption DEF TypeOK, StateTypeOK, ServiceTypeOK, TaskTypeOK,
        storeVars, brokerVars, taskVars, leaseVars, serviceVars, Fault, Faults, NoFault
<1>0. \A w \in Children : Runs(w, "idle") \/ (run[w].job \in Jobs /\ Held(w) \in Messages)
  BY DEF Runs, WellFormed, TaskRuns, Held, Messages
<1>a. RunPCs = {"idle", "initial", "acquire", "started", "analyzing", "releasing",
                "retry", "store", "ack"}
      /\ {"PENDING", "STARTED", "PROGRESS", "RETRY", "SUCCESS", "FAILURE", "REVOKED"}
            \subseteq TaskStates
      /\ Outcomes = {"none", "completed", "failed", "retry"}
  BY DEF RunPCs, TaskStates, Outcomes
<1>1. ASSUME NEW m \in msgs, Discard(m) PROVE TypeOK'
  BY <1>a, <1>1, BackendTypes DEF Discard, Messages
<1>2. ASSUME NEW m \in msgs, NEW w \in Children, Receive(w, m) PROVE TypeOK'
  <2>1. m \in Messages
    OBVIOUS
  <2>2. [pc |-> "initial", job |-> m.job, attempt |-> m.attempt, outcome |-> "none"] \in TaskRuns
    BY <1>a, <2>1 DEF TaskRuns, Messages
  <2>3. backend' \in [Jobs -> TaskStates]
    BY <1>a, <1>2, <2>1, BackendTypes DEF Receive, Messages
  <2>q. QED
    BY <1>2, <2>2, <2>3 DEF Receive
<1>3. ASSUME NEW w \in Children, PublishInitial(w) PROVE TypeOK'
  BY <1>0, <1>a, <1>3, RunTypes, BackendTypes DEF PublishInitial, Runs
<1>4. ASSUME NEW w \in Children, Acquire(w) PROVE TypeOK'
  BY <1>0, <1>a, <1>4, RunTypes DEF Acquire, Runs
<1>5. ASSUME NEW w \in Children, MarkAnalysisStarted(w) PROVE TypeOK'
  BY <1>0, <1>a, <1>5, RunTypes DEF MarkAnalysisStarted, Runs, RemoveQueued
<1>6. ASSUME NEW w \in Children, Analyze(w) PROVE TypeOK'
  BY <1>0, <1>a, <1>6, RunTypes DEF Analyze, Runs
<1>7. ASSUME NEW w \in Children, Release(w) PROVE TypeOK'
  BY <1>0, <1>a, <1>7, RunTypes DEF Release, Runs, LeaseGoes, Inside
<1>8. ASSUME NEW w \in Children, Retry(w) PROVE TypeOK'
  <2>1. run[w].attempt < MaxRetries =>
          [job |-> run[w].job, attempt |-> run[w].attempt + 1] \in Messages
    BY <1>0, <1>8 DEF Retry, Runs, Messages, TaskRuns
  <2>2. msgs' \in SUBSET Messages
    BY <1>8, <2>1 DEF Retry
  <2>3. run' \in [Children -> TaskRuns]
    BY <1>a, <1>8, RunTypes DEF Retry
  <2>q. QED
    BY <1>8, <2>2, <2>3 DEF Retry
<1>9. ASSUME NEW w \in Children, StoreOutcome(w) PROVE TypeOK'
  BY <1>0, <1>a, <1>9, RunTypes, BackendTypes DEF StoreOutcome, Runs
<1>10. ASSUME NEW w \in Children, Acknowledge(w) PROVE TypeOK'
  BY <1>0, <1>a, <1>10, RunTypes DEF Acknowledge, Runs, Stop
<1>11. ASSUME NEW w \in Children, ReportProgress(w) PROVE TypeOK'
  BY <1>0, <1>a, <1>11, RunTypes, BackendTypes DEF ReportProgress, Runs
<1>12. ASSUME NEW w \in Children, ChildLost(w) PROVE TypeOK'
  BY <1>0, <1>a, <1>12, RunTypes DEF ChildLost, Runs, Stop, Busy
<1>13. ASSUME NEW w \in Children, HardTimeLimit(w) PROVE TypeOK'
  BY <1>0, <1>a, <1>13, RunTypes, BackendTypes DEF HardTimeLimit, Runs, Stop
<1>14. ASSUME NEW j \in Jobs, HandleRevocation(j) PROVE TypeOK'
  BY <1>a, <1>14, RunTypes, BackendTypes DEF HandleRevocation
<1>15. ASSUME NEW j \in Jobs, LoseRevocation(j) \/ ExpireLease(j) \/ OutliveLease(j) \/ ExpireResult(j) PROVE TypeOK'
  BY <1>a, <1>15 DEF LoseRevocation, ExpireLease, OutliveLease, LeaseGoes, Inside, ExpireResult
<1>16. ASSUME WorkerRestart PROVE TypeOK'
  BY <1>0, <1>16, RunTypes DEF WorkerRestart, Busy
<1>q. QED
  BY <1>1, <1>2, <1>3, <1>4, <1>5, <1>6, <1>7, <1>8, <1>9, <1>10, <1>11, <1>12, <1>13, <1>14, <1>15, <1>16 DEF TaskNext, Deliver, Loss, RunStep

-----------------------------------------------------------------------------
\* A request changes its own entry of the request table alone, and keeps the job
\* it works on, but for a create call that finds its key taken.
LEMMA CreateFrame ==
    ASSUME TypeOK, NEW j \in Jobs, CreateStep(j)
    PROVE  /\ \A q \in Callers \ {j} : call'[q] = call[q]
           /\ ~ReadKey(j) => call'[j].id = call[j].id
           /\ call[j].pc \in CreatePCs
           /\ UNCHANGED <<request, run, slots, overrun, revokedIds, revocations, backend>>
<1> USE DEF TypeOK, ServiceTypeOK, Callers, brokerVars, taskVars, leaseVars
<1>1. ASSUME NEW pc, Goto(j, pc)
      PROVE  call'[j].id = call[j].id /\ \A q \in Callers \ {j} : call'[q] = call[q]
  BY <1>1 DEF Goto, Calls
<1>2. ASSUME NEW reply, Answer(j, reply)
      PROVE  call'[j].id = call[j].id /\ \A q \in Callers \ {j} : call'[q] = call[q]
  BY <1>2 DEF Answer, Calls
<1>3. ASSUME ~ReadKey(j)
      PROVE  call'[j].id = call[j].id /\ \A q \in Callers \ {j} : call'[q] = call[q]
  BY <1>1, <1>2, <1>3 DEF CreateStep, ReserveRecord, ReserveKey, DropRecord, AbortReserve,
     LookupExisting, MarkAnalysisQueued, Enqueue, UnmarkQueued, DeleteOwnRecord, ReadOwnKey,
     DeleteOwnKey
<1>4. ASSUME ReadKey(j) PROVE \A q \in Callers \ {j} : call'[q] = call[q]
  BY <1>1, <1>4 DEF ReadKey
<1>5. UNCHANGED <<request, run, slots, overrun, revokedIds, revocations, backend>>
  BY DEF CreateStep, ReserveRecord, ReserveKey, ReadKey, DropRecord, AbortReserve,
     LookupExisting, MarkAnalysisQueued, Enqueue, UnmarkQueued, DeleteOwnRecord, ReadOwnKey,
     DeleteOwnKey
<1>6. call[j].pc \in CreatePCs
  BY DEF CreateStep, ReserveRecord, ReserveKey, ReadKey, DropRecord, AbortReserve,
     LookupExisting, MarkAnalysisQueued, Enqueue, UnmarkQueued, DeleteOwnRecord, ReadOwnKey,
     DeleteOwnKey, At, CreatePCs
<1>q. QED
  BY <1>3, <1>4, <1>5, <1>6

\* A step of a get or a cancel moves its own call only, within the program points of
\* the two handlers, and leaves keys, messages and runs alone.
LEMMA RequestFrame ==
    ASSUME TypeOK, NEW p \in Callers, GetStep(p) \/ CancelStep(p) \/ RequestFails(p)
    PROVE  /\ \A q \in Callers \ {p} : call'[q] = call[q]
           /\ call'[p].id = call[p].id
           /\ call[p].pc \in GetPCs \cup CancelPCs \cup {"lookup"}
           /\ call'[p].pc \in GetPCs \cup CancelPCs \cup {"idle", "done"}
           /\ UNCHANGED <<request, idem, msgs, backend, run, slots, overrun, revokedIds>>
<1> USE DEF TypeOK, ServiceTypeOK, brokerVars, taskVars, leaseVars, storeVars
<1>1. ASSUME NEW pc, Goto(p, pc)
      PROVE  /\ call'[p].id = call[p].id /\ call'[p].pc = pc
             /\ \A q \in Callers \ {p} : call'[q] = call[q]
  BY <1>1 DEF Goto, Calls
<1>2. ASSUME NEW reply, Answer(p, reply)
      PROVE  /\ call'[p].id = call[p].id /\ call'[p].pc \in {"idle", "done"}
             /\ \A q \in Callers \ {p} : call'[q] = call[q]
  BY <1>2 DEF Answer, Calls
<1>3. ASSUME NEW reply, UnqueueThenAnswer(p, reply)
      PROVE  /\ call'[p].id = call[p].id /\ call'[p].pc = "unqueue"
             /\ \A q \in Callers \ {p} : call'[q] = call[q]
  BY <1>3 DEF UnqueueThenAnswer, Calls
<1>4. CASE GetStep(p)
  BY <1>1, <1>2, <1>3, <1>4 DEF GetStep, GetRecord, GetSnapshot, RemoveFromQueue, At, GetPCs
<1>5. CASE CancelStep(p)
  BY <1>1, <1>2, <1>3, <1>5 DEF CancelStep, CancelRecord, CancelSnapshot, ReadFlag, WriteFlag,
     Revoke, WriteUndo, At, GetPCs, CancelPCs
<1>6. CASE RequestFails(p)
  BY <1>2, <1>6 DEF RequestFails, GetPCs
<1>q. QED
  BY <1>4, <1>5, <1>6

Kept(w) ==
    \/ run'[w] = Idle
    \/ /\ run'[w].job = run[w].job
       /\ run[w].pc = "idle" => run'[w].pc = "idle"
    \/ /\ run'[w].pc = "initial"
       /\ \E m \in msgs : run'[w].job = m.job

\* The worker leaves the requests, the records and the keys alone. A child that
\* is busy after a step was busy with that job before, or has just received it.
LEMMA TaskFrame ==
    ASSUME TypeOK, TaskNext
    PROVE  /\ UNCHANGED <<request, call, record, idem>>
           /\ queued' \subseteq queued
           /\ \A w \in Children : Kept(w)
<1> USE DEF TypeOK, TaskTypeOK, taskVars, leaseVars, serviceVars, storeVars
<1>0. ASSUME NEW w \in Children
      PROVE  /\ \A pc : Proceed(w, pc) => run'[w].job = run[w].job
             /\ \A pc, outcome : Finish(w, pc, outcome) => run'[w].job = run[w].job
             /\ \A v \in Children \ {w} :
                   (\E pc, outcome : Proceed(w, pc) \/ Finish(w, pc, outcome) \/ Stop(w))
                      => run'[v] = run[v]
             /\ Stop(w) => run'[w] = Idle
  BY DEF Proceed, Finish, Stop, TaskRuns
<1>1. ASSUME NEW w \in Children, RunStep(w) \/ ReportProgress(w) \/ ChildLost(w) \/ HardTimeLimit(w)
      PROVE  \A v \in Children : Kept(v)
  <2>1. \A v \in Children \ {w} : run'[v] = run[v]
    BY <1>0, <1>1 DEF RunStep, PublishInitial, Acquire, MarkAnalysisStarted, Analyze, Release,
       Retry, StoreOutcome, Acknowledge, ReportProgress, ChildLost, HardTimeLimit
  <2>2. Kept(w)
    <3>1. ASSUME NEW pc, Proceed(w, pc), ~Runs(w, "idle") PROVE Kept(w)
      BY <1>0, <3>1 DEF Runs, Kept, TaskRuns
    <3>2. ASSUME NEW pc, NEW outcome, Finish(w, pc, outcome), ~Runs(w, "idle") PROVE Kept(w)
      BY <1>0, <3>2 DEF Runs, Kept, TaskRuns
    <3>3. ASSUME Stop(w) PROVE Kept(w)
      BY <1>0, <3>3 DEF Kept
    <3>4. ASSUME NEW pc \in RunPCs \ {"idle"}, Runs(w, pc) PROVE ~Runs(w, "idle")
      BY <3>4 DEF Runs
    <3>5. RunPCs \ {"idle"} = {"initial", "acquire", "started", "analyzing", "releasing",
                              "retry", "store", "ack"}
      BY DEF RunPCs
    <3>6. CASE PublishInitial(w) \/ Acquire(w) \/ MarkAnalysisStarted(w) \/ Release(w) \/ StoreOutcome(w)
      BY <3>1, <3>4, <3>5, <3>6 DEF PublishInitial, Acquire, MarkAnalysisStarted, Release, StoreOutcome
    <3>7. CASE Analyze(w) \/ Retry(w)
      BY <3>2, <3>4, <3>5, <3>7 DEF Analyze, Retry
    <3>8. CASE Acknowledge(w) \/ ChildLost(w) \/ HardTimeLimit(w)
      BY <3>3, <3>8 DEF Acknowledge, ChildLost, HardTimeLimit
    <3>9. CASE ReportProgress(w)
      BY <3>9 DEF ReportProgress, Kept
    <3>q. QED
      BY <1>1, <3>6, <3>7, <3>8, <3>9 DEF RunStep
  <2>q. QED
    BY <2>1, <2>2 DEF Kept
<1>2. ASSUME NEW m \in msgs, Discard(m) \/ \E w \in Children : Receive(w, m)
      PROVE  \A v \in Children : Kept(v)
  BY <1>2 DEF Discard, Receive, Kept
<1>3. ASSUME NEW j \in Jobs, HandleRevocation(j) \/ LoseRevocation(j) \/ ExpireLease(j) \/ OutliveLease(j) \/ ExpireResult(j)
      PROVE  \A v \in Children : Kept(v)
  BY <1>3 DEF HandleRevocation, LoseRevocation, ExpireLease, OutliveLease, LeaseGoes, ExpireResult, Kept
<1>4. CASE WorkerRestart
  BY <1>4 DEF WorkerRestart, Kept
<1>5. \A v \in Children : Kept(v)
  BY <1>1, <1>2, <1>3, <1>4 DEF TaskNext, Deliver, Loss
<1>6. UNCHANGED <<request, call, record, idem>> /\ queued' \subseteq queued
  BY DEF TaskNext, Deliver, Discard, Receive, RunStep, PublishInitial, Acquire,
     MarkAnalysisStarted, Analyze, Release, Retry, StoreOutcome, Acknowledge, ReportProgress,
     HandleRevocation, ExpireLease, OutliveLease, LeaseGoes, Loss, WorkerRestart, ChildLost, HardTimeLimit,
     LoseRevocation, ExpireResult, RemoveQueued
<1>q. QED
  BY <1>5, <1>6

\* WellFormed is inductive.
LEMMA WellFormedStep ==
    ASSUME TypeOK, WellFormed, Next
    PROVE  WellFormed'
<1> USE DEF TypeOK, ServiceTypeOK, TaskTypeOK, Callers
<1>1. ASSUME NEW j \in Jobs, CreateStep(j) PROVE WellFormed'
  <2>0. call[j].id # NoJob
    BY <1>1, CreateFrame DEF WellFormed, CreatePCs
  <2>1. call'[j].id # NoJob
    <3>1. \A pc : Goto(j, pc) => call'[j].id = call[j].id
      BY DEF Goto, Calls
    <3>2. ASSUME ReadKey(j) PROVE call'[j].id # NoJob
      <4>1. CASE call' = [call EXCEPT ![j].pc = "dropRecord", ![j].id = idem[KeyOf(j)]]
                 /\ idem[KeyOf(j)] # NoJob
        BY <4>1 DEF Calls
      <4>q. QED
        BY <2>0, <3>1, <3>2, <4>1 DEF ReadKey
    <3>q. QED
      BY <1>1, <2>0, <3>2, CreateFrame
  <2>2. call'[j].pc \in {"setKey", "readKey", "readOwnKey", "deleteKey"} => KeyOf(j) # NoKey
    <3>1. \A pc : Goto(j, pc) => call'[j].pc = pc
      BY DEF Goto, Calls
    <3>2. \A reply : Answer(j, reply) => call'[j].pc = "done"
      BY DEF Answer, Calls
    <3>3. CASE ReserveRecord(j) \/ ReserveKey(j) \/ DeleteOwnRecord(j) \/ ReadOwnKey(j)
      BY <3>1, <3>2, <3>3 DEF WellFormed, ReserveRecord, ReserveKey, DeleteOwnRecord,
         ReadOwnKey, At
    <3>4. CASE ReadKey(j)
      BY <3>1, <3>4 DEF ReadKey, Calls
    <3>q. QED
      BY <1>1, <3>1, <3>2, <3>3, <3>4 DEF CreateStep, DropRecord, AbortReserve,
         LookupExisting, MarkAnalysisQueued, Enqueue, UnmarkQueued, DeleteOwnKey
  <2>q. QED
    BY <1>1, <2>1, <2>2, CreateFrame DEF WellFormed, KeyOf
<1>2. ASSUME NEW p \in Callers, GetStep(p) \/ CancelStep(p) \/ RequestFails(p)
      PROVE  WellFormed'
  BY <1>2, RequestFrame DEF WellFormed, KeyOf, GetPCs, CancelPCs
<1>3. ASSUME NEW p \in Clients, NEW j \in Jobs, ClientAsks(p, j) PROVE WellFormed'
  BY <1>3, JobAssumption DEF WellFormed, ClientAsks, Calls, KeyOf, taskVars, leaseVars
<1>4. CASE Expiry
  BY <1>4 DEF WellFormed, Expiry, ExpireRecord, ExpireTracked, ExpireKey, serviceVars,
     taskVars, leaseVars, KeyOf
<1>5. CASE TaskNext
  <2>1. call' = call /\ request' = request
    BY <1>5, TaskFrame
  <2>2. \A w \in Children : run'[w].job = NoJob => run'[w].pc = "idle"
    BY <1>5, TaskFrame, JobAssumption DEF WellFormed, Kept, Idle, StateTypeOK, Messages
  <2>q. QED
    BY <2>1, <2>2 DEF WellFormed, KeyOf
<1>q. QED
  BY <1>1, <1>2, <1>3, <1>4, <1>5 DEF Next, ServiceNext

\* TypeOK with what makes it inductive.
LEMMA TypeInvariant == Spec => [](TypeOK /\ WellFormed)
<1>1. Init => TypeOK /\ WellFormed
  <2>1. ASSUME Init PROVE ServiceTypeOK
    BY <2>1, JobAssumption DEF Init, ServiceInit, ServiceTypeOK, Calls, Callers, PCs, CreatePCs,
       Replies
  <2>2. ASSUME Init PROVE TaskTypeOK
    BY <2>2, JobAssumption DEF Init, TaskInit, TaskTypeOK, TaskRuns, RunPCs, Outcomes, Idle
  <2>3. ASSUME Init PROVE StateTypeOK
    BY <2>3, JobAssumption DEF Init, StateInit, StateTypeOK, TaskStates
  <2>4. ASSUME Init PROVE WellFormed
    BY <2>4, JobAssumption DEF Init, ServiceInit, TaskInit, WellFormed, Callers, Idle
  <2>q. QED
    BY <2>1, <2>2, <2>3, <2>4 DEF TypeOK
<1>2. TypeOK /\ WellFormed /\ [Next]_vars => TypeOK' /\ WellFormed'
  <2>1. ASSUME TypeOK, WellFormed, Next PROVE TypeOK' /\ WellFormed'
    BY <2>1, CreateTypes, RequestTypes, ClientTypes, TaskTypes, WellFormedStep
       DEF Next, ServiceNext
  <2>2. ASSUME TypeOK, WellFormed, UNCHANGED vars PROVE TypeOK' /\ WellFormed'
    BY <2>2 DEF TypeOK, StateTypeOK, ServiceTypeOK, TaskTypeOK, WellFormed, KeyOf, vars,
       storeVars, brokerVars, serviceVars, taskVars, leaseVars
  <2>q. QED
    BY <2>1, <2>2
<1>q. QED
  BY <1>1, <1>2, PTL DEF Spec

\* Every variable keeps its type in every reachable state, whatever fails.
THEOREM TypeCorrect == Spec => []TypeOK
BY TypeInvariant, PTL
-----------------------------------------------------------------------------
(* The safety theorems of create and of the tracker.                          *)

\* What the updates of the request table do to the entry they touch.
LEMMA CallUpdates ==
    ASSUME TypeOK, NEW p \in Callers
    PROVE  /\ \A pc : Goto(p, pc) =>
                 /\ call'[p].pc = pc
                 /\ call'[p].reply = call[p].reply
                 /\ call'[p].id = call[p].id
           /\ \A reply : Answer(p, reply) =>
                 /\ call'[p].pc = IF p \in Jobs THEN "done" ELSE "idle"
                 /\ call'[p].reply = reply
                 /\ call'[p].id = call[p].id
           /\ \A reply : UnqueueThenAnswer(p, reply) =>
                 /\ call'[p].pc = "unqueue"
                 /\ call'[p].reply = reply
                 /\ call'[p].id = call[p].id
BY DEF TypeOK, ServiceTypeOK, Calls, Goto, Answer, UnqueueThenAnswer

-----------------------------------------------------------------------------
\* The creates that hold their key: from SET NX until the rollback is over.
KeyOwner(j) ==
    \/ call[j].pc \in {"mark", "enqueue", "unmark", "deleteRecord", "readOwnKey", "deleteKey"}
    \/ Accepted(j)

\* A key names its owner until it expires; a key is bound by SET NX alone; a
\* create that lost its key works on another's job.
KeyInvOf(j) ==
    /\ (KeyOwner(j) /\ KeyOf(j) # NoKey /\ NoneOf({"expiry"})) => idem[KeyOf(j)] = j
    /\ call[j].pc \in {"start", "setKey", "readKey"} => \A k \in Keys : idem[k] # j
    /\ call[j].pc \notin CancelPCs \cup {"idle"}
    /\ call[j].pc \in GetPCs \cup {"dropRecord", "lookup"} => call[j].id # j
KeyInv == \A j \in Jobs : KeyInvOf(j)

\* A create call keeps the invariant of every create.
LEMMA KeyInvCreate ==
    ASSUME TypeOK, WellFormed, KeyInv, NEW j \in Jobs, CreateStep(j)
    PROVE  KeyInv'
<1> USE JobAssumption DEF TypeOK, StateTypeOK
<1>0. j \in Callers /\ Jobs \subseteq Callers /\ KeyInvOf(j)
  BY DEF Callers, KeyInv
<1>1. \A i \in Jobs \ {j} : call'[i] = call[i]
  BY <1>0, CreateFrame
<1>2. UNCHANGED request /\ faults \subseteq faults'
  BY CreateFrame DEF CreateStep, ReserveRecord, ReserveKey, ReadKey, DropRecord, AbortReserve,
     LookupExisting, MarkAnalysisQueued, Enqueue, UnmarkQueued, DeleteOwnRecord, ReadOwnKey,
     DeleteOwnKey, Fault, Faults, NoFault, MarkQueued, RemoveQueued
<1>3. \/ idem' = idem
      \/ idem[KeyOf(j)] = NoJob /\ At(j, "setKey") /\ BindKey(KeyOf(j), j)
      \/ At(j, "deleteKey") /\ BindKey(KeyOf(j), NoJob)
  BY DEF CreateStep, ReserveRecord, ReserveKey, ReadKey, DropRecord, AbortReserve,
     LookupExisting, MarkAnalysisQueued, Enqueue, UnmarkQueued, DeleteOwnRecord, ReadOwnKey,
     DeleteOwnKey, storeVars
<1>4. KeyOf(j)' = KeyOf(j) /\ \A i \in Jobs : KeyOf(i)' = KeyOf(i)
  BY <1>2 DEF KeyOf
<1>5. NoneOf({"expiry"})' => NoneOf({"expiry"})
  BY <1>2 DEF NoneOf
<1>6. ASSUME NEW i \in Jobs \ {j} PROVE KeyInvOf(i)'
  <2>1. KeyInvOf(i)
    BY DEF KeyInv
  <2>2. KeyOwner(i)' = KeyOwner(i)
    BY <1>1 DEF KeyOwner, Accepted, At
  <2>3. \A k \in Keys : idem[k] # i => idem'[k] # i
    BY <1>3 DEF BindKey
  <2>4. ASSUME KeyOwner(i), KeyOf(i) # NoKey, NoneOf({"expiry"}) PROVE idem'[KeyOf(i)] = i
    <3>1. idem[KeyOf(i)] = i /\ KeyOf(i) \in Keys
      BY <2>1, <2>4 DEF KeyInvOf, KeyOf, ServiceTypeOK, Requests
    <3>2. At(j, "deleteKey") => KeyOf(j) # KeyOf(i)
      BY <1>0, <2>4, <3>1 DEF KeyInvOf, KeyOwner, At
    <3>q. QED
      BY <1>3, <3>1, <3>2 DEF BindKey
  <2>q. QED
    BY <1>1, <1>4, <1>5, <2>1, <2>2, <2>3, <2>4 DEF KeyInvOf
<1>7. KeyInvOf(j)'
  <2>1. CASE ReserveRecord(j)
    <3>1. \/ call'[j].pc = "mark" /\ KeyOf(j) = NoKey
          \/ call'[j].pc = "setKey"
          \/ call'[j].pc = "done" /\ call'[j].reply = "unavailable"
      <4>1. ASSUME Goto(j, IF KeyOf(j) = NoKey THEN "mark" ELSE "setKey")
            PROVE  \/ call'[j].pc = "mark" /\ KeyOf(j) = NoKey
                   \/ call'[j].pc = "setKey"
        <5>1. CASE KeyOf(j) = NoKey
          BY <1>0, <4>1, <5>1, CallUpdates
        <5>2. CASE KeyOf(j) # NoKey
          BY <1>0, <4>1, <5>2, CallUpdates
        <5>q. QED
          BY <5>1, <5>2
      <4>2. ASSUME Answer(j, "unavailable")
            PROVE  call'[j].pc = "done" /\ call'[j].reply = "unavailable"
        BY <1>0, <4>2, CallUpdates
      <4>q. QED
        BY <2>1, <4>1, <4>2 DEF ReserveRecord
    <3>q. QED
      BY <1>0, <1>4, <2>1, <3>1 DEF ReserveRecord, KeyInvOf, KeyOwner, Accepted, At, GetPCs,
         CancelPCs
  <2>2. CASE ReserveKey(j)
    <3>0. KeyOf(j) \in Keys
      BY <2>2 DEF ReserveKey, At, WellFormed, KeyOf, ServiceTypeOK, Requests
    <3>1. \/ call'[j].pc = "mark" /\ idem'[KeyOf(j)] = j
          \/ call'[j].pc = "readKey" /\ idem' = idem
          \/ call'[j].pc = "abort"
      BY <1>0, <2>2, <3>0, CallUpdates DEF ReserveKey, BindKey
    <3>q. QED
      BY <1>0, <1>4, <2>2, <3>1 DEF ReserveKey, KeyInvOf, KeyOwner, Accepted, At, GetPCs,
         CancelPCs
  <2>3. CASE ReadKey(j)
    <3>0. KeyOf(j) \in Keys
      BY <2>3 DEF ReadKey, At, WellFormed, KeyOf, ServiceTypeOK, Requests
    <3>1. \/ call'[j].pc = "dropRecord" /\ call'[j].id = idem[KeyOf(j)]
          \/ call'[j].pc = "abort"
      <4>1. CASE call' = [call EXCEPT ![j].pc = "dropRecord", ![j].id = idem[KeyOf(j)]]
        BY <1>0, <4>1 DEF ServiceTypeOK, Calls
      <4>q. QED
        BY <1>0, <2>3, <4>1, CallUpdates DEF ReadKey
    <3>2. idem[KeyOf(j)] # j
      BY <1>0, <2>3, <3>0 DEF ReadKey, At, KeyInvOf
    <3>q. QED
      BY <1>0, <1>4, <2>3, <3>1, <3>2 DEF ReadKey, KeyInvOf, KeyOwner, Accepted, At, GetPCs,
         CancelPCs
  <2>4. CASE DropRecord(j)
    BY <1>0, <1>4, <1>5, <2>4, CallUpdates DEF DropRecord, KeyInvOf, KeyOwner, Accepted, At, GetPCs, CancelPCs
  <2>5. CASE AbortReserve(j)
    BY <1>0, <1>4, <1>5, <2>5, CallUpdates DEF AbortReserve, KeyInvOf, KeyOwner, Accepted, At, GetPCs, CancelPCs
  <2>6. CASE LookupExisting(j)
    BY <1>0, <1>4, <1>5, <2>6, CallUpdates DEF LookupExisting, KeyInvOf, KeyOwner, Accepted, At, GetPCs, CancelPCs
  <2>7. CASE MarkAnalysisQueued(j)
    BY <1>0, <1>4, <1>5, <2>7, CallUpdates DEF MarkAnalysisQueued, KeyInvOf, KeyOwner, Accepted, At, GetPCs, CancelPCs, storeVars
  <2>8. CASE Enqueue(j)
    BY <1>0, <1>4, <1>5, <2>8, CallUpdates DEF Enqueue, KeyInvOf, KeyOwner, Accepted, At, GetPCs, CancelPCs, storeVars
  <2>9. CASE UnmarkQueued(j)
    BY <1>0, <1>4, <1>5, <2>9, CallUpdates DEF UnmarkQueued, KeyInvOf, KeyOwner, Accepted, At, GetPCs, CancelPCs, storeVars
  <2>10. CASE DeleteOwnRecord(j)
    BY <1>0, <1>4, <1>5, <2>10, CallUpdates DEF DeleteOwnRecord, KeyInvOf, KeyOwner, Accepted, At, GetPCs, CancelPCs
  <2>11. CASE ReadOwnKey(j)
    BY <1>0, <1>4, <1>5, <2>11, CallUpdates DEF ReadOwnKey, KeyInvOf, KeyOwner, Accepted, At, GetPCs, CancelPCs, storeVars
  <2>12. CASE DeleteOwnKey(j)
    BY <1>0, <1>4, <1>5, <2>12, CallUpdates DEF DeleteOwnKey, KeyInvOf, KeyOwner, Accepted, At, GetPCs, CancelPCs
  <2>q. QED
    BY <2>1, <2>2, <2>3, <2>4, <2>5, <2>6, <2>7, <2>8, <2>9, <2>10, <2>11, <2>12 DEF CreateStep
<1>q. QED
  BY <1>6, <1>7 DEF KeyInv

\* A get, a cancel and a failing request leave the keys alone, and a create
\* that answers with another's job does not become its owner.
LEMMA KeyInvRequest ==
    ASSUME TypeOK, WellFormed, KeyInv, NEW p \in Callers,
           GetStep(p) \/ CancelStep(p) \/ RequestFails(p)
    PROVE  KeyInv'
<1>1. UNCHANGED <<request, idem>> /\ faults \subseteq faults'
  BY RequestFrame DEF TypeOK, StateTypeOK, GetStep, GetRecord, GetSnapshot, RemoveFromQueue,
     CancelStep, CancelRecord, CancelSnapshot, ReadFlag, WriteFlag, Revoke, WriteUndo,
     RequestFails, RemoveQueued, Fault, Faults, NoFault
<1>2. ASSUME NEW i \in Jobs \ {p} PROVE KeyInvOf(i)'
  <2>1. KeyInvOf(i) /\ call'[i] = call[i]
    BY RequestFrame DEF KeyInv, Callers
  <2>q. QED
    BY <1>1, <2>1 DEF KeyInvOf, KeyOwner, Accepted, At, KeyOf, NoneOf
<1>3. ASSUME p \in Jobs PROVE KeyInvOf(p)'
  <2>1. call[p].pc \in GetPCs \cup {"lookup"} /\ call[p].id # p
    BY <1>3, RequestFrame DEF KeyInv, KeyInvOf
  <2>2. ~CancelStep(p)
    BY <2>1 DEF GetPCs, CancelStep, CancelRecord, CancelSnapshot, ReadFlag, WriteFlag, Revoke,
       WriteUndo, At
  <2>3. call'[p].pc \in GetPCs \cup {"done"}
    <3>1. CASE GetStep(p)
      BY <1>3, <3>1, CallUpdates DEF GetStep, GetRecord, GetSnapshot, RemoveFromQueue, GetPCs
    <3>2. CASE RequestFails(p)
      BY <1>3, <3>2, CallUpdates DEF RequestFails
    <3>q. QED
      BY <2>2, <3>1, <3>2
  <2>4. call'[p].id # p
    BY <2>1, RequestFrame
  <2>q. QED
    BY <2>3, <2>4 DEF KeyInvOf, KeyOwner, Accepted, At, GetPCs, CancelPCs
<1>q. QED
  BY <1>2, <1>3 DEF KeyInv

\* Every step keeps the ownership of the keys (KeyInv): a create binds only a free
\* key, and its rollback unbinds only its own.
LEMMA KeyInvStep == TypeOK /\ WellFormed /\ KeyInv /\ [Next]_vars => KeyInv'
<1> SUFFICES ASSUME TypeOK, WellFormed, KeyInv, [Next]_vars PROVE KeyInv'
  OBVIOUS
<1>1. ASSUME NEW p \in Clients, NEW j \in Jobs, ClientAsks(p, j) PROVE KeyInv'
  <2>1. \A i \in Jobs : call'[i] = call[i]
    BY <1>1, JobAssumption DEF ClientAsks, TypeOK, ServiceTypeOK, Callers
  <2>2. UNCHANGED <<idem, request, faults>>
    BY <1>1 DEF ClientAsks, NoFault, storeVars
  <2>3. ASSUME NEW i \in Jobs PROVE KeyInvOf(i)'
    <3>1. KeyInvOf(i) /\ call'[i] = call[i]
      BY <2>1 DEF KeyInv
    <3>q. QED
      BY <2>2, <3>1 DEF KeyInvOf, KeyOwner, Accepted, At, KeyOf, NoneOf
  <2>q. QED
    BY <2>3 DEF KeyInv
<1>2. ASSUME NEW j \in Jobs, ExpireRecord(j) \/ ExpireTracked(j) PROVE KeyInv'
  BY <1>2 DEF ExpireRecord, ExpireTracked, Fault, Faults, storeVars, serviceVars, KeyInv,
     KeyInvOf, KeyOwner, Accepted, At, KeyOf, NoneOf
<1>3. ASSUME NEW k \in Keys, ExpireKey(k) PROVE KeyInv'
  <2>1. ~NoneOf({"expiry"})'
    BY <1>3 DEF ExpireKey, Fault, Faults, NoneOf
  <2>2. \A i \in Jobs, l \in Keys : idem[l] # i => idem'[l] # i
    BY <1>3, JobAssumption DEF ExpireKey, BindKey, TypeOK, StateTypeOK
  <2>q. QED
    BY <1>3, <2>1, <2>2 DEF ExpireKey, serviceVars, KeyInv, KeyInvOf
<1>4. CASE TaskNext
  <2>1. UNCHANGED <<request, call, idem>> /\ faults \subseteq faults'
    BY <1>4, TaskFrame DEF TaskNext, Deliver, Discard, Receive, RunStep, PublishInitial,
       Acquire, MarkAnalysisStarted, Analyze, Release, Retry, StoreOutcome, Acknowledge,
       ReportProgress, HandleRevocation, ExpireLease, OutliveLease, LeaseGoes, Loss, WorkerRestart, ChildLost,
       HardTimeLimit, LoseRevocation, ExpireResult, RemoveQueued, Fault, Faults, NoFault
  <2>q. QED
    BY <2>1 DEF KeyInv, KeyInvOf, KeyOwner, Accepted, At, KeyOf, NoneOf
<1>5. CASE UNCHANGED vars
  BY <1>5 DEF vars, storeVars, serviceVars, KeyInv, KeyInvOf, KeyOwner, Accepted, At, KeyOf,
     NoneOf
<1>q. QED
  BY <1>1, <1>2, <1>3, <1>4, <1>5, KeyInvCreate, KeyInvRequest DEF Next, ServiceNext, Expiry

\* Two creates with the same Idempotency-Key never both start a job while the
\* key lives (create's SET NX and the rollback of _delete_async).
THEOREM IdempotentCreate == Spec => []OneJobPerKey
<1>1. Init => KeyInv
  BY JobAssumption DEF Init, StateInit, ServiceInit, KeyInv, KeyInvOf, KeyOwner, Accepted, At,
     Callers, CancelPCs, GetPCs
<1>2. KeyInv => OneJobPerKey
  BY DEF KeyInv, KeyInvOf, KeyOwner, OneJobPerKey
<1>q. QED
  BY <1>1, <1>2, KeyInvStep, TypeInvariant, PTL DEF Spec

-----------------------------------------------------------------------------
\* The worker has, or will get, a task for the job.
Sent(j) == (\E m \in msgs : m.job = j) \/ \E w \in Children : run[w].job = j

\* A message is sent after the tracker was marked, and never twice by create.
SentInv ==
    \A j \in Jobs : Sent(j) =>
        call[j].pc \in {"unmark", "deleteRecord", "readOwnKey", "deleteKey", "done"}

\* The worker only goes on with what was sent.
LEMMA TaskSends ==
    ASSUME TypeOK, WellFormed, TaskNext, NEW j \in Jobs, Sent(j)'
    PROVE  Sent(j)
<1> USE JobAssumption DEF Sent
<1>1. \A w \in Children : run'[w].job = j => Sent(j)
  BY TaskFrame DEF Kept, Idle
<1>2. ASSUME NEW m \in msgs', m.job = j PROVE Sent(j)
  <2>1. m \in msgs \/ \E w \in Children : m.job = run[w].job
    <3>1. ASSUME NEW w \in Children, Retry(w) \/ ChildLost(w)
          PROVE  m \in msgs \/ m.job = run[w].job
      BY <1>2, <3>1 DEF Retry, ChildLost, Held
    <3>2. CASE WorkerRestart
      BY <1>2, <3>2 DEF WorkerRestart, Held, Busy
    <3>3. CASE ~WorkerRestart /\ \A w \in Children : ~Retry(w) /\ ~ChildLost(w)
      BY <1>2, <3>3 DEF TaskNext, Deliver, Discard, Receive, RunStep, PublishInitial, Acquire,
         MarkAnalysisStarted, Analyze, Release, StoreOutcome, Acknowledge, ReportProgress,
         HandleRevocation, ExpireLease, OutliveLease, LeaseGoes, Loss, HardTimeLimit, LoseRevocation, ExpireResult,
         brokerVars
    <3>q. QED
      BY <3>1, <3>2, <3>3
  <2>q. QED
    BY <1>2, <2>1
<1>q. QED
  BY <1>1, <1>2

\* Every step keeps SentInv: a message, a run or a task state of a job exists only
\* after its create has called send_task.
LEMMA SentInvStep == TypeOK /\ WellFormed /\ KeyInv /\ SentInv /\ [Next]_vars => SentInv'
<1> SUFFICES ASSUME TypeOK, WellFormed, KeyInv, SentInv, [Next]_vars PROVE SentInv'
  OBVIOUS
<1> USE DEF Callers
<1>1. ASSUME NEW j \in Jobs, CreateStep(j) PROVE SentInv'
  <2>1. ASSUME NEW i \in Jobs \ {j} PROVE Sent(i)' => Sent(i)
    <3>1. \A m \in msgs' : m \in msgs \/ m.job = j
      <4>1. CASE Enqueue(j)
        BY <4>1 DEF Enqueue
      <4>2. CASE ~Enqueue(j)
        BY <1>1, <4>2 DEF CreateStep, ReserveRecord, ReserveKey, ReadKey, DropRecord,
           AbortReserve, LookupExisting, MarkAnalysisQueued, UnmarkQueued, DeleteOwnRecord,
           ReadOwnKey, DeleteOwnKey, brokerVars
      <4>q. QED
        BY <4>1, <4>2
    <3>q. QED
      BY <1>1, <3>1, CreateFrame DEF Sent
  <2>2. Sent(j)' => call'[j].pc \in {"unmark", "deleteRecord", "readOwnKey", "deleteKey", "done"}
    <3>1. CASE Enqueue(j)
      BY <3>1, CallUpdates DEF Enqueue
    <3>2. CASE ~Enqueue(j)
      <4>1. Sent(j)' => Sent(j)
        BY <1>1, <3>2, CreateFrame DEF Sent, CreateStep, ReserveRecord, ReserveKey, ReadKey,
           DropRecord, AbortReserve, LookupExisting, MarkAnalysisQueued, UnmarkQueued,
           DeleteOwnRecord, ReadOwnKey, DeleteOwnKey, brokerVars
      <4>2. CASE UnmarkQueued(j) \/ DeleteOwnRecord(j) \/ ReadOwnKey(j) \/ DeleteOwnKey(j)
        BY <4>2, CallUpdates DEF UnmarkQueued, DeleteOwnRecord, ReadOwnKey, DeleteOwnKey
      <4>3. CASE ~(UnmarkQueued(j) \/ DeleteOwnRecord(j) \/ ReadOwnKey(j) \/ DeleteOwnKey(j))
        <5>1. call[j].pc \in {"start", "setKey", "readKey", "dropRecord", "abort", "lookup", "mark"}
          BY <1>1, <3>2, <4>3 DEF CreateStep, ReserveRecord, ReserveKey, ReadKey, DropRecord,
             AbortReserve, LookupExisting, MarkAnalysisQueued, At
        <5>q. QED
          BY <4>1, <5>1 DEF SentInv
      <4>q. QED
        BY <4>2, <4>3
    <3>q. QED
      BY <3>1, <3>2
  <2>q. QED
    BY <1>1, <2>1, <2>2, CreateFrame DEF SentInv
<1>2. ASSUME NEW p \in Callers, GetStep(p) \/ CancelStep(p) \/ RequestFails(p)
      PROVE  SentInv'
  <2>1. \A i \in Jobs : Sent(i)' => Sent(i)
    BY <1>2, RequestFrame DEF Sent
  <2>2. ASSUME p \in Jobs PROVE ~Sent(p)
    BY <1>2, <2>2, RequestFrame DEF SentInv, GetPCs, CancelPCs
  <2>q. QED
    BY <1>2, <2>1, <2>2, RequestFrame DEF SentInv
<1>3. ASSUME NEW p \in Clients, NEW j \in Jobs, ClientAsks(p, j) PROVE SentInv'
  <2>1. \A i \in Jobs : call'[i] = call[i]
    BY <1>3, JobAssumption DEF ClientAsks, TypeOK, ServiceTypeOK
  <2>q. QED
    BY <1>3, <2>1 DEF ClientAsks, SentInv, Sent, brokerVars, taskVars, leaseVars
<1>4. CASE Expiry
  BY <1>4 DEF Expiry, ExpireRecord, ExpireTracked, ExpireKey, SentInv, Sent, brokerVars,
     serviceVars, taskVars, leaseVars
<1>5. CASE TaskNext
  BY <1>5, TaskSends, TaskFrame DEF SentInv
<1>6. CASE UNCHANGED vars
  BY <1>6 DEF vars, brokerVars, serviceVars, taskVars, leaseVars, SentInv, Sent
<1>q. QED
  BY <1>1, <1>2, <1>3, <1>4, <1>5, <1>6 DEF Next, ServiceNext

\* What the updates of a child's run do to it.
LEMMA RunUpdates ==
    ASSUME TypeOK, NEW w \in Children
    PROVE  /\ \A pc : Proceed(w, pc) => /\ run'[w].pc = pc
                                        /\ run'[w].job = run[w].job
                                        /\ run'[w].attempt = run[w].attempt
                                        /\ run'[w].outcome = run[w].outcome
           /\ \A pc, outcome : Finish(w, pc, outcome) => /\ run'[w].pc = pc
                                                         /\ run'[w].job = run[w].job
                                                         /\ run'[w].attempt = run[w].attempt
                                                         /\ run'[w].outcome = outcome
           /\ Stop(w) => run'[w] = Idle
           /\ \A v \in Children \ {w} :
                 /\ \A pc : Proceed(w, pc) => run'[v] = run[v]
                 /\ \A pc, outcome : Finish(w, pc, outcome) => run'[v] = run[v]
                 /\ Stop(w) => run'[v] = run[v]
BY DEF TypeOK, TaskTypeOK, TaskRuns, Proceed, Finish, Stop

\* The child that a step of the worker is about.
TaskOf(w) == RunStep(w) \/ ReportProgress(w) \/ ChildLost(w) \/ HardTimeLimit(w)

\* A step of one child leaves what the other children execute alone.
LEMMA TaskOfOne ==
    ASSUME TypeOK, NEW w \in Children, TaskOf(w)
    PROVE  \A v \in Children \ {w} : run'[v] = run[v]
BY RunUpdates DEF TaskOf, RunStep, PublishInitial, Acquire, MarkAnalysisStarted, Analyze,
   Release, Retry, StoreOutcome, Acknowledge, ReportProgress, ChildLost, HardTimeLimit,
   taskVars, leaseVars

\* Only create's mark adds to the tracker, and it comes before the message.
LEMMA StartedStep ==
    TypeOK /\ WellFormed /\ SentInv /\ StartedNotQueued /\ [Next]_vars => StartedNotQueued'
<1> SUFFICES ASSUME TypeOK, WellFormed, SentInv, StartedNotQueued, [Next]_vars
             PROVE  StartedNotQueued'
  OBVIOUS
<1> USE DEF Callers
<1>a. ASSUME faults \subseteq faults', NEW w \in Children, UNCHANGED run, 
             ~(run[w].job \in queued' /\ run[w].job \notin queued)
      PROVE  (run[w].pc \in {"analyzing", "releasing"} /\ NoneOf({"tracker"}))'
                => (run[w].job \notin queued)'
  BY <1>a DEF StartedNotQueued, NoneOf
<1>1. CASE ServiceNext
  <2>0. UNCHANGED run /\ faults \subseteq faults'
    BY <1>1 DEF ServiceNext, CreateStep, ReserveRecord, ReserveKey, ReadKey, DropRecord,
       AbortReserve, LookupExisting, MarkAnalysisQueued, Enqueue, UnmarkQueued,
       DeleteOwnRecord, ReadOwnKey, DeleteOwnKey, GetStep, GetRecord, GetSnapshot,
       RemoveFromQueue, CancelStep, CancelRecord, CancelSnapshot, ReadFlag, WriteFlag, Revoke,
       WriteUndo, RequestFails, ClientAsks, Expiry, ExpireRecord, ExpireKey, ExpireTracked,
       MarkQueued, RemoveQueued, Fault, Faults, NoFault, taskVars, leaseVars
  <2>1. queued' \subseteq queued \/ \E j \in Jobs : MarkAnalysisQueued(j)
    BY <1>1 DEF ServiceNext, CreateStep, ReserveRecord, ReserveKey, ReadKey, DropRecord,
       AbortReserve, LookupExisting, Enqueue, UnmarkQueued,
       DeleteOwnRecord, ReadOwnKey, DeleteOwnKey, GetStep, GetRecord, GetSnapshot,
       RemoveFromQueue, CancelStep, CancelRecord, CancelSnapshot, ReadFlag, WriteFlag, Revoke,
       WriteUndo, RequestFails, ClientAsks, Expiry, ExpireRecord, ExpireKey, ExpireTracked,
       RemoveQueued
  <2>2. ASSUME NEW j \in Jobs, MarkAnalysisQueued(j), NEW w \in Children
        PROVE  ~(run[w].job \in queued' /\ run[w].job \notin queued)
    <3>1. run[w].job # j
      BY <2>2 DEF MarkAnalysisQueued, At, SentInv, Sent
    <3>q. QED
      BY <2>2, <3>1 DEF MarkAnalysisQueued, MarkQueued
  <2>q. QED
    BY <1>a, <2>0, <2>1, <2>2 DEF StartedNotQueued
<1>2. CASE TaskNext
  <2>1. queued' \subseteq queued /\ faults \subseteq faults'
    BY <1>2, TaskFrame DEF TaskNext, Deliver, Discard, Receive, RunStep, PublishInitial,
       Acquire, MarkAnalysisStarted, Analyze, Release, Retry, StoreOutcome, Acknowledge,
       ReportProgress, HandleRevocation, ExpireLease, OutliveLease, LeaseGoes, Loss, WorkerRestart, ChildLost,
       HardTimeLimit, LoseRevocation, ExpireResult, RemoveQueued, Fault, Faults, NoFault
  <2>2. ASSUME NEW w \in Children, run'[w].pc \in {"analyzing", "releasing"}
        PROVE  \/ run[w].pc \in {"analyzing", "releasing"} /\ run'[w].job = run[w].job
               \/ MarkAnalysisStarted(w) /\ run'[w].job = run[w].job
    <3>1. CASE TaskOf(w)
      <4>1. CASE MarkAnalysisStarted(w)
        BY <4>1, RunUpdates DEF MarkAnalysisStarted
      <4>2. CASE Analyze(w) \/ Release(w)
        BY <2>2, <4>2, RunUpdates DEF Analyze, Release, Runs
      <4>3. CASE ReportProgress(w)
        BY <2>2, <4>3 DEF ReportProgress, Runs, taskVars, leaseVars
      <4>4. CASE Acknowledge(w) \/ ChildLost(w) \/ HardTimeLimit(w)
        BY <2>2, <4>4, RunUpdates DEF Acknowledge, ChildLost, HardTimeLimit, Idle
      <4>5. CASE PublishInitial(w) \/ Acquire(w) \/ Retry(w) \/ StoreOutcome(w)
        BY <2>2, <4>5, RunUpdates DEF PublishInitial, Acquire, Retry, StoreOutcome
      <4>q. QED
        BY <3>1, <4>1, <4>2, <4>3, <4>4, <4>5 DEF TaskOf, RunStep
    <3>2. ASSUME NEW v \in Children \ {w}, TaskOf(v) PROVE run'[w] = run[w]
      BY <3>2, TaskOfOne
    <3>3. CASE Deliver
      <4>1. \/ run' = run
            \/ \E m \in msgs, v \in Children : 
                  run' = [run EXCEPT ![v] = [pc |-> "initial", job |-> m.job,
                                  attempt |-> m.attempt, outcome |-> "none"]]
        BY <3>3 DEF Deliver, Discard, Receive, taskVars, leaseVars
      <4>q. QED
        BY <2>2, <4>1 DEF TypeOK, TaskTypeOK
    <3>4. CASE WorkerRestart \/ \E j \in Jobs : HandleRevocation(j)
      <4>1. run'[w] \in {Idle, run[w]}
        BY <3>4 DEF WorkerRestart, HandleRevocation
      <4>q. QED
        BY <2>2, <4>1 DEF Idle
    <3>5. CASE \E j \in Jobs : ExpireLease(j) \/ OutliveLease(j) \/ LoseRevocation(j) \/ ExpireResult(j)
      BY <2>2, <3>5 DEF ExpireLease, OutliveLease, LeaseGoes, LoseRevocation, ExpireResult, taskVars, leaseVars
    <3>q. QED
      BY <1>2, <2>2, <3>1, <3>2, <3>3, <3>4, <3>5 DEF TaskNext, Loss, TaskOf
  <2>3. ASSUME NEW w \in Children, MarkAnalysisStarted(w), NoneOf({"tracker"})'
        PROVE  run[w].job \notin queued'
    BY <2>3 DEF MarkAnalysisStarted, RemoveQueued, Fault, Faults, NoneOf
  <2>q. QED
    BY <2>1, <2>2, <2>3 DEF StartedNotQueued, NoneOf
<1>3. CASE UNCHANGED vars
  BY <1>3 DEF vars, taskVars, leaseVars, StartedNotQueued, NoneOf
<1>q. QED
  BY <1>1, <1>2, <1>3 DEF Next

\* A job whose analysis runs is not counted as queued (mark_analysis_queued before
\* send_task, mark_analysis_started after acquire).
THEOREM StartedLeavesQueue == Spec => []StartedNotQueued
<1>1. Init => SentInv /\ StartedNotQueued /\ KeyInv
  BY JobAssumption DEF Init, StateInit, ServiceInit, TaskInit, SentInv, Sent, StartedNotQueued,
     Idle, KeyInv, KeyInvOf, KeyOwner, Accepted, At, Callers, CancelPCs, GetPCs
<1>q. QED
  BY <1>1, KeyInvStep, SentInvStep, StartedStep, TypeInvariant, PTL DEF Spec
-----------------------------------------------------------------------------
\* What the steps of the service do to the shared records and keys: a record is
\* only ever written for the domain of its create.
LEMMA RecordWrites ==
    ASSUME ServiceNext
    PROVE  /\ UNCHANGED request
           /\ faults \subseteq faults'
           /\ \/ UNCHANGED record
              \/ \E j \in Jobs : /\ At(j, "start") /\ CreateStep(j)
                                 /\ SetRecord(j, DomainOf(j), FALSE)
              \/ \E j \in Jobs : (CreateStep(j) \/ ExpireRecord(j)) /\ DeleteRecord(j)
              \/ \E p \in Callers : /\ call[p].pc \in {"writeFlag", "writeUndo"}
                                    /\ CancelStep(p) \/ RequestFails(p)
                                    /\ SetRecord(Target(p), DomainOf(Target(p)), At(p, "writeFlag"))
<1> USE DEF storeVars, serviceVars, Fault, Faults, NoFault
<1>1. ASSUME NEW j \in Jobs, CreateStep(j)
      PROVE  /\ UNCHANGED request /\ faults \subseteq faults'
             /\ \/ UNCHANGED record
                \/ At(j, "start") /\ SetRecord(j, DomainOf(j), FALSE)
                \/ DeleteRecord(j)
  BY <1>1 DEF CreateStep, ReserveRecord, ReserveKey, ReadKey, DropRecord, AbortReserve,
     LookupExisting, MarkAnalysisQueued, Enqueue, UnmarkQueued, DeleteOwnRecord, ReadOwnKey,
     DeleteOwnKey, MarkQueued, RemoveQueued
<1>2. ASSUME NEW p \in Callers, GetStep(p) \/ CancelStep(p) \/ RequestFails(p)
      PROVE  /\ UNCHANGED request /\ faults \subseteq faults'
             /\ \/ UNCHANGED record
                \/ /\ call[p].pc \in {"writeFlag", "writeUndo"}
                   /\ CancelStep(p) \/ RequestFails(p)
                   /\ SetRecord(Target(p), DomainOf(Target(p)), At(p, "writeFlag"))
  BY <1>2 DEF GetStep, GetRecord, GetSnapshot, RemoveFromQueue, CancelStep, CancelRecord,
     CancelSnapshot, ReadFlag, WriteFlag, Revoke, WriteUndo, RequestFails, RemoveQueued, At
<1>3. ASSUME NEW p \in Clients, NEW j \in Jobs, ClientAsks(p, j)
      PROVE  UNCHANGED <<request, record, faults>>
  BY <1>3 DEF ClientAsks
<1>4. ASSUME Expiry
      PROVE  /\ UNCHANGED request /\ faults \subseteq faults'
             /\ UNCHANGED record \/ \E j \in Jobs : ExpireRecord(j) /\ DeleteRecord(j)
  BY <1>4 DEF Expiry, ExpireRecord, ExpireTracked, ExpireKey
<1>q. QED
  BY <1>1, <1>2, <1>3, <1>4 DEF ServiceNext

\* A job's record is for the domain its create asked for, and a key is bound to a
\* job that was created with it.
RecordsMatch == \A j \in Jobs : record[j] # NoRecord => record[j].domain = DomainOf(j)
KeysMatch == \A k \in Keys : idem[k] # NoJob => KeyOf(idem[k]) = k

\* The program points of a create that works on its own job.
OwnPCs == CreatePCs \ {"dropRecord", "abort", "lookup"}

\* The create that lost its key has read the id of a job with that key, and goes on
\* to look at it only after its domain was compared.
MatchOf(j) ==
    /\ call[j].pc \in OwnPCs => call[j].id = j
    /\ call[j].pc \in {"dropRecord", "lookup"} => KeyOf(call[j].id) = KeyOf(j)
    /\ call[j].pc \in GetPCs \/ (At(j, "done") /\ call[j].reply \in Statuses)
          => request[call[j].id] = request[j]
MatchInv == RecordsMatch /\ KeysMatch /\ \A j \in Jobs : MatchOf(j)

\* Every write to a record names the domain of its create.
LEMMA RecordsMatchStep ==
    ASSUME TypeOK, WellFormed, RecordsMatch, [Next]_vars
    PROVE  RecordsMatch'
<1> USE DEF RecordsMatch, DomainOf, TypeOK, StateTypeOK
<1>1. CASE ServiceNext
  <2>0. request' = request
    BY <1>1, RecordWrites
  <2>1. CASE UNCHANGED record
    BY <2>0, <2>1
  <2>2. ASSUME NEW j \in Jobs, NEW cancelled, SetRecord(j, DomainOf(j), cancelled)
        PROVE  RecordsMatch'
    BY <2>0, <2>2 DEF SetRecord
  <2>3. ASSUME NEW j \in Jobs, DeleteRecord(j) PROVE RecordsMatch'
    BY <2>0, <2>3 DEF DeleteRecord
  <2>4. ASSUME NEW p \in Callers, call[p].pc \in {"writeFlag", "writeUndo"}
        PROVE  Target(p) \in Jobs
    BY <2>4 DEF WellFormed, Target, ServiceTypeOK, Calls
  <2>q. QED
    BY <1>1, <2>1, <2>2, <2>3, <2>4, RecordWrites
<1>2. CASE TaskNext
  BY <1>2, TaskFrame
<1>3. CASE UNCHANGED vars
  BY <1>3 DEF vars, storeVars, serviceVars
<1>q. QED
  BY <1>1, <1>2, <1>3 DEF Next

\* What a step does to the keys: SET NX binds one, the rollback and expiry unbind.
LEMMA KeyWrites ==
    ASSUME [Next]_vars, TypeOK
    PROVE  \/ UNCHANGED idem
           \/ \E j \in Jobs : /\ At(j, "setKey") /\ ReserveKey(j)
                              /\ idem[KeyOf(j)] = NoJob /\ BindKey(KeyOf(j), j)
           \/ \E j \in Jobs : At(j, "deleteKey") /\ BindKey(KeyOf(j), NoJob)
           \/ \E k \in Keys : ExpireKey(k) /\ BindKey(k, NoJob)
<1> USE DEF storeVars
<1>1. ASSUME NEW j \in Jobs, CreateStep(j)
      PROVE  \/ UNCHANGED idem
             \/ /\ At(j, "setKey") /\ ReserveKey(j)
                /\ idem[KeyOf(j)] = NoJob /\ BindKey(KeyOf(j), j)
             \/ At(j, "deleteKey") /\ BindKey(KeyOf(j), NoJob)
  BY <1>1 DEF CreateStep, ReserveRecord, ReserveKey, ReadKey, DropRecord, AbortReserve,
     LookupExisting, MarkAnalysisQueued, Enqueue, UnmarkQueued, DeleteOwnRecord, ReadOwnKey,
     DeleteOwnKey
<1>2. ASSUME NEW p \in Callers, GetStep(p) \/ CancelStep(p) \/ RequestFails(p)
      PROVE  UNCHANGED idem
  BY <1>2, RequestFrame
<1>3. ASSUME NEW p \in Clients, NEW j \in Jobs, ClientAsks(p, j) PROVE UNCHANGED idem
  BY <1>3 DEF ClientAsks
<1>4. ASSUME Expiry PROVE UNCHANGED idem \/ \E k \in Keys : ExpireKey(k) /\ BindKey(k, NoJob)
  BY <1>4 DEF Expiry, ExpireRecord, ExpireTracked, ExpireKey
<1>5. CASE TaskNext
  BY <1>5, TaskFrame
<1>6. CASE UNCHANGED vars
  BY <1>6 DEF vars
<1>q. QED
  BY <1>1, <1>2, <1>3, <1>4, <1>5, <1>6 DEF Next, ServiceNext

\* Requests never change.
LEMMA RequestsStay ==
    ASSUME TypeOK, [Next]_vars
    PROVE  UNCHANGED request
BY RecordWrites, TaskFrame DEF Next, vars, serviceVars

\* A key is bound by a create that was called with it.
LEMMA KeysMatchStep ==
    ASSUME TypeOK, WellFormed, KeysMatch, [Next]_vars
    PROVE  KeysMatch'
<1> USE JobAssumption DEF KeysMatch, KeyOf, TypeOK, StateTypeOK
<1>0. request' = request
  BY RequestsStay
<1>1. CASE UNCHANGED idem
  BY <1>0, <1>1
<1>2. ASSUME NEW k, NEW j \in Jobs \cup {NoJob}, BindKey(k, j), j # NoJob => k = KeyOf(j)
      PROVE  KeysMatch'
  BY <1>0, <1>2 DEF BindKey
<1>q. QED
  BY <1>1, <1>2, KeyWrites

\* A create call turns to another job only through its key, and is shown that job
\* only when the domains are the same.
LEMMA MatchCreate ==
    ASSUME TypeOK, WellFormed, MatchInv, NEW j \in Jobs, CreateStep(j)
    PROVE  MatchOf(j)'
<1> USE JobAssumption DEF TypeOK, StateTypeOK
<1>0. j \in Callers /\ MatchOf(j) /\ request' = request
  BY CreateFrame DEF Callers, MatchInv
<1>k. call[j].pc \in {"setKey", "readKey"} => KeyOf(j) \in Keys
  BY DEF WellFormed, KeyOf, ServiceTypeOK, Requests
<1>o. OwnPCs = {"start", "setKey", "readKey", "mark", "enqueue", "unmark", "deleteRecord",
                "readOwnKey", "deleteKey"}
      /\ GetPCs = {"get", "snapshot", "unqueue"}
      /\ {"missing", "conflict", "unavailable", "error"} \cap Statuses = {}
  BY DEF OwnPCs, CreatePCs, GetPCs, Statuses, TerminalStatus
<1>1. ASSUME call'[j].id = j PROVE MatchOf(j)'
  BY <1>0, <1>1 DEF MatchOf, At, KeyOf
<1>2. CASE call[j].pc \in OwnPCs /\ ~ReadKey(j)
  BY <1>0, <1>1, <1>2, CreateFrame DEF MatchOf
<1>3. CASE ReadKey(j)
  <2>1. CASE /\ idem[KeyOf(j)] # NoJob
             /\ call' = [call EXCEPT ![j].pc = "dropRecord", ![j].id = idem[KeyOf(j)]]
    <3>1. call'[j].pc = "dropRecord" /\ call'[j].id = idem[KeyOf(j)]
      BY <1>0, <2>1 DEF ServiceTypeOK, Calls
    <3>2. KeyOf(idem[KeyOf(j)]) = KeyOf(j)
      BY <1>3, <1>k, <2>1 DEF ReadKey, At, MatchInv, KeysMatch
    <3>q. QED
      BY <1>0, <1>o, <3>1, <3>2 DEF MatchOf, At, KeyOf
  <2>2. CASE Goto(j, "abort")
    BY <1>0, <1>o, <2>2, CallUpdates DEF MatchOf, At
  <2>q. QED
    BY <1>3, <2>1, <2>2 DEF ReadKey
<1>4. CASE DropRecord(j) \/ AbortReserve(j)
  <2>1. \/ Goto(j, "lookup") /\ At(j, "dropRecord")
        \/ Goto(j, "abort") \/ Answer(j, "unavailable")
    BY <1>4 DEF DropRecord, AbortReserve
  <2>q. QED
    BY <1>0, <1>o, <2>1, CallUpdates DEF MatchOf, At, KeyOf
<1>5. CASE LookupExisting(j)
  <2>1. \/ Answer(j, "missing") \/ Answer(j, "conflict")
        \/ /\ Goto(j, "get") /\ record[Target(j)] # NoRecord
           /\ record[Target(j)].domain = DomainOf(j)
    BY <1>5 DEF LookupExisting
  <2>2. CASE Answer(j, "missing") \/ Answer(j, "conflict")
    BY <1>0, <1>o, <2>2, CallUpdates DEF MatchOf, At
  <2>3. CASE /\ Goto(j, "get") /\ record[Target(j)] # NoRecord
             /\ record[Target(j)].domain = DomainOf(j)
    <3>1. Target(j) \in Jobs
      BY <1>0, <1>5 DEF LookupExisting, At, WellFormed, Target, ServiceTypeOK, Calls
    <3>2. DomainOf(Target(j)) = DomainOf(j) /\ KeyOf(Target(j)) = KeyOf(j)
      BY <1>0, <1>5, <2>3, <3>1 DEF MatchInv, RecordsMatch, MatchOf, LookupExisting, At, Target
    <3>3. request[Target(j)] = request[j]
      BY <3>1, <3>2 DEF KeyOf, DomainOf, ServiceTypeOK, Requests
    <3>4. call'[j].pc = "get" /\ call'[j].id = call[j].id
      BY <1>0, <2>3, CallUpdates
    <3>q. QED
      BY <1>0, <1>o, <3>3, <3>4 DEF MatchOf, At, Target
  <2>q. QED
    BY <2>1, <2>2, <2>3
<1>6. call[j].pc \in OwnPCs \/ call[j].pc \in {"dropRecord", "abort", "lookup"}
  BY CreateFrame DEF OwnPCs
<1>7. call[j].pc \in {"dropRecord", "abort", "lookup"} =>
         DropRecord(j) \/ AbortReserve(j) \/ LookupExisting(j)
  BY DEF CreateStep, ReserveRecord, ReserveKey, ReadKey, MarkAnalysisQueued, Enqueue,
     UnmarkQueued, DeleteOwnRecord, ReadOwnKey, DeleteOwnKey, At
<1>q. QED
  BY <1>2, <1>3, <1>4, <1>5, <1>6, <1>7

\* Every step keeps MatchInv: what a duplicate create is shown belongs to a job for
\* its own key and domain.
LEMMA MatchInvStep == TypeOK /\ WellFormed /\ KeyInv /\ MatchInv /\ [Next]_vars => MatchInv'
<1> SUFFICES ASSUME TypeOK, WellFormed, KeyInv, MatchInv, [Next]_vars, NEW i \in Jobs
             PROVE  MatchOf(i)'
  BY RecordsMatchStep, KeysMatchStep DEF MatchInv
<1>0. request' = request /\ i \in Callers /\ MatchOf(i)
  BY RequestsStay DEF Callers, MatchInv
<1>1. ASSUME call'[i] = call[i] PROVE MatchOf(i)'
  BY <1>0, <1>1 DEF MatchOf, At, KeyOf
<1>2. ASSUME NEW j \in Jobs, CreateStep(j) PROVE MatchOf(i)'
  <2>1. CASE i = j
    BY <1>2, <2>1, MatchCreate
  <2>2. CASE i # j
    BY <1>0, <1>1, <1>2, <2>2, CreateFrame DEF Callers
  <2>q. QED
    BY <2>1, <2>2
<1>3. ASSUME NEW p \in Callers, GetStep(p) \/ CancelStep(p) \/ RequestFails(p)
      PROVE  MatchOf(i)'
  <2>1. CASE i = p
    <3>1. call[i].pc \in GetPCs \cup {"lookup"} /\ call'[i].id = call[i].id
      BY <1>3, <2>1, RequestFrame DEF KeyInv, KeyInvOf
    <3>2. CASE call[i].pc \in GetPCs
      <4>1. call'[i].pc \in GetPCs \cup CancelPCs \cup {"idle", "done"}
        BY <1>3, <2>1, RequestFrame
      <4>2. call'[i].pc \notin OwnPCs \cup {"dropRecord", "lookup"}
        BY <4>1 DEF OwnPCs, GetPCs, CancelPCs, CreatePCs
      <4>q. QED
        BY <1>0, <3>1, <3>2, <4>2 DEF MatchOf
    <3>3. CASE call[i].pc = "lookup"
      <4>1. RequestFails(i)
        BY <1>3, <2>1, <3>3 DEF GetStep, GetRecord, GetSnapshot, RemoveFromQueue, CancelStep,
           CancelRecord, CancelSnapshot, ReadFlag, WriteFlag, Revoke, WriteUndo, At
      <4>2. Answer(i, "error")
        BY <3>3, <4>1 DEF RequestFails
      <4>3. call'[i].pc = "done" /\ call'[i].reply = "error"
        BY <1>0, <4>2, CallUpdates
      <4>q. QED
        BY <4>3 DEF MatchOf, OwnPCs, GetPCs, CreatePCs, Statuses, TerminalStatus
    <3>q. QED
      BY <3>1, <3>2, <3>3
  <2>2. CASE i # p
    BY <1>0, <1>1, <1>3, <2>2, RequestFrame
  <2>q. QED
    BY <2>1, <2>2
<1>4. ASSUME NEW p \in Clients, NEW j \in Jobs, ClientAsks(p, j) PROVE call'[i] = call[i]
  BY <1>4, JobAssumption DEF ClientAsks, TypeOK, ServiceTypeOK, Callers
<1>5. CASE Expiry
  BY <1>1, <1>5 DEF Expiry, ExpireRecord, ExpireTracked, ExpireKey, serviceVars
<1>6. CASE TaskNext
  BY <1>1, <1>6, TaskFrame
<1>7. CASE UNCHANGED vars
  BY <1>1, <1>7 DEF vars, serviceVars
<1>q. QED
  BY <1>1, <1>2, <1>3, <1>4, <1>5, <1>6, <1>7 DEF Next, ServiceNext

\* Before any create has done anything there is nothing to match.
LEMMA MatchInit == Init => KeyInv /\ MatchInv
<1> SUFFICES ASSUME Init PROVE KeyInv /\ MatchInv
  OBVIOUS
<1>1. \A j \in Jobs : call[j].pc = "start" /\ call[j].id = j
  BY DEF Init, ServiceInit, Callers
<1>2. KeyInv
  BY <1>1, JobAssumption DEF Init, StateInit, KeyInv, KeyInvOf, KeyOwner, Accepted, At,
     GetPCs, CancelPCs
<1>3. MatchInv
  BY <1>1 DEF Init, StateInit, MatchInv, RecordsMatch, KeysMatch, MatchOf, At, GetPCs
<1>q. QED
  BY <1>2, <1>3

\* A duplicate create is shown the status of a job with its own key and domain, and
\* of no other (SET NX and GET of the key, and the comparison of the domains).
THEOREM DuplicatesMatch == Spec => []DuplicateCreateMatches
<1>1. MatchInv => DuplicateCreateMatches
  BY DEF MatchInv, MatchOf, DuplicateCreateMatches
<1>q. QED
  BY <1>1, MatchInit, KeyInvStep, MatchInvStep, TypeInvariant, PTL DEF Spec
-----------------------------------------------------------------------------
\* Before a store command or a send failed, or anything expired, no create rolls
\* back: a create that holds its key has a record, a bound key names such a create,
\* and so does the id that a duplicate create has read.
NoSetback == NoneOf({"store", "enqueue", "expiry"})
FoundOf(j) ==
    /\ call[j].pc \in {"start", "setKey", "readKey", "dropRecord", "lookup", "mark",
                       "enqueue", "done"} \cup GetPCs
    /\ call[j].reply # "missing"
    /\ At(j, "setKey") \/ KeyOwner(j) => record[j] # NoRecord
    /\ At(j, "readKey") => idem[KeyOf(j)] # NoJob
    /\ call[j].pc \in {"dropRecord", "lookup", "get"} => KeyOwner(call[j].id)
KeysFound == \A k \in Keys : idem[k] # NoJob => KeyOwner(idem[k])
FoundInv == NoSetback => KeysFound /\ \A j \in Jobs : FoundOf(j)

\* A step that sets nothing back does what the code does when every command succeeds.
LEMMA CreateSucceeds ==
    ASSUME TypeOK, WellFormed, MatchInv, FoundInv, NoSetback', NEW j \in Jobs, CreateStep(j)
    PROVE  /\ call'[j].reply # "missing"
           /\ \/ At(j, "start") /\ SetRecord(j, DomainOf(j), FALSE) /\ UNCHANGED idem
                 /\ call'[j].pc = IF KeyOf(j) = NoKey THEN "mark" ELSE "setKey"
              \/ At(j, "setKey") /\ UNCHANGED record /\ call'[j].pc = "mark"
                 /\ BindKey(KeyOf(j), j)
              \/ At(j, "setKey") /\ UNCHANGED storeVars /\ call'[j].pc = "readKey"
                 /\ idem[KeyOf(j)] # NoJob
              \/ At(j, "readKey") /\ UNCHANGED storeVars /\ call'[j].pc = "dropRecord"
                 /\ call'[j].id = idem[KeyOf(j)]
              \/ At(j, "dropRecord") /\ DeleteRecord(j) /\ UNCHANGED idem /\ call'[j].pc = "lookup"
              \/ At(j, "lookup") /\ UNCHANGED storeVars
                 /\ \/ call'[j].pc = "get"
                    \/ call'[j].pc = "done" /\ call'[j].reply = "conflict"
              \/ At(j, "mark") /\ UNCHANGED storeVars /\ call'[j].pc = "enqueue"
              \/ At(j, "enqueue") /\ UNCHANGED storeVars /\ call'[j].pc = "done"
                 /\ call'[j].reply = "queued"
<1>0. j \in Callers /\ NoSetback /\ FoundOf(j) /\ KeysFound
  BY RecordWrites DEF ServiceNext, Callers, NoSetback, NoneOf, FoundInv
<1>f. \A kind \in {"store", "enqueue", "expiry"} : ~Fault(kind)
  BY DEF NoSetback, NoneOf, Fault, Faults
<1> USE DEF At, storeVars
<1>1. CASE ReserveRecord(j)
  <2>1. Goto(j, IF KeyOf(j) = NoKey THEN "mark" ELSE "setKey")
    BY <1>1, <1>f DEF ReserveRecord
  <2>2. /\ call'[j].pc = IF KeyOf(j) = NoKey THEN "mark" ELSE "setKey"
        /\ call'[j].reply # "missing"
    BY <1>0, <2>1, CallUpdates DEF FoundOf
  <2>q. QED
    BY <1>1, <1>f, <2>2 DEF ReserveRecord
<1>2. CASE ReserveKey(j)
  BY <1>0, <1>2, <1>f, CallUpdates DEF ReserveKey, FoundOf
<1>3. CASE ReadKey(j)
  <2>1. call' = [call EXCEPT ![j].pc = "dropRecord", ![j].id = idem[KeyOf(j)]]
    BY <1>0, <1>3, <1>f DEF ReadKey, FoundOf
  <2>2. call'[j].pc = "dropRecord" /\ call'[j].id = idem[KeyOf(j)]
        /\ call'[j].reply # "missing"
    BY <1>0, <2>1 DEF TypeOK, ServiceTypeOK, Calls, FoundOf
  <2>q. QED
    BY <1>3, <2>2 DEF ReadKey
<1>4. CASE DropRecord(j)
  BY <1>0, <1>4, <1>f, CallUpdates DEF DropRecord, FoundOf
<1>5. CASE LookupExisting(j)
  <2>1. KeyOwner(Target(j)) /\ Target(j) \in Jobs
    BY <1>0, <1>5 DEF LookupExisting, FoundOf, WellFormed, Target, TypeOK, ServiceTypeOK, Calls
  <2>2. record[Target(j)] # NoRecord
    BY <1>0, <2>1 DEF FoundInv, FoundOf
  <2>3. Answer(j, "conflict") \/ Goto(j, "get")
    BY <1>5, <2>2 DEF LookupExisting
  <2>q. QED
    BY <1>0, <1>5, <2>3, CallUpdates DEF LookupExisting, FoundOf
<1>6. CASE MarkAnalysisQueued(j)
  BY <1>0, <1>6, CallUpdates DEF MarkAnalysisQueued, FoundOf
<1>7. CASE Enqueue(j)
  BY <1>0, <1>7, <1>f, CallUpdates DEF Enqueue
<1>8. CASE AbortReserve(j) \/ UnmarkQueued(j) \/ DeleteOwnRecord(j) \/ ReadOwnKey(j)
              \/ DeleteOwnKey(j)
  BY <1>0, <1>8 DEF FoundOf, GetPCs, AbortReserve, UnmarkQueued, DeleteOwnRecord, ReadOwnKey,
     DeleteOwnKey
<1>q. QED
  BY <1>1, <1>2, <1>3, <1>4, <1>5, <1>6, <1>7, <1>8 DEF CreateStep

\* A create that holds its key keeps it, and its record.
LEMMA FoundCreate ==
    ASSUME TypeOK, WellFormed, MatchInv, FoundInv, NoSetback', NEW j \in Jobs, CreateStep(j)
    PROVE  KeysFound' /\ \A i \in Jobs : FoundOf(i)'
<1> USE JobAssumption DEF At
<1>0. NoSetback /\ KeysFound /\ \A i \in Jobs : FoundOf(i) /\ MatchOf(i)
  BY RecordWrites DEF ServiceNext, NoSetback, NoneOf, FoundInv, MatchInv
<1>1. /\ \A i \in Jobs \ {j} : call'[i] = call[i]
      /\ request' = request
      /\ ~At(j, "readKey") => call'[j].id = call[j].id
  BY CreateFrame DEF Callers, ReadKey
<1>2. \A i \in Jobs : KeyOwner(i) => KeyOwner(i)'
  <2>1. ASSUME KeyOwner(j) PROVE KeyOwner(j)'
    <3>1. call[j].pc \in {"mark", "enqueue"}
      BY <1>0, <2>1, CreateFrame DEF KeyOwner, Accepted, FoundOf, GetPCs, CreatePCs
    <3>2. call[j].id = j
      BY <1>0, <3>1 DEF MatchOf, OwnPCs, CreatePCs
    <3>q. QED
      BY <1>1, <3>1, <3>2, CreateSucceeds DEF KeyOwner, Accepted
  <2>q. QED
    BY <1>1, <2>1 DEF KeyOwner, Accepted
<1>3. \A i \in Jobs \ {j} : KeyOwner(i)' => KeyOwner(i)
  BY <1>1 DEF KeyOwner, Accepted
<1>4. \A k \in Keys : idem[k] # NoJob => idem'[k] # NoJob
  <2>1. idem' = idem \/ idem' = [idem EXCEPT ![KeyOf(j)] = j]
    BY CreateSucceeds DEF BindKey, storeVars
  <2>q. QED
    BY <2>1 DEF TypeOK, StateTypeOK
<1>5. \A i \in Jobs \ {j} : record'[i] = record[i]
  BY CreateSucceeds DEF SetRecord, DeleteRecord, storeVars, TypeOK, StateTypeOK
<1>6. KeysFound'
  <2>1. CASE UNCHANGED idem
    <3>1. \A k \in Keys : idem[k] # NoJob => idem[k] \in Jobs
      BY DEF TypeOK, StateTypeOK
    <3>q. QED
      BY <1>0, <1>2, <2>1, <3>1 DEF KeysFound
  <2>2. CASE At(j, "setKey") /\ call'[j].pc = "mark" /\ BindKey(KeyOf(j), j)
    <3>1. KeyOwner(j)'
      BY <2>2 DEF KeyOwner
    <3>2. \A k \in Keys : idem'[k] = j \/ (idem'[k] = idem[k] /\ idem[k] \in Jobs \cup {NoJob})
      BY <2>2 DEF BindKey, TypeOK, StateTypeOK
    <3>q. QED
      BY <1>0, <1>2, <3>1, <3>2 DEF KeysFound
  <2>q. QED
    BY <2>1, <2>2, CreateSucceeds DEF storeVars
<1>7. ASSUME NEW i \in Jobs, i # j PROVE FoundOf(i)'
  <2>1. FoundOf(i) /\ call'[i] = call[i] /\ record'[i] = record[i]
    BY <1>0, <1>1, <1>5, <1>7
  <2>2. At(i, "readKey") => KeyOf(i) \in Keys
    BY DEF WellFormed, KeyOf, TypeOK, ServiceTypeOK, Requests
  <2>3. call[i].pc \in {"dropRecord", "lookup", "get"} => call[i].id \in Jobs
    BY DEF WellFormed, TypeOK, ServiceTypeOK, Calls, Callers
  <2>4. call[i].pc \in {"dropRecord", "lookup", "get"} => KeyOwner(call[i].id)'
    BY <1>2, <2>1, <2>3 DEF FoundOf
  <2>5. KeyOwner(i)' => KeyOwner(i)
    BY <1>3, <1>7
  <2>q. QED
    BY <1>1, <1>4, <2>1, <2>2, <2>4, <2>5 DEF FoundOf, KeyOf
<1>8. FoundOf(j)'
  <2>0. /\ FoundOf(j) /\ KeyOf(j)' = KeyOf(j)
        /\ GetPCs = {"get", "snapshot", "unqueue"}
    BY <1>0, <1>1 DEF KeyOf, GetPCs
  <2>r. call'[j].reply # "missing"
    BY CreateSucceeds
  <2>1. CASE At(j, "start") /\ SetRecord(j, DomainOf(j), FALSE)
             /\ call'[j].pc = IF KeyOf(j) = NoKey THEN "mark" ELSE "setKey"
    <3>1. record'[j] = [domain |-> DomainOf(j), cancelled |-> FALSE]
      BY <2>1 DEF SetRecord, TypeOK, StateTypeOK
    <3>2. record'[j] \in Records
      BY <3>1 DEF Records, DomainOf, TypeOK, ServiceTypeOK, Requests
    <3>3. record'[j] # NoRecord
      BY <3>2 DEF Records
    <3>4. call'[j].pc \in {"mark", "setKey"}
      BY <2>1
    <3>q. QED
      BY <2>r, <3>3, <3>4 DEF FoundOf
  <2>2. CASE At(j, "setKey") /\ UNCHANGED record /\ call'[j].pc = "mark"
    BY <2>0, <2>2, <2>r DEF FoundOf
  <2>3. CASE At(j, "setKey") /\ UNCHANGED storeVars /\ call'[j].pc = "readKey"
             /\ idem[KeyOf(j)] # NoJob
    BY <2>0, <2>3, <2>r DEF FoundOf, storeVars, KeyOwner, Accepted
  <2>4. CASE At(j, "readKey") /\ UNCHANGED storeVars /\ call'[j].pc = "dropRecord"
             /\ call'[j].id = idem[KeyOf(j)]
    <3>1. KeyOf(j) \in Keys
      BY <2>4 DEF WellFormed, KeyOf, TypeOK, ServiceTypeOK, Requests
    <3>2. idem[KeyOf(j)] # NoJob /\ idem[KeyOf(j)] \in Jobs \cup {NoJob}
      BY <2>0, <2>4, <3>1 DEF FoundOf, TypeOK, StateTypeOK
    <3>3. PICK i \in Jobs : call'[j].id = i /\ KeyOwner(i)'
      BY <1>0, <1>2, <2>4, <3>1, <3>2 DEF KeysFound
    <3>q. QED
      BY <2>4, <3>3, <2>r DEF FoundOf, KeyOwner, Accepted
  <2>5. ASSUME call[j].pc \in {"dropRecord", "lookup"}
        PROVE  \E i \in Jobs : call'[j].id = i /\ KeyOwner(i)'
    <3>1. call[j].id \in Jobs
      BY <2>5 DEF WellFormed, TypeOK, ServiceTypeOK, Calls, Callers
    <3>q. QED
      BY <1>1, <1>2, <2>0, <2>5, <3>1 DEF FoundOf
  <2>6. CASE At(j, "dropRecord") /\ call'[j].pc = "lookup"
    BY <2>5, <2>6, <2>r DEF FoundOf, KeyOwner, Accepted
  <2>7. CASE At(j, "lookup")
    <3>1. call'[j].pc = "get" \/ (call'[j].pc = "done" /\ call'[j].reply = "conflict")
      BY <2>7, CreateSucceeds
    <3>q. QED
      BY <2>0, <2>5, <2>7, <2>r, <3>1 DEF FoundOf, KeyOwner, Accepted
  <2>8. CASE At(j, "mark") /\ UNCHANGED storeVars /\ call'[j].pc = "enqueue"
    BY <2>0, <2>8, <2>r DEF FoundOf, storeVars, KeyOwner
  <2>9. CASE At(j, "enqueue") /\ UNCHANGED storeVars /\ call'[j].pc = "done"
             /\ call'[j].reply = "queued"
    BY <2>0, <2>9, <2>r DEF FoundOf, storeVars, KeyOwner
  <2>10. CASE At(j, "start")
    BY <2>1, <2>10, CreateSucceeds
  <2>11. CASE At(j, "setKey")
    BY <2>2, <2>3, <2>11, CreateSucceeds
  <2>12. CASE At(j, "readKey")
    BY <2>4, <2>12, CreateSucceeds
  <2>13. CASE At(j, "dropRecord")
    BY <2>6, <2>13, CreateSucceeds
  <2>14. CASE At(j, "mark") \/ At(j, "enqueue")
    BY <2>8, <2>9, <2>14, CreateSucceeds
  <2>15. call[j].pc \in {"start", "setKey", "readKey", "dropRecord", "lookup", "mark", "enqueue"}
    BY <2>0, CreateFrame DEF FoundOf, CreatePCs
  <2>q. QED
    BY <2>10, <2>11, <2>12, <2>13, <2>14, <2>15, <2>7
<1>q. QED
  BY <1>6, <1>7, <1>8

\* A request leaves every record in place that there is, and answers a create that
\* was shown a job with anything but 404.
LEMMA FoundRequest ==
    ASSUME TypeOK, WellFormed, KeyInv, FoundInv, NoSetback', NEW p \in Callers,
           GetStep(p) \/ CancelStep(p) \/ RequestFails(p)
    PROVE  KeysFound' /\ \A i \in Jobs : FoundOf(i)'
<1> USE JobAssumption DEF At
<1>0. NoSetback /\ KeysFound /\ \A i \in Jobs : FoundOf(i) /\ KeyInvOf(i)
  BY RecordWrites DEF ServiceNext, NoSetback, NoneOf, FoundInv, KeyInv
<1>f. ~RequestFails(p)
  BY DEF RequestFails, NoSetback, NoneOf, Fault, Faults
<1>1. /\ \A i \in Callers \ {p} : call'[i] = call[i]
      /\ UNCHANGED <<request, idem>>
      /\ call'[p].id = call[p].id
  BY RequestFrame
<1>2. \A i \in Jobs : record[i] # NoRecord => record'[i] # NoRecord
  <2>1. UNCHANGED record \/ (CancelStep(p) /\ SetRecord(Target(p), DomainOf(Target(p)), At(p, "writeFlag")))
    BY <1>f DEF GetStep, GetRecord, GetSnapshot, RemoveFromQueue, CancelStep, CancelRecord,
       CancelSnapshot, ReadFlag, WriteFlag, Revoke, WriteUndo, storeVars
  <2>2. CASE CancelStep(p) /\ SetRecord(Target(p), DomainOf(Target(p)), At(p, "writeFlag"))
    <3>1. Target(p) \in Jobs
      BY <2>2 DEF CancelStep, CancelRecord, CancelSnapshot, ReadFlag, WriteFlag, Revoke,
         WriteUndo, WellFormed, Target, TypeOK, ServiceTypeOK, Calls
    <3>2. [domain |-> DomainOf(Target(p)), cancelled |-> At(p, "writeFlag")] \in Records
      BY <3>1 DEF Records, DomainOf, TypeOK, ServiceTypeOK, Requests
    <3>q. QED
      BY <2>2, <3>2 DEF SetRecord, Records, TypeOK, StateTypeOK
  <2>q. QED
    BY <2>1, <2>2
<1>3. \A i \in Jobs : KeyOwner(i)' <=> KeyOwner(i)
  <2>1. ASSUME p \in Jobs PROVE ~KeyOwner(p) /\ ~KeyOwner(p)'
    <3>1. call[p].pc \in GetPCs \cup {"lookup"} /\ call[p].id # p
      BY <1>0, <2>1, RequestFrame DEF KeyInvOf
    <3>2. call'[p].pc \in GetPCs \cup CancelPCs \cup {"idle", "done"}
      BY RequestFrame
    <3>q. QED
      BY <1>1, <3>1, <3>2 DEF KeyOwner, Accepted, GetPCs, CancelPCs
  <2>q. QED
    BY <1>1, <2>1 DEF KeyOwner, Accepted, Callers
<1>4. KeysFound'
  <2>1. \A k \in Keys : idem[k] # NoJob => idem[k] \in Jobs
    BY DEF TypeOK, StateTypeOK
  <2>q. QED
    BY <1>0, <1>1, <1>3, <2>1 DEF KeysFound
<1>5. ASSUME NEW i \in Jobs, i # p PROVE FoundOf(i)'
  <2>1. FoundOf(i) /\ call'[i] = call[i]
    BY <1>0, <1>1, <1>5 DEF Callers
  <2>2. call[i].pc \in {"dropRecord", "lookup", "get"} => call[i].id \in Jobs
    BY DEF WellFormed, TypeOK, ServiceTypeOK, Calls, Callers
  <2>q. QED
    BY <1>1, <1>2, <1>3, <2>1, <2>2 DEF FoundOf, KeyOf
<1>6. ASSUME p \in Jobs PROVE FoundOf(p)'
  <2>1. call[p].pc \in GetPCs
    <3>1. call[p].pc \notin CancelPCs
      BY <1>0, <1>6 DEF KeyInvOf
    <3>q. QED
      BY <1>f, <3>1 DEF GetStep, GetRecord, GetSnapshot, RemoveFromQueue, CancelStep,
         CancelRecord, CancelSnapshot, ReadFlag, WriteFlag, Revoke, WriteUndo, GetPCs, CancelPCs
  <2>2. GetStep(p)
    BY <1>f, <2>1 DEF CancelStep, CancelRecord, CancelSnapshot, ReadFlag, WriteFlag, Revoke,
       WriteUndo, GetPCs
  <2>3. \/ call'[p].pc \in {"snapshot", "unqueue"}
        \/ call'[p].pc = "done"
    BY <1>6, <2>2, CallUpdates DEF GetStep, GetRecord, GetSnapshot, RemoveFromQueue
  <2>5. call'[p].reply # "missing"
    <3>1. CASE GetRecord(p)
      <4>1. KeyOwner(Target(p)) /\ Target(p) \in Jobs
        BY <1>0, <1>6, <3>1 DEF GetRecord, FoundOf, WellFormed, Target, TypeOK, ServiceTypeOK,
           Calls
      <4>2. record[Target(p)] # NoRecord
        BY <1>0, <4>1 DEF FoundOf
      <4>3. UnqueueThenAnswer(p, "cancelled") \/ Goto(p, "snapshot")
        BY <3>1, <4>2 DEF GetRecord
      <4>q. QED
        BY <1>0, <1>6, <4>3, CallUpdates DEF FoundOf
    <3>2. CASE GetSnapshot(p)
      <4>1. PICK reply : reply # "missing" /\ Answer(p, reply)
        BY <3>2 DEF GetSnapshot, _job_from_snapshot
      <4>q. QED
        BY <1>6, <4>1, CallUpdates
    <3>3. CASE RemoveFromQueue(p)
      <4>1. Answer(p, call[p].reply) /\ call[p].reply # "missing"
        BY <1>0, <1>6, <3>3 DEF RemoveFromQueue, FoundOf
      <4>q. QED
        BY <1>6, <4>1, CallUpdates
    <3>q. QED
      BY <2>2, <3>1, <3>2, <3>3 DEF GetStep
  <2>4. ~KeyOwner(p)'
    BY <1>0, <1>1, <1>6, <2>1, <2>3 DEF KeyInvOf, KeyOwner, Accepted
  <2>q. QED
    BY <2>3, <2>4, <2>5 DEF FoundOf, GetPCs
<1>q. QED
  BY <1>4, <1>5, <1>6

\* Every step keeps FoundInv.
LEMMA FoundInvStep ==
    TypeOK /\ WellFormed /\ KeyInv /\ MatchInv /\ FoundInv /\ [Next]_vars => FoundInv'
<1> SUFFICES ASSUME TypeOK, WellFormed, KeyInv, MatchInv, FoundInv, [Next]_vars, NoSetback'
             PROVE  KeysFound' /\ \A i \in Jobs : FoundOf(i)'
  BY DEF FoundInv
<1> USE DEF At
<1>1. ASSUME UNCHANGED <<record, idem, request>>, \A i \in Jobs : call'[i] = call[i],
             faults \subseteq faults'
      PROVE  KeysFound' /\ \A i \in Jobs : FoundOf(i)'
  <2>1. KeysFound /\ \A i \in Jobs : FoundOf(i)
    BY <1>1 DEF FoundInv, NoSetback, NoneOf
  <2>2. \A i \in Jobs : KeyOwner(i)' <=> KeyOwner(i)
    BY <1>1 DEF KeyOwner, Accepted
  <2>3. \A k \in Keys : idem[k] # NoJob => idem[k] \in Jobs
    BY DEF TypeOK, StateTypeOK
  <2>4. ASSUME NEW i \in Jobs PROVE FoundOf(i)'
    <3>1. call[i].pc \in {"dropRecord", "lookup", "get"} => call[i].id \in Jobs
      BY DEF WellFormed, TypeOK, ServiceTypeOK, Calls, Callers
    <3>q. QED
      BY <1>1, <2>1, <2>2, <3>1 DEF FoundOf, KeyOf
  <2>q. QED
    BY <1>1, <2>1, <2>2, <2>3, <2>4 DEF KeysFound
<1>2. ASSUME NEW p \in Clients, NEW j \in Jobs, ClientAsks(p, j)
      PROVE  KeysFound' /\ \A i \in Jobs : FoundOf(i)'
  BY <1>1, <1>2, JobAssumption DEF ClientAsks, TypeOK, ServiceTypeOK, Callers, storeVars, NoFault
<1>3. ~Expiry
  BY DEF Expiry, ExpireRecord, ExpireTracked, ExpireKey, Fault, Faults, NoSetback, NoneOf
<1>4. CASE TaskNext
  <2>1. faults \subseteq faults'
    BY <1>4 DEF TaskNext, Deliver, Discard, Receive, RunStep, PublishInitial,
       Acquire, MarkAnalysisStarted, Analyze, Release, Retry, StoreOutcome, Acknowledge,
       ReportProgress, HandleRevocation, ExpireLease, OutliveLease, LeaseGoes, Loss, WorkerRestart, ChildLost,
       HardTimeLimit, LoseRevocation, ExpireResult, RemoveQueued, Fault, Faults, NoFault
  <2>q. QED
    BY <1>1, <1>4, <2>1, TaskFrame
<1>5. CASE UNCHANGED vars
  BY <1>1, <1>5 DEF vars, storeVars, serviceVars
<1>q. QED
  BY <1>2, <1>3, <1>4, <1>5, FoundCreate, FoundRequest DEF Next, ServiceNext

\* A duplicate create is told 404 only after a store command or a send failed or
\* something expired: until then the job of the create that holds the key exists.
THEOREM DuplicatesFindTheJob == Spec => []DuplicateCreateFindsJob
<1>1. Init => FoundInv
  <2> SUFFICES ASSUME Init PROVE FoundInv
    OBVIOUS
  <2>1. \A j \in Jobs : call[j].pc = "start" /\ call[j].reply = "none"
    BY DEF Init, ServiceInit, Callers
  <2>q. QED
    BY <2>1 DEF Init, StateInit, FoundInv, KeysFound, FoundOf, KeyOwner, Accepted, At
<1>2. FoundInv => DuplicateCreateFindsJob
  BY DEF FoundInv, FoundOf, NoSetback, DuplicateCreateFindsJob
<1>q. QED
  BY <1>1, <1>2, MatchInit, KeyInvStep, MatchInvStep, FoundInvStep, TypeInvariant, PTL DEF Spec
=============================================================================
