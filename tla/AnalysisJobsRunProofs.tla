------------------------- MODULE AnalysisJobsRunProofs -------------------------
(* Theorems about AnalysisJobs, continued: a cancelled job stays cancelled,   *)
(* a job has one message or one run, no more analyses are at work than slots, *)
(* a job that is over is never run again, and a failed create leaves nothing  *)
(* behind.                                                                    *)
EXTENDS AnalysisJobsProofs, FiniteSetTheorems

-----------------------------------------------------------------------------
(* The invariant that ties the record's flag to the revocations, the task    *)
(* state and what clients were told.                                          *)

\* No get request can find the job alive.
Dead(j) == record[j] # NoRecord => record[j].cancelled

\* Nobody knows the id of a job whose record was not written yet, and a create
\* has answered nothing before it ends.
FreshInv ==
    \A j \in Jobs :
        /\ call[j].pc \in CreatePCs => call[j].reply = "none"
        /\ call[j].pc = "start" =>
              /\ \A p \in Callers \ {j} : call[p].id # j
              /\ j \notin revocations \cup revokedIds
              /\ backend[j] # "REVOKED"

\* As long as no revoke failed, the flag is never taken back, and a revoke, a
\* revoked task and a "cancelled" answer all come after it.
CancelInv ==
    NoneOf({"revoke"}) =>
        /\ \A p \in Callers : call[p].pc \notin {"readUndo", "writeUndo"}
        /\ \A p \in Callers :
              (call[p].pc = "revoke" \/ call[p].reply = "cancelled") => Dead(Target(p))
        /\ \A j \in Jobs :
              (j \in revocations \cup revokedIds \/ backend[j] = "REVOKED") => Dead(j)

\* The task side: a broadcast becomes a remembered id and a revoked task.
LEMMA RevokedTask ==
    ASSUME TypeOK, WellFormed, TaskNext, NEW j \in Jobs,
           (j \in revocations \cup revokedIds \/ backend[j] = "REVOKED")'
    PROVE  j \in revocations \cup revokedIds \/ backend[j] = "REVOKED"
<1> USE DEF TypeOK, StateTypeOK
<1>1. CASE Deliver
  <2>1. ASSUME NEW m \in msgs, Discard(m) \/ \E w \in Children : Receive(w, m)
        PROVE  j \in revocations \cup revokedIds \/ backend[j] = "REVOKED"
    BY <2>1 DEF Discard, Receive, StoreState, taskVars, leaseVars, Messages
  <2>q. QED
    BY <1>1, <2>1 DEF Deliver
<1>2. ASSUME NEW w \in Children, TaskOf(w)
      PROVE  j \in revocations \cup revokedIds \/ backend[j] = "REVOKED"
  BY <1>2 DEF TaskOf, RunStep, PublishInitial, Acquire, MarkAnalysisStarted, Analyze, Release,
     Retry, StoreOutcome, Acknowledge, ReportProgress, ChildLost, HardTimeLimit, StoreState,
     taskVars, leaseVars, brokerVars
<1>3. ASSUME NEW i \in Jobs, HandleRevocation(i)
      PROVE  j \in revocations \cup revokedIds \/ backend[j] = "REVOKED"
  BY <1>3 DEF HandleRevocation, StoreState
<1>4. CASE WorkerRestart \/ \E i \in Jobs : ExpireLease(i) \/ OutliveLease(i) \/ LoseRevocation(i) \/ ExpireResult(i)
  BY <1>4 DEF WorkerRestart, ExpireLease, OutliveLease, LeaseGoes, LoseRevocation, ExpireResult, taskVars, leaseVars, brokerVars
<1>q. QED
  BY <1>1, <1>2, <1>3, <1>4 DEF TaskNext, Loss, TaskOf

\* A step of the worker keeps the two invariants.
LEMMA CancelInvTask ==
    ASSUME TypeOK, WellFormed, FreshInv, CancelInv, TaskNext
    PROVE  FreshInv' /\ CancelInv'
<1>1. UNCHANGED <<call, record>> /\ faults \subseteq faults'
  BY TaskFrame DEF TypeOK, StateTypeOK, TaskNext, Deliver, Discard, Receive, RunStep, PublishInitial,
     Acquire, MarkAnalysisStarted, Analyze, Release, Retry, StoreOutcome, Acknowledge,
     ReportProgress, HandleRevocation, ExpireLease, OutliveLease, LeaseGoes, Loss, WorkerRestart, ChildLost,
     HardTimeLimit, LoseRevocation, ExpireResult, RemoveQueued, Fault, Faults, NoFault
<1>2. FreshInv'
  BY <1>1, RevokedTask DEF FreshInv
<1>3. CancelInv'
  BY <1>1, RevokedTask DEF CancelInv, Dead, Target, NoneOf
<1>q. QED
  BY <1>2, <1>3

\* A create call writes its flag as FALSE only when nobody knows its job.
LEMMA CancelInvCreate ==
    ASSUME TypeOK, WellFormed, KeyInv, FreshInv, CancelInv, NEW j \in Jobs, CreateStep(j)
    PROVE  FreshInv' /\ CancelInv'
<1> USE JobAssumption DEF Callers
<1>1. /\ UNCHANGED <<revocations, revokedIds, backend>>
      /\ \A q \in Callers \ {j} : call'[q] = call[q]
      /\ faults \subseteq faults'
  BY CreateFrame DEF CreateStep, ReserveRecord, ReserveKey, ReadKey, DropRecord, AbortReserve,
     LookupExisting, MarkAnalysisQueued, Enqueue, UnmarkQueued, DeleteOwnRecord, ReadOwnKey,
     DeleteOwnKey, Fault, Faults, NoFault, MarkQueued, RemoveQueued
<1>2. \A i \in Jobs : Dead(i) => Dead(i)' \/ (i = j /\ At(j, "start"))
  BY DEF CreateStep, ReserveRecord, ReserveKey, ReadKey, DropRecord, AbortReserve,
     LookupExisting, MarkAnalysisQueued, Enqueue, UnmarkQueued, DeleteOwnRecord, ReadOwnKey,
     DeleteOwnKey, Dead, SetRecord, DeleteRecord, storeVars, TypeOK, StateTypeOK
<1>3. \/ call'[j].pc \in (CreatePCs \ {"start"}) \cup {"get"} /\ call'[j].reply = "none"
      \/ call'[j].pc = "done" /\ call'[j].reply # "cancelled"
  <2>1. call[j].reply = "none"
    BY CreateFrame DEF FreshInv
  <2>2. ASSUME NEW pc, Goto(j, pc) PROVE call'[j].pc = pc /\ call'[j].reply = "none"
    BY <2>1, <2>2, CallUpdates
  <2>3. ASSUME NEW reply, Answer(j, reply) PROVE call'[j].pc = "done" /\ call'[j].reply = reply
    BY <2>3, CallUpdates
  <2>4. CASE ReadKey(j)
    <3>1. CASE call' = [call EXCEPT ![j].pc = "dropRecord", ![j].id = idem[KeyOf(j)]]
      BY <2>1, <3>1 DEF TypeOK, ServiceTypeOK, Calls, CreatePCs
    <3>q. QED
      BY <2>2, <2>4, <3>1 DEF ReadKey, CreatePCs
  <2>5. CASE ReserveRecord(j)
    <3>1. ASSUME Goto(j, IF KeyOf(j) = NoKey THEN "mark" ELSE "setKey")
          PROVE  call'[j].pc \in {"mark", "setKey"} /\ call'[j].reply = "none"
      BY <2>2, <3>1
    <3>2. CASE Answer(j, "unavailable")
      BY <2>3, <3>2
    <3>q. QED
      BY <2>5, <3>1, <3>2 DEF ReserveRecord, CreatePCs
  <2>q. QED
    BY <2>2, <2>3, <2>4, <2>5 DEF CreateStep, ReserveKey, DropRecord, AbortReserve,
       LookupExisting, MarkAnalysisQueued, Enqueue, UnmarkQueued, DeleteOwnRecord, ReadOwnKey,
       DeleteOwnKey, CreatePCs
<1>4. FreshInv'
  <2>1. ASSUME NEW i \in Jobs, call[i].pc = "start", i # j PROVE call'[j].id # i
    <3>1. CASE ~ReadKey(j)
      BY <2>1, <3>1, CreateFrame DEF FreshInv
    <3>2. CASE ReadKey(j)
      <4>0. KeyOf(j) \in Keys
        BY <3>2 DEF ReadKey, At, WellFormed, KeyOf, TypeOK, ServiceTypeOK, Requests
      <4>1. idem[KeyOf(j)] # i
        BY <2>1, <4>0 DEF KeyInv, KeyInvOf
      <4>2. call[j].id # i
        BY <2>1 DEF FreshInv
      <4>3. CASE call' = [call EXCEPT ![j].pc = "dropRecord", ![j].id = idem[KeyOf(j)]]
        BY <4>1, <4>3 DEF TypeOK, ServiceTypeOK, Calls
      <4>q. QED
        BY <3>2, <4>2, <4>3, CallUpdates DEF ReadKey
    <3>q. QED
      BY <3>1, <3>2
  <2>q. QED
    BY <1>1, <1>3, <2>1 DEF FreshInv, CreatePCs
<1>5. CancelInv'
  <2>1. ASSUME NEW p \in Callers, call'[p].pc = "revoke" \/ call'[p].reply = "cancelled"
        PROVE  p # j /\ call'[p] = call[p] /\ (At(j, "start") => call[p].id # j)
    BY <1>1, <1>3, <2>1 DEF FreshInv, CreatePCs, At
  <2>2. ASSUME NEW p \in Callers, call'[p].pc \in {"readUndo", "writeUndo"}
        PROVE  call'[p] = call[p]
    BY <1>1, <1>3, <2>2 DEF CreatePCs
  <2>3. At(j, "start") => j \notin revocations \cup revokedIds /\ backend[j] # "REVOKED"
    BY DEF FreshInv, At
  <2>4. \A p \in Callers : Target(p) # NoJob => Target(p) \in Jobs
    BY DEF TypeOK, ServiceTypeOK, Calls, Target
  <2>5. ASSUME NoneOf({"revoke"})' PROVE NoneOf({"revoke"})
    BY <1>1, <2>5 DEF NoneOf
  <2>6. ASSUME NEW p \in Callers, call[p].pc = "revoke" \/ call[p].reply = "cancelled"
        PROVE  Target(p) \in Jobs
    BY <2>4, <2>6 DEF WellFormed, Target
  <2>q. QED
    BY <1>1, <1>2, <2>1, <2>2, <2>3, <2>5, <2>6 DEF CancelInv, Target
<1>q. QED
  BY <1>4, <1>5

\* What the step of a get or a cancel leaves in its own row of the table.
LEMMA CancelRequestOutcome ==
    ASSUME TypeOK, WellFormed, NEW p \in Callers,
           GetStep(p) \/ CancelStep(p) \/ RequestFails(p),
           NoneOf({"revoke"})',
           Target(p) \in Jobs, Target(p)' = Target(p),
           call[p].pc \notin {"readUndo", "writeUndo"},
           (call[p].pc = "revoke" \/ call[p].reply = "cancelled") => Dead(Target(p)),
           \A j \in Jobs : backend[j] = "REVOKED" => Dead(j),
           \A j \in Jobs : Dead(j) => Dead(j)'
    PROVE  /\ call'[p].pc \notin {"readUndo", "writeUndo"}
           /\ (call'[p].pc = "revoke" \/ call'[p].reply = "cancelled") => Dead(Target(p))'
<1> DEFINE Good == /\ call'[p].pc \notin {"readUndo", "writeUndo"}
                   /\ (call'[p].pc = "revoke" \/ call'[p].reply = "cancelled")
                         => Dead(Target(p))'
<1>1. ASSUME NEW pc, Goto(p, pc), pc \notin {"readUndo", "writeUndo"},
             pc = "revoke" => Dead(Target(p))'
      PROVE  Good
  BY <1>1, CallUpdates
<1>2. ASSUME NEW reply, Answer(p, reply), reply = "cancelled" => Dead(Target(p)) PROVE Good
  BY <1>2, CallUpdates
<1>3. ASSUME NEW reply, UnqueueThenAnswer(p, reply), reply = "cancelled" => Dead(Target(p))
      PROVE  Good
  <2>1. call'[p].pc = "unqueue" /\ call'[p].reply = reply
    BY <1>3 DEF UnqueueThenAnswer, TypeOK, ServiceTypeOK, Calls
  <2>q. QED
    BY <1>3, <2>1
<1>4. \A domain, state : _job_from_snapshot([domain |-> domain, cancelled |-> FALSE], state)
                             = "cancelled" => state = "REVOKED"
  BY DEF _job_from_snapshot
<1>5. CASE GetRecord(p)
  BY <1>1, <1>2, <1>3, <1>5 DEF GetRecord, Dead
<1>6. CASE GetSnapshot(p)
  BY <1>2, <1>4, <1>6 DEF GetSnapshot
<1>7. CASE RemoveFromQueue(p)
  BY <1>2, <1>7 DEF RemoveFromQueue
<1>8. CASE CancelRecord(p)
  BY <1>1, <1>2, <1>8 DEF CancelRecord, Dead
<1>9. CASE CancelSnapshot(p)
  BY <1>1, <1>3, <1>4, <1>9 DEF CancelSnapshot
<1>10. CASE ReadFlag(p)
  <2>1. record[Target(p)] = NoRecord => Dead(Target(p))'
    BY DEF Dead
  <2>2. Goto(p, IF record[Target(p)] = NoRecord THEN "revoke" ELSE "writeFlag")
    BY <1>10 DEF ReadFlag, At
  <2>q. QED
    BY <1>1, <2>1, <2>2
<1>11. CASE WriteFlag(p)
  <2>1. Dead(Target(p))'
    BY <1>11 DEF WriteFlag, SetRecord, Dead, TypeOK, StateTypeOK
  <2>q. QED
    BY <1>1, <1>11, <2>1 DEF WriteFlag
<1>12. CASE Revoke(p)
  BY <1>3, <1>12 DEF Revoke, At, Fault, Faults, NoneOf
<1>13. CASE RequestFails(p)
  BY <1>2, <1>13 DEF RequestFails
<1>q. QED
  BY <1>5, <1>6, <1>7, <1>8, <1>9, <1>10, <1>11, <1>12, <1>13
     DEF GetStep, CancelStep, WriteUndo, At

\* A cancel sets the flag before it revokes, and answers "cancelled" after it.
LEMMA CancelInvRequest ==
    ASSUME TypeOK, WellFormed, KeyInv, FreshInv, CancelInv, NEW p \in Callers,
           GetStep(p) \/ CancelStep(p) \/ RequestFails(p)
    PROVE  FreshInv' /\ CancelInv'
<1> USE JobAssumption DEF Callers
<1>1. /\ revocations' \subseteq revocations \cup {Target(p)}
      /\ revocations' # revocations => At(p, "revoke")
      /\ faults \subseteq faults'
  BY DEF GetStep, CancelStep, RequestFails, GetRecord, GetSnapshot, RemoveFromQueue,
     CancelRecord, CancelSnapshot, ReadFlag, WriteFlag, Revoke, WriteUndo, brokerVars,
     RemoveQueued, Fault, Faults, NoFault
<1>2. FreshInv'
  <2>1. ASSUME NEW j \in Jobs, call'[j].pc \in CreatePCs
        PROVE  j # p /\ call'[j] = call[j]
    BY <2>1, RequestFrame DEF CreatePCs, GetPCs, CancelPCs
  <2>2. \A q \in Callers : call'[q].id = call[q].id
    BY RequestFrame
  <2>3. UNCHANGED <<revokedIds, backend>>
    BY RequestFrame
  <2>4. "start" \in CreatePCs
    BY DEF CreatePCs
  <2>5. ASSUME NEW j \in Jobs
        PROVE  /\ call'[j].pc \in CreatePCs => call'[j].reply = "none"
               /\ call'[j].pc = "start" =>
                     /\ \A q \in Callers \ {j} : call'[q].id # j
                     /\ j \notin revocations' \cup revokedIds'
                     /\ backend'[j] # "REVOKED"
    BY <1>1, <2>1, <2>2, <2>3, <2>4 DEF FreshInv, Target
  <2>q. QED
    BY <2>5 DEF FreshInv
<1>3. CancelInv'
  <2> SUFFICES ASSUME NoneOf({"revoke"})' PROVE CancelInv'
    BY DEF CancelInv
  <2>1. NoneOf({"revoke"})
    BY <1>1 DEF NoneOf
  <2>2. /\ call[p].pc \notin {"readUndo", "writeUndo"}
        /\ (call[p].pc = "revoke" \/ call[p].reply = "cancelled") => Dead(Target(p))
        /\ \A j \in Jobs : backend[j] = "REVOKED" => Dead(j)
    BY <2>1 DEF CancelInv
  <2>3. Target(p) \in Jobs /\ Target(p)' = Target(p)
    BY RequestFrame DEF WellFormed, Target, TypeOK, ServiceTypeOK, Calls, GetPCs, CancelPCs
  <2>4. \A j \in Jobs : Dead(j) => Dead(j)'
    BY <2>2 DEF GetStep, CancelStep, RequestFails, GetRecord, GetSnapshot, RemoveFromQueue,
       CancelRecord, CancelSnapshot, ReadFlag, WriteFlag, Revoke, WriteUndo, storeVars,
       SetRecord, Dead, At, TypeOK, StateTypeOK
  <2>5. /\ call'[p].pc \notin {"readUndo", "writeUndo"}
        /\ (call'[p].pc = "revoke" \/ call'[p].reply = "cancelled") => Dead(Target(p))'
    BY CancelRequestOutcome, <2>1, <2>2, <2>3, <2>4
  <2>6. \A q \in Callers \ {p} :
           (call'[q].pc = "revoke" \/ call'[q].reply = "cancelled") => Dead(Target(q))'
    <3>1. ASSUME NEW q \in Callers \ {p}, call[q].pc = "revoke" \/ call[q].reply = "cancelled"
          PROVE  Target(q) \in Jobs /\ Dead(Target(q))
      BY <2>1, <3>1 DEF CancelInv, WellFormed, Target, TypeOK, ServiceTypeOK, Calls
    <3>q. QED
      BY <2>4, <3>1, RequestFrame DEF Target
  <2>7. \A q \in Callers \ {p} : call'[q].pc \notin {"readUndo", "writeUndo"}
    BY <2>1, RequestFrame DEF CancelInv
  <2>8. ASSUME NEW j \in Jobs, j \in revocations' \cup revokedIds' \/ backend'[j] = "REVOKED"
        PROVE  Dead(j)
    BY <1>1, <2>1, <2>2, <2>8, RequestFrame DEF CancelInv, At
  <2>q. QED
    BY <2>4, <2>5, <2>6, <2>7, <2>8 DEF CancelInv
<1>q. QED
  BY <1>2, <1>3

\* Every step keeps the two invariants.
LEMMA CancelInvStep ==
    TypeOK /\ WellFormed /\ KeyInv /\ FreshInv /\ CancelInv /\ [Next]_vars
        => FreshInv' /\ CancelInv'
<1> SUFFICES ASSUME TypeOK, WellFormed, KeyInv, FreshInv, CancelInv, [Next]_vars
             PROVE  FreshInv' /\ CancelInv'
  OBVIOUS
<1>1. ASSUME NEW p \in Clients, NEW j \in Jobs, ClientAsks(p, j) PROVE FreshInv' /\ CancelInv'
  <2>1. /\ UNCHANGED <<record, revocations, revokedIds, backend, faults>>
        /\ \A q \in Callers \ {p} : call'[q] = call[q]
        /\ call'[p].id = j /\ call'[p].reply = call[p].reply
        /\ call'[p].pc \in {"get", "cancel"} /\ p \notin Jobs /\ p \in Callers
        /\ j \in Known /\ Target(p) \in {NoJob, j}
    BY <1>1, JobAssumption DEF ClientAsks, storeVars, brokerVars, taskVars, leaseVars, NoFault, TypeOK,
       ServiceTypeOK, Calls, Callers
  <2>2. call[j].pc # "start"
    BY <2>1 DEF Known, At, FreshInv, Callers
  <2>3. FreshInv'
    BY <2>1, <2>2 DEF FreshInv, Callers
  <2>4. call'[p].reply = "cancelled" => Target(p) = j
    BY <2>1 DEF WellFormed, Target
  <2>5. CancelInv'
    BY <2>1, <2>4 DEF CancelInv, Target, NoneOf, Dead
  <2>q. QED
    BY <2>3, <2>5
<1>2. CASE Expiry
  <2>1. UNCHANGED <<call, revocations, revokedIds, backend>> /\ faults \subseteq faults'
    BY <1>2 DEF Expiry, ExpireRecord, ExpireTracked, ExpireKey, Fault, Faults, serviceVars,
       taskVars, leaseVars, brokerVars
  <2>2. \A j \in Jobs : Dead(j) => Dead(j)'
    <3>1. ASSUME NEW i \in Jobs, ExpireRecord(i) PROVE \A j \in Jobs : Dead(j) => Dead(j)'
      BY <3>1 DEF ExpireRecord, DeleteRecord, Dead, TypeOK, StateTypeOK
    <3>2. CASE UNCHANGED record
      BY <3>2 DEF Dead
    <3>q. QED
      BY <1>2, <3>1, <3>2 DEF Expiry, ExpireTracked, ExpireKey, storeVars
  <2>3. FreshInv'
    BY <2>1 DEF FreshInv
  <2>4. CancelInv'
    <3>1. ASSUME NEW p \in Callers, call[p].pc = "revoke" \/ call[p].reply = "cancelled"
          PROVE  Target(p) \in Jobs
      BY <3>1 DEF WellFormed, Target, TypeOK, ServiceTypeOK, Calls
    <3>q. QED
      BY <2>1, <2>2, <3>1 DEF CancelInv, Target, NoneOf
  <2>q. QED
    BY <2>3, <2>4
<1>3. CASE UNCHANGED vars
  BY <1>3 DEF vars, storeVars, serviceVars, taskVars, leaseVars, brokerVars, FreshInv, CancelInv, Dead,
     Target, NoneOf
<1>q. QED
  BY <1>1, <1>2, <1>3, CancelInvTask, CancelInvCreate, CancelInvRequest DEF Next, ServiceNext

\* Before any request, nobody knows a job and nothing is revoked.
LEMMA CancelInvInit == Init => KeyInv /\ FreshInv /\ CancelInv
<1> SUFFICES ASSUME Init PROVE KeyInv /\ FreshInv /\ CancelInv
  OBVIOUS
<1>1. /\ \A j \in Jobs : call[j].pc = "start" /\ call[j].id = j /\ call[j].reply = "none"
      /\ \A p \in Callers \ Jobs :
            call[p].pc = "idle" /\ call[p].id = NoJob /\ call[p].reply = "none"
  BY DEF Init, ServiceInit, Callers
<1>2. KeyInv
  BY <1>1, JobAssumption DEF Init, StateInit, KeyInv, KeyInvOf, KeyOwner, Accepted,
     At, GetPCs, CancelPCs
<1>3. FreshInv
  BY <1>1, JobAssumption DEF Init, StateInit, TaskInit, FreshInv, Callers
<1>4. CancelInv
  BY <1>1 DEF Init, StateInit, TaskInit, CancelInv, Callers
<1>q. QED
  BY <1>2, <1>3, <1>4

\* The invariant holds throughout.
LEMMA CancelInvariant == Spec => [](TypeOK /\ WellFormed /\ CancelInv)
  BY CancelInvInit, KeyInvStep, CancelInvStep, TypeInvariant, PTL DEF Spec

\* A client that was told its job is cancelled is never contradicted, unless a
\* revoke failed (cancel, get and the result mapping of _job_from_snapshot).
THEOREM CancelIsHonoured == Spec => []CancelHonoured
<1>1. TypeOK /\ WellFormed /\ CancelInv => CancelHonoured
  <2> SUFFICES ASSUME TypeOK, WellFormed, CancelInv, NEW p \in Callers,
                      call[p].reply = "cancelled", NoneOf({"revoke"})
               PROVE  Status(Target(p)) \in {"missing", "cancelled"}
    BY DEF CancelHonoured
  <2>1. Dead(Target(p))
    BY DEF CancelInv
  <2>q. QED
    BY <2>1 DEF Dead, Status, _job_from_snapshot
<1>q. QED
  BY <1>1, CancelInvariant, PTL

\* No task is revoked before its job was flagged cancelled (set_cancelled before
\* the revoke in cancel).
THEOREM RevokedWasFlagged == Spec => []RevokedIsFlagged
<1>1. CancelInv => RevokedIsFlagged
  BY DEF CancelInv, RevokedIsFlagged, Dead
<1>q. QED
  BY <1>1, CancelInvariant, PTL
-----------------------------------------------------------------------------
(* The distributed concurrency limit: a job has one message or one run, and a *)
(* run at work holds a slot.                                                  *)

\* While no run was lost after it had published its retry, a job has one message
\* or one run.
DeliveryInv ==
    NoneOf({"fork"}) =>
        /\ \A w, v \in Busy : run[w].job = run[v].job => w = v
        /\ \A w \in Busy : run[w].outcome # "retry" => \A m \in msgs : m.job # run[w].job
        /\ \A m, n \in msgs : m.job = n.job => m = n
        /\ \A w \in Children : run[w].outcome = "retry" => run[w].pc \in {"store", "ack"}

\* A run inside the limited section holds the lease of its job, unless it has gone.
SlotInv == \A w \in Children : InSection(w) /\ w \notin overrun => run[w].job \in slots

\* There are never more leases than slots.
SlotBound == Cardinality(slots) <= MaxConcurrency

\* A service step leaves the worker alone, and sends at most the first message of
\* a job.
LEMMA ServiceSends ==
    ASSUME ServiceNext
    PROVE  /\ UNCHANGED <<run, leaseVars>> /\ faults \subseteq faults'
           /\ \/ msgs' \subseteq msgs
              \/ \E j \in Jobs : /\ At(j, "enqueue")
                                 /\ msgs' \subseteq msgs \cup {[job |-> j, attempt |-> 0]}
<1>1. UNCHANGED <<run, leaseVars>> /\ faults \subseteq faults'
  BY DEF ServiceNext, CreateStep, ReserveRecord, ReserveKey, ReadKey, DropRecord,
     AbortReserve, LookupExisting, MarkAnalysisQueued, Enqueue, UnmarkQueued,
     DeleteOwnRecord, ReadOwnKey, DeleteOwnKey, GetStep, GetRecord, GetSnapshot,
     RemoveFromQueue, CancelStep, CancelRecord, CancelSnapshot, ReadFlag, WriteFlag, Revoke,
     WriteUndo, RequestFails, ClientAsks, Expiry, ExpireRecord, ExpireKey, ExpireTracked,
     MarkQueued, RemoveQueued, Fault, Faults, NoFault, taskVars, leaseVars
<1>2. ASSUME NEW j \in Jobs, Enqueue(j)
      PROVE  At(j, "enqueue") /\ msgs' \subseteq msgs \cup {[job |-> j, attempt |-> 0]}
  BY <1>2 DEF Enqueue
<1>3. ASSUME \A j \in Jobs : ~Enqueue(j) PROVE msgs' = msgs
  BY <1>3 DEF ServiceNext, CreateStep, ReserveRecord, ReserveKey, ReadKey, DropRecord,
     AbortReserve, LookupExisting, MarkAnalysisQueued, UnmarkQueued,
     DeleteOwnRecord, ReadOwnKey, DeleteOwnKey, GetStep, GetRecord, GetSnapshot,
     RemoveFromQueue, CancelStep, CancelRecord, CancelSnapshot, ReadFlag, WriteFlag, Revoke,
     WriteUndo, RequestFails, ClientAsks, Expiry, ExpireRecord, ExpireKey, ExpireTracked,
     brokerVars
<1>q. QED
  BY <1>1, <1>2, <1>3

\* What a step about child w does to the messages and to its own run.
LEMMA TaskOfStep ==
    ASSUME TypeOK, NEW w \in Children, TaskOf(w)
    PROVE  /\ faults \subseteq faults'
           /\ \A v \in Children \ {w} : run'[v] = run[v]
           /\ run[w].pc # "idle"
           /\ \/ /\ Retry(w) /\ run'[w].job = run[w].job
                 /\ run'[w].pc = "store"
                 /\ msgs' \subseteq msgs \cup
                        {[job |-> run[w].job, attempt |-> run[w].attempt + 1]}
                 /\ run'[w].outcome # "retry" => msgs' = msgs
              \/ /\ ChildLost(w) /\ run'[w] = Idle
                 /\ msgs' = msgs \cup {Held(w)}
                 /\ run[w].outcome = "retry" => ~NoneOf({"fork"})'
              \/ /\ ~Retry(w) /\ ~ChildLost(w) /\ msgs' = msgs
                 /\ \/ run'[w] = Idle
                    \/ /\ run'[w].job = run[w].job
                       /\ run'[w].outcome = run[w].outcome
                       /\ run[w].pc \in {"store", "ack"} => run'[w].pc \in {"store", "ack"}
                    \/ /\ run'[w].job = run[w].job /\ Runs(w, "analyzing")
                       /\ run'[w].outcome \in {"completed", "failed"}
<1>1. faults \subseteq faults'
  BY DEF TaskOf, RunStep, PublishInitial, Acquire, MarkAnalysisStarted, Analyze, Release,
     Retry, StoreOutcome, Acknowledge, ReportProgress, ChildLost, HardTimeLimit, RemoveQueued,
     Fault, Faults, NoFault
<1>2. \A v \in Children \ {w} : run'[v] = run[v]
  BY TaskOfOne
<1>3. run[w].pc # "idle"
  BY DEF TaskOf, RunStep, PublishInitial, Acquire, MarkAnalysisStarted, Analyze, Release,
     Retry, StoreOutcome, Acknowledge, ReportProgress, ChildLost, HardTimeLimit, Runs, Busy
<1>4. CASE Retry(w)
  <2>1. CASE Finish(w, "store", "retry") /\ msgs' = msgs \cup
                {[job |-> run[w].job, attempt |-> run[w].attempt + 1]}
    BY <1>1, <1>2, <1>3, <1>4, <2>1, RunUpdates
  <2>2. CASE Finish(w, "store", "failed") /\ msgs' = msgs
    BY <1>1, <1>2, <1>3, <1>4, <2>2, RunUpdates
  <2>q. QED
    BY <1>4, <2>1, <2>2 DEF Retry
<1>5. CASE ChildLost(w)
  <2>1. run'[w] = Idle /\ msgs' = msgs \cup {Held(w)}
    BY <1>5, RunUpdates DEF ChildLost
  <2>2. ASSUME run[w].outcome = "retry" PROVE ~NoneOf({"fork"})'
    BY <1>5, <2>2 DEF ChildLost, LossKinds, Faults, NoneOf
  <2>q. QED
    BY <1>1, <1>2, <1>3, <1>5, <2>1, <2>2
<1>6. CASE ~Retry(w) /\ ~ChildLost(w)
  <2>1. msgs' = msgs
    BY <1>6 DEF TaskOf, RunStep, PublishInitial, Acquire, MarkAnalysisStarted, Analyze,
       Release, StoreOutcome, Acknowledge, ReportProgress, HardTimeLimit, brokerVars
  <2>2. CASE HardTimeLimit(w) \/ Acknowledge(w)
    BY <1>1, <1>2, <1>3, <1>6, <2>1, <2>2, RunUpdates DEF HardTimeLimit, Acknowledge
  <2>3. CASE Analyze(w)
    BY <1>1, <1>2, <1>3, <1>6, <2>1, <2>3, RunUpdates DEF Analyze
  <2>4. CASE PublishInitial(w) \/ Acquire(w) \/ MarkAnalysisStarted(w) \/ Release(w)
                \/ StoreOutcome(w)
    <3>1. \/ run[w].pc \notin {"store", "ack"} /\ \E pc : Proceed(w, pc)
          \/ Proceed(w, "ack")
      BY <2>4 DEF PublishInitial, Acquire, MarkAnalysisStarted, Release, StoreOutcome, Runs
    <3>q. QED
      BY <1>1, <1>2, <1>3, <1>6, <2>1, <3>1, RunUpdates
  <2>5. CASE ReportProgress(w)
    BY <1>1, <1>2, <1>3, <1>6, <2>1, <2>5 DEF ReportProgress, taskVars, leaseVars
  <2>q. QED
    BY <1>6, <2>2, <2>3, <2>4, <2>5 DEF TaskOf, RunStep
<1>q. QED
  BY <1>4, <1>5, <1>6

\* A message is delivered once, requeued when its run is lost, and replaced by
\* the retry it publishes.
LEMMA DeliveryStep ==
    TypeOK /\ WellFormed /\ SentInv /\ DeliveryInv /\ [Next]_vars => DeliveryInv'
<1> SUFFICES ASSUME TypeOK, WellFormed, SentInv, DeliveryInv, [Next]_vars, NoneOf({"fork"})'
             PROVE  DeliveryInv'
  BY DEF DeliveryInv
<1> USE DEF Busy, Runs
<1>f. ASSUME faults \subseteq faults' PROVE NoneOf({"fork"})
  BY <1>f DEF NoneOf
<1>1. CASE ServiceNext
  <2>1. ASSUME NEW j \in Jobs, At(j, "enqueue")
        PROVE  (\A m \in msgs : m.job # j) /\ \A w \in Children : run[w].job # j
    BY <2>1 DEF SentInv, Sent, At
  <2>2. CASE msgs' \subseteq msgs
    BY <1>1, <1>f, <2>2, ServiceSends DEF DeliveryInv
  <2>3. ASSUME NEW j \in Jobs, At(j, "enqueue"),
               msgs' \subseteq msgs \cup {[job |-> j, attempt |-> 0]}
        PROVE  DeliveryInv'
    BY <1>1, <1>f, <2>1, <2>3, ServiceSends DEF DeliveryInv
  <2>q. QED
    BY <1>1, <2>2, <2>3, ServiceSends
<1>2. ASSUME NEW w \in Children, TaskOf(w) PROVE DeliveryInv'
  <2>0. NoneOf({"fork"})
    BY <1>2, <1>f, TaskOfStep
  <2>1. CASE Retry(w)
    <3>1. run[w].outcome # "retry" /\ \A m \in msgs : m.job # run[w].job
      BY <1>2, <2>0, <2>1, TaskOfStep DEF DeliveryInv, Retry
    <3>2. \A v \in Busy \ {w} : run[v].job # run[w].job
      BY <1>2, <2>0, TaskOfStep DEF DeliveryInv
    <3>3. \A v \in Children \ {w} : run'[v] = run[v]
      BY <1>2, TaskOfStep
    <3>4. CASE Finish(w, "store", "retry") /\ msgs' = msgs \cup
                  {[job |-> run[w].job, attempt |-> run[w].attempt + 1]}
      <4>1. run'[w].pc = "store" /\ run'[w].job = run[w].job /\ run'[w].outcome = "retry"
        BY <3>4, RunUpdates
      <4>q. QED
        BY <2>0, <3>1, <3>2, <3>3, <3>4, <4>1 DEF DeliveryInv
    <3>5. CASE Finish(w, "store", "failed") /\ msgs' = msgs
      <4>1. run'[w].pc = "store" /\ run'[w].job = run[w].job /\ run'[w].outcome = "failed"
        BY <3>5, RunUpdates
      <4>q. QED
        BY <2>0, <2>1, <3>1, <3>2, <3>3, <3>5, <4>1 DEF DeliveryInv, Retry
    <3>q. QED
      BY <2>1, <3>4, <3>5 DEF Retry
  <2>2. CASE ChildLost(w)
    <3>1. run[w].outcome # "retry" /\ \A m \in msgs : m.job # run[w].job
      BY <1>2, <2>0, <2>2, TaskOfStep DEF DeliveryInv, ChildLost, LossKinds, Faults, NoneOf
    <3>2. \A v \in Busy \ {w} : run[v].job # run[w].job
      BY <1>2, <2>0, TaskOfStep DEF DeliveryInv
    <3>3. run'[w] = Idle /\ msgs' = msgs \cup {Held(w)}
      BY <2>2, RunUpdates DEF ChildLost
    <3>q. QED
      BY <1>2, <2>0, <3>1, <3>2, <3>3, TaskOfStep DEF DeliveryInv, Idle, Held
  <2>3. CASE ~Retry(w) /\ ~ChildLost(w)
    BY <1>2, <2>0, <2>3, TaskOfStep DEF DeliveryInv, Idle
  <2>q. QED
    BY <2>1, <2>2, <2>3
<1>3. CASE Deliver
  <2>1. ASSUME NEW m \in msgs, Discard(m) PROVE DeliveryInv'
    BY <1>f, <2>1 DEF Discard, taskVars, leaseVars, NoFault, DeliveryInv
  <2>2. ASSUME NEW m \in msgs, NEW w \in Children, Receive(w, m) PROVE DeliveryInv'
    <3>1. /\ msgs' = msgs \ {m} /\ faults' = faults
          /\ \A v \in Children \ {w} : run'[v] = run[v]
          /\ run'[w].pc = "initial" /\ run'[w].job = m.job /\ run'[w].outcome = "none"
      BY <2>2 DEF Receive, NoFault, TypeOK, TaskTypeOK
    <3>2. NoneOf({"fork"})
      BY <1>f, <3>1
    <3>3. \A v \in Busy : run[v].job # m.job
      BY <2>2, <3>2 DEF Receive, Due, DeliveryInv
    <3>4. \A n \in msgs' : n.job # m.job
      BY <3>1, <3>2 DEF DeliveryInv
    <3>q. QED
      BY <2>2, <3>1, <3>2, <3>3, <3>4 DEF DeliveryInv
  <2>q. QED
    BY <1>3, <2>1, <2>2 DEF Deliver
<1>4. CASE WorkerRestart
  <2>1. NoneOf({"fork"})
    BY <1>4, <1>f DEF WorkerRestart, Faults
  <2>2. \A w \in Busy : run[w].outcome # "retry"
    BY <1>4 DEF WorkerRestart, LossKinds, Faults, NoneOf
  <2>3. ASSUME NEW m \in msgs', NEW n \in msgs', m.job = n.job PROVE m = n
    BY <1>4, <2>1, <2>2, <2>3 DEF WorkerRestart, DeliveryInv, Held
  <2>q. QED
    BY <1>4, <2>3 DEF WorkerRestart, DeliveryInv, Idle
<1>5. ASSUME NEW j \in Jobs, HandleRevocation(j) PROVE DeliveryInv'
  <2>1. /\ msgs' = msgs /\ faults' = faults
        /\ \A w \in Children : run'[w] \in {Idle, run[w]}
    BY <1>5 DEF HandleRevocation, NoFault
  <2>q. QED
    BY <1>f, <2>1 DEF DeliveryInv, Idle
<1>6. CASE \E j \in Jobs : ExpireLease(j) \/ OutliveLease(j) \/ LoseRevocation(j) \/ ExpireResult(j)
  BY <1>f, <1>6 DEF ExpireLease, OutliveLease, LeaseGoes, LoseRevocation, ExpireResult, taskVars, leaseVars, brokerVars, NoFault,
     Fault, Faults, DeliveryInv
<1>7. CASE UNCHANGED vars
  BY <1>f, <1>7 DEF vars, taskVars, leaseVars, brokerVars, DeliveryInv
<1>q. QED
  BY <1>1, <1>2, <1>3, <1>4, <1>5, <1>6, <1>7 DEF Next, TaskNext, Loss, TaskOf

\* A run enters the section by taking the lease of its job. Whatever takes the lease
\* away, its own release apart, makes an overrun of every run still in need of it.
LEMMA SlotStep == TypeOK /\ SlotInv /\ [Next]_vars => SlotInv'
<1> SUFFICES ASSUME TypeOK, SlotInv, [Next]_vars,
                    NEW v \in Children, InSection(v)', v \notin overrun'
             PROVE  run'[v].job \in slots'
  BY DEF SlotInv
<1> USE DEF Runs, InSection
<1>0. ASSUME run'[v] = run[v], v \notin overrun PROVE run'[v].job \in slots /\ InSection(v)
  BY <1>0 DEF SlotInv
<1>1. ASSUME UNCHANGED <<run, leaseVars>> PROVE run'[v].job \in slots'
  BY <1>0, <1>1 DEF leaseVars
<1>2. ASSUME NEW w \in Children, TaskOf(w) PROVE run'[v].job \in slots'
  <2>0. v # w => run'[v] = run[v]
    BY <1>2, TaskOfOne
  <2>1. CASE Release(w)
    <3>1. v # w
      BY <2>1, RunUpdates DEF Release
    <3>2. CASE UNCHANGED leaseVars
      BY <1>0, <2>0, <3>1, <3>2 DEF leaseVars
    <3>3. CASE LeaseGoes(run[w].job, Inside(run[w].job) \ {w})
      <4>1. run'[v].job \in slots /\ InSection(v) /\ run'[v] = run[v]
        BY <1>0, <2>0, <3>1, <3>3 DEF LeaseGoes
      <4>2. run[v].job # run[w].job
        BY <3>1, <3>3, <4>1 DEF LeaseGoes, Inside
      <4>q. QED
        BY <3>3, <4>1, <4>2 DEF LeaseGoes
    <3>q. QED
      BY <2>1, <3>2, <3>3 DEF Release
  <2>2. CASE Acquire(w)
    <3>1. slots \subseteq slots' /\ overrun' = overrun
      BY <2>2 DEF Acquire
    <3>2. CASE v # w
      BY <1>0, <2>0, <3>1, <3>2
    <3>3. CASE v = w
      <4>1. ~Proceed(w, "retry")
        BY <3>3, RunUpdates
      <4>2. run[w].job \in slots' /\ run'[w].job = run[w].job
        BY <2>2, <4>1, RunUpdates DEF Acquire
      <4>q. QED
        BY <3>3, <4>2
    <3>q. QED
      BY <3>2, <3>3
  <2>3. CASE ~Release(w) /\ ~Acquire(w)
    <3>1. slots' = slots /\ (overrun' = overrun \/ Stop(w))
      BY <1>2, <2>3 DEF TaskOf, RunStep, PublishInitial, MarkAnalysisStarted, Analyze, Retry,
         StoreOutcome, Acknowledge, ReportProgress, ChildLost, HardTimeLimit, taskVars, leaseVars
    <3>2. CASE v # w
      BY <1>0, <2>0, <3>1, <3>2 DEF Stop
    <3>3. CASE v = w
      <4>1. ~Stop(w)
        BY <3>3, RunUpdates DEF Idle
      <4>2. InSection(w) /\ run'[w].job = run[w].job
        <5>1. CASE MarkAnalysisStarted(w) \/ Analyze(w)
          BY <5>1, RunUpdates DEF MarkAnalysisStarted, Analyze
        <5>2. CASE ReportProgress(w)
          BY <3>3, <5>2 DEF ReportProgress, taskVars
        <5>3. CASE PublishInitial(w) \/ Retry(w) \/ StoreOutcome(w)
          BY <3>3, <5>3, RunUpdates DEF PublishInitial, Retry, StoreOutcome
        <5>q. QED
          BY <1>2, <2>3, <4>1, <5>1, <5>2, <5>3 DEF TaskOf, RunStep, Acknowledge, ChildLost,
             HardTimeLimit
      <4>q. QED
        BY <3>1, <3>3, <4>1, <4>2 DEF SlotInv
    <3>q. QED
      BY <3>2, <3>3
  <2>q. QED
    BY <2>1, <2>2, <2>3
<1>3. CASE Deliver
  <2>1. \/ run' = run
        \/ \E w \in Children, m \in msgs :
              run' = [run EXCEPT ![w] = [pc |-> "initial", job |-> m.job,
                                         attempt |-> m.attempt, outcome |-> "none"]]
    BY <1>3 DEF Deliver, Discard, Receive, taskVars
  <2>2. UNCHANGED leaseVars
    BY <1>3 DEF Deliver, Discard, Receive, taskVars
  <2>3. run'[v] = run[v]
    BY <2>1 DEF TypeOK, TaskTypeOK
  <2>q. QED
    BY <1>0, <2>2, <2>3 DEF leaseVars
<1>4. CASE WorkerRestart
  BY <1>4 DEF WorkerRestart, Idle
<1>5. ASSUME NEW j \in Jobs, HandleRevocation(j) PROVE run'[v].job \in slots'
  <2>1. PICK killed \in SUBSET Children :
            /\ run' = [w \in Children |-> IF w \in killed THEN Idle ELSE run[w]]
            /\ overrun' = overrun \ killed /\ slots' = slots
    BY <1>5 DEF HandleRevocation, Busy
  <2>2. run'[v] = run[v] /\ v \notin killed
    BY <2>1 DEF Idle
  <2>q. QED
    BY <1>0, <2>1, <2>2
<1>6. ASSUME NEW j \in Jobs, ExpireLease(j) \/ OutliveLease(j) PROVE run'[v].job \in slots'
  <2>1. run' = run /\ slots' = slots \ {j} /\ overrun \subseteq overrun'
        /\ (Inside(j) = {} \/ Inside(j) \subseteq overrun')
    BY <1>6 DEF ExpireLease, OutliveLease, LeaseGoes
  <2>2. run'[v].job \in slots /\ InSection(v)
    BY <1>0, <2>1
  <2>3. run[v].job # j
    BY <2>1, <2>2 DEF Inside
  <2>q. QED
    BY <2>1, <2>2, <2>3
<1>7. CASE \E j \in Jobs : LoseRevocation(j) \/ ExpireResult(j)
  BY <1>1, <1>7 DEF LoseRevocation, ExpireResult, taskVars
<1>q. QED
  BY <1>1, <1>2, <1>3, <1>4, <1>5, <1>6, <1>7, ServiceSends DEF Next, TaskNext, Loss, TaskOf,
     vars, taskVars

\* The leases are a finite set.
LEMMA SlotsFinite ==
    ASSUME NEW S \in SUBSET Jobs
    PROVE  IsFiniteSet(S) /\ Cardinality(S) \in Nat
BY JobAssumption, FS_Subset, FS_CardinalityType

\* A lease is granted only when a slot is free.
LEMMA SlotBoundStep == TypeOK /\ TypeOK' /\ SlotBound /\ [Next]_vars => SlotBound'
<1> SUFFICES ASSUME TypeOK, TypeOK', SlotBound, [Next]_vars PROVE SlotBound'
  OBVIOUS
<1> USE JobAssumption DEF SlotBound
<1>0. /\ IsFiniteSet(slots) /\ Cardinality(slots) \in Nat
      /\ IsFiniteSet(slots') /\ Cardinality(slots') \in Nat
  BY SlotsFinite DEF TypeOK, TaskTypeOK
<1>1. ASSUME slots' \subseteq slots PROVE SlotBound'
  <2>1. Cardinality(slots') <= Cardinality(slots)
    BY <1>0, <1>1, FS_Subset
  <2>q. QED
    BY <1>0, <2>1
<1>2. ASSUME NEW w \in Children, Acquire(w) PROVE SlotBound'
  <2>1. CASE Grantable(run[w].job) /\ slots' = slots \cup {run[w].job}
    <3>1. Cardinality(slots') = IF run[w].job \in slots THEN Cardinality(slots)
                                                         ELSE Cardinality(slots) + 1
      BY <1>0, <2>1, FS_AddElement
    <3>q. QED
      BY <1>0, <2>1, <3>1 DEF Grantable
  <2>2. CASE slots' = slots
    BY <2>2
  <2>q. QED
    BY <1>2, <2>1, <2>2 DEF Acquire
<1>3. ASSUME \A w \in Children : ~Acquire(w) PROVE slots' \subseteq slots
  <2>1. CASE ServiceNext
    BY <2>1, ServiceSends DEF leaseVars
  <2>2. CASE TaskNext
    BY <1>3, <2>2 DEF TaskNext, Deliver, Discard, Receive, RunStep, PublishInitial,
       MarkAnalysisStarted, Analyze, Release, Retry, StoreOutcome, Acknowledge,
       ReportProgress, HandleRevocation, ExpireLease, OutliveLease, LeaseGoes, Loss, WorkerRestart, ChildLost,
       HardTimeLimit, LoseRevocation, ExpireResult, taskVars, leaseVars
  <2>3. CASE UNCHANGED vars
    BY <2>3 DEF vars, taskVars, leaseVars
  <2>q. QED
    BY <2>1, <2>2, <2>3 DEF Next
<1>q. QED
  BY <1>1, <1>2, <1>3

\* The jobs at work have different leases, and so have the runs without a fork.
LEMMA SlotsSuffice ==
    TypeOK /\ DeliveryInv /\ SlotInv /\ SlotBound => ConcurrencyBound
<1> SUFFICES ASSUME TypeOK, DeliveryInv, SlotInv, SlotBound PROVE ConcurrencyBound
  OBVIOUS
<1> DEFINE leased == {w \in Children : InOperation(w)} \ overrun
           served == {run[w].job : w \in leased}
           Slot == [w \in leased |-> run[w].job]
<1>1. \A w \in leased : run[w].job \in slots
  BY DEF InOperation, InSection, Runs, SlotInv
<1>2. IsFiniteSet(slots) /\ Cardinality(slots) \in Nat
  BY SlotsFinite DEF TypeOK, TaskTypeOK
<1>3. Cardinality(served) <= MaxConcurrency
  <2>1. served \subseteq slots
    BY <1>1
  <2>2. IsFiniteSet(served) /\ Cardinality(served) <= Cardinality(slots)
    BY <1>2, <2>1, FS_Subset
  <2>3. Cardinality(served) \in Nat
    BY <2>2, FS_CardinalityType
  <2>q. QED
    BY <1>2, <2>2, <2>3, JobAssumption DEF SlotBound
<1>4. ASSUME NoneOf({"fork"}) PROVE Cardinality(leased) <= MaxConcurrency
  <2>1. \A w, v \in leased : run[w].job = run[v].job => w = v
    BY <1>4 DEF InOperation, Runs, Busy, DeliveryInv
  <2>2. Slot \in Injection(leased, slots)
    BY <1>1, <2>1 DEF Injection, IsInjective
  <2>3. IsFiniteSet(leased) /\ Cardinality(leased) <= Cardinality(slots)
    BY <1>2, <2>2, FS_Injection
  <2>4. Cardinality(leased) \in Nat
    BY <2>3, FS_CardinalityType
  <2>q. QED
    BY <1>2, <2>3, <2>4, JobAssumption DEF SlotBound
<1>q. QED
  BY <1>3, <1>4 DEF ConcurrencyBound

\* All that the bound rests on, from the start.
LEMMA ConcurrencyInit == Init => DeliveryInv /\ SlotInv /\ SlotBound /\ SentInv /\ KeyInv
BY FS_EmptySet, JobAssumption DEF Init, StateInit, ServiceInit, TaskInit, DeliveryInv, SlotInv,
   SlotBound, InSection, Busy, Runs, Idle, SentInv, Sent, KeyInv, KeyInvOf, KeyOwner, Accepted,
   At, Callers, CancelPCs, GetPCs

\* A job has one message or one run at a time (send_task once, late
\* acknowledgement, the retry published by the run it follows).
THEOREM DeliveredOnce == Spec => []SingleDelivery
<1>1. DeliveryInv => SingleDelivery
  BY DEF DeliveryInv, SingleDelivery
<1>q. QED
  BY <1>1, ConcurrencyInit, KeyInvStep, SentInvStep, DeliveryStep, TypeInvariant, PTL DEF Spec

\* At most ANALYSIS_MAX_CONCURRENCY jobs, and without a fork analyses, are at work but
\* for those whose lease has gone from under them (the acquire script, the finally
\* block that releases), for any number of jobs, children and slots.
THEOREM ConcurrencyIsBounded == Spec => []ConcurrencyBound
  BY ConcurrencyInit, KeyInvStep, SentInvStep, DeliveryStep, SlotStep, SlotBoundStep,
     SlotsSuffice, TypeInvariant, PTL DEF Spec
-----------------------------------------------------------------------------
(* What a failed create leaves behind.                                        *)

\* Only the mark of a create adds to the tracker, and only its own job.
LEMMA QueueWrites ==
    ASSUME TypeOK, [Next]_vars
    PROVE  /\ faults \subseteq faults'
           /\ \/ queued' \subseteq queued
              \/ \E j \in Jobs : MarkAnalysisQueued(j) /\ queued' \subseteq queued \cup {j}
<1>1. CASE ServiceNext
  <2>1. ASSUME NEW j \in Jobs, MarkAnalysisQueued(j) PROVE queued' \subseteq queued \cup {j}
    BY <2>1 DEF MarkAnalysisQueued, MarkQueued
  <2>2. ASSUME \A j \in Jobs : ~MarkAnalysisQueued(j) PROVE queued' \subseteq queued
    BY <1>1, <2>2 DEF ServiceNext, CreateStep, ReserveRecord, ReserveKey, ReadKey, DropRecord,
       AbortReserve, LookupExisting, Enqueue, UnmarkQueued,
       DeleteOwnRecord, ReadOwnKey, DeleteOwnKey, GetStep, GetRecord, GetSnapshot,
       RemoveFromQueue, CancelStep, CancelRecord, CancelSnapshot, ReadFlag, WriteFlag, Revoke,
       WriteUndo, RequestFails, ClientAsks, Expiry, ExpireRecord, ExpireKey, ExpireTracked,
       RemoveQueued
  <2>q. QED
    BY <1>1, <2>1, <2>2, RecordWrites
<1>2. CASE TaskNext
  <2>1. faults \subseteq faults'
    BY <1>2 DEF TaskNext, Deliver, Discard, Receive, RunStep, PublishInitial,
       Acquire, MarkAnalysisStarted, Analyze, Release, Retry, StoreOutcome, Acknowledge,
       ReportProgress, HandleRevocation, ExpireLease, OutliveLease, LeaseGoes, Loss, WorkerRestart, ChildLost,
       HardTimeLimit, LoseRevocation, ExpireResult, RemoveQueued, Fault, Faults, NoFault
  <2>q. QED
    BY <1>2, <2>1, TaskFrame
<1>3. CASE UNCHANGED vars
  BY <1>3 DEF vars
<1>q. QED
  BY <1>1, <1>2, <1>3 DEF Next

\* While no revoke fails, only the create that first writes a record makes a job
\* alive.
LEMMA DeadStays ==
    ASSUME TypeOK, WellFormed, CancelInv, [Next]_vars, NoneOf({"revoke"})',
           NEW j \in Jobs, Dead(j), ~At(j, "start")
    PROVE  Dead(j)'
<1> USE DEF Dead, TypeOK, StateTypeOK
<1>0. NoneOf({"revoke"})
  BY QueueWrites DEF NoneOf
<1>1. CASE ServiceNext
  <2>1. CASE UNCHANGED record
    BY <2>1
  <2>2. ASSUME NEW i \in Jobs, At(i, "start"), SetRecord(i, DomainOf(i), FALSE)
        PROVE  Dead(j)'
    BY <2>2 DEF SetRecord
  <2>3. ASSUME NEW i \in Jobs, DeleteRecord(i) PROVE Dead(j)'
    BY <2>3 DEF DeleteRecord
  <2>4. ASSUME NEW p \in Callers, call[p].pc \in {"writeFlag", "writeUndo"},
               SetRecord(Target(p), DomainOf(Target(p)), At(p, "writeFlag"))
        PROVE  Dead(j)'
    <3>1. At(p, "writeFlag")
      BY <1>0, <2>4 DEF CancelInv, At
    <3>q. QED
      BY <2>4, <3>1 DEF SetRecord
  <2>q. QED
    BY <1>1, <2>1, <2>2, <2>3, <2>4, RecordWrites
<1>2. CASE TaskNext
  BY <1>2, TaskFrame
<1>3. CASE UNCHANGED vars
  BY <1>3 DEF vars, storeVars
<1>q. QED
  BY <1>1, <1>2, <1>3 DEF Next

\* The create was answered 503 for its own job.
Failed(j) == At(j, "done") /\ call[j].reply = "unavailable" /\ call[j].id = j

\* The tracker holds no job whose create has not marked it, or has unmarked it; a
\* record is there only after its create has begun; the rollback leaves a job that
\* no get finds alive and that no key names.
LeftOf(j) ==
    /\ call[j].pc \in {"start", "setKey", "readKey", "dropRecord", "abort", "mark"}
          => j \notin queued
    /\ NoneOf({"tracker"}) /\ call[j].pc \in {"deleteRecord", "readOwnKey", "deleteKey"}
          => j \notin queued
    /\ At(j, "start") => record[j] = NoRecord
    /\ NoneOf({"store", "tracker", "revoke"}) =>
          /\ call[j].pc \in {"readOwnKey", "deleteKey"} => Dead(j)
          /\ At(j, "abort") => \A k \in Keys : idem[k] # j
          /\ Failed(j) => j \notin queued /\ Dead(j) /\ \A k \in Keys : idem[k] # j
LeftInv == \A j \in Jobs : LeftOf(j)

\* A step that is not of create j itself keeps what is left of job j.
LEMMA LeftStays ==
    ASSUME TypeOK, WellFormed, FreshInv, CancelInv, [Next]_vars, NEW j \in Jobs, LeftOf(j),
           call'[j] = call[j]
    PROVE  LeftOf(j)'
<1> USE JobAssumption DEF At
<1>1. \A kinds : NoneOf(kinds)' => NoneOf(kinds)
  BY QueueWrites DEF NoneOf
<1>2. ASSUME j \notin queued PROVE j \notin queued' \/ At(j, "mark")
  BY <1>2, QueueWrites DEF MarkAnalysisQueued
<1>3. ASSUME At(j, "mark") PROVE j \notin queued'
  <2>1. ~MarkAnalysisQueued(j)
    BY <1>3, CallUpdates DEF MarkAnalysisQueued, Callers
  <2>q. QED
    BY <1>3, <2>1, QueueWrites DEF LeftOf
<1>4. ASSUME ~At(j, "setKey"), \A k \in Keys : idem[k] # j PROVE \A k \in Keys : idem'[k] # j
  <2>1. \/ idem' = idem
        \/ \E i \in (Jobs \ {j}) \cup {NoJob} : \E k : idem' = [idem EXCEPT ![k] = i]
    BY <1>4, KeyWrites DEF BindKey
  <2>q. QED
    BY <1>4, <2>1 DEF TypeOK, StateTypeOK
<1>5. ASSUME At(j, "start"), record[j] = NoRecord PROVE record'[j] = NoRecord
  <2>1. CASE ServiceNext
    <3>1. CASE UNCHANGED record
      BY <1>5, <3>1
    <3>2. ASSUME NEW i \in Jobs, At(i, "start"), CreateStep(i),
                 SetRecord(i, DomainOf(i), FALSE)
          PROVE  record'[j] = NoRecord
      <4>1. ReserveRecord(i)
        BY <3>2 DEF CreateStep, ReserveKey, ReadKey, DropRecord, AbortReserve, LookupExisting,
           MarkAnalysisQueued, Enqueue, UnmarkQueued, DeleteOwnRecord, ReadOwnKey, DeleteOwnKey
      <4>2. call'[i].pc # "start"
        <5>1. ASSUME Goto(i, IF KeyOf(i) = NoKey THEN "mark" ELSE "setKey")
              PROVE  call'[i].pc \in {"mark", "setKey"}
          BY <5>1, CallUpdates DEF Callers
        <5>q. QED
          BY <4>1, <5>1, CallUpdates DEF ReserveRecord, Callers
      <4>q. QED
        BY <1>5, <3>2, <4>2 DEF SetRecord, TypeOK, StateTypeOK
    <3>3. ASSUME NEW i \in Jobs, DeleteRecord(i) PROVE record'[j] = NoRecord
      BY <1>5, <3>3 DEF DeleteRecord, TypeOK, StateTypeOK
    <3>4. ASSUME NEW p \in Callers, call[p].pc \in {"writeFlag", "writeUndo"},
                 SetRecord(Target(p), DomainOf(Target(p)), At(p, "writeFlag"))
          PROVE  record'[j] = NoRecord
      <4>1. Target(p) # j
        BY <1>5, <3>4 DEF FreshInv, Target
      <4>q. QED
        BY <1>5, <3>4, <4>1 DEF SetRecord, TypeOK, StateTypeOK
    <3>q. QED
      BY <2>1, <3>1, <3>2, <3>3, <3>4, RecordWrites
  <2>2. CASE TaskNext
    BY <1>5, <2>2, TaskFrame
  <2>3. CASE UNCHANGED vars
    BY <1>5, <2>3 DEF vars, storeVars
  <2>q. QED
    BY <2>1, <2>2, <2>3 DEF Next
<1>6. ASSUME Dead(j), ~At(j, "start"), NoneOf({"store", "tracker", "revoke"})'
      PROVE  Dead(j)'
  <2>1. NoneOf({"revoke"})'
    BY <1>6 DEF NoneOf
  <2>q. QED
    BY <1>6, <2>1, DeadStays
<1>q. QED
  BY <1>1, <1>2, <1>3, <1>4, <1>5, <1>6 DEF LeftOf, Failed

\* What one step of create j leaves of its own job.
LEMMA LeftCreate ==
    ASSUME TypeOK, WellFormed, KeyInv, MatchInv, LeftInv, NEW j \in Jobs, CreateStep(j)
    PROVE  LeftOf(j)'
<1> USE JobAssumption DEF At
<1>0. j \in Callers /\ LeftOf(j) /\ KeyInvOf(j) /\ MatchOf(j)
  BY DEF Callers, LeftInv, KeyInv, MatchInv
<1>1. \A kinds : NoneOf(kinds)' => NoneOf(kinds)
  BY RecordWrites DEF ServiceNext, NoneOf
<1>f. \A kind \in {"store", "tracker"} :
         Fault(kind) => ~NoneOf({"store", "tracker", "revoke"})' /\ ~NoneOf({kind})'
  BY DEF NoneOf, Fault, Faults
<1>d. DeleteRecord(j) => record'[j] = NoRecord
  BY DEF DeleteRecord, TypeOK, StateTypeOK
<1>2. CASE ReserveRecord(j)
  <2>1. \/ call'[j].pc \in {"mark", "setKey"}
        \/ call'[j].pc = "done" /\ ~NoneOf({"store", "tracker", "revoke"})'
    <3>1. ASSUME Goto(j, IF KeyOf(j) = NoKey THEN "mark" ELSE "setKey")
          PROVE  call'[j].pc \in {"mark", "setKey"}
      BY <1>0, <3>1, CallUpdates
    <3>q. QED
      BY <1>0, <1>2, <1>f, <3>1, CallUpdates DEF ReserveRecord
  <2>q. QED
    BY <1>0, <1>2, <2>1 DEF ReserveRecord, LeftOf, Failed
<1>3. CASE ReserveKey(j)
  <2>1. \/ call'[j].pc \in {"mark", "readKey"}
        \/ call'[j].pc = "abort" /\ ~NoneOf({"store", "tracker", "revoke"})'
    BY <1>0, <1>3, <1>f, CallUpdates DEF ReserveKey
  <2>q. QED
    BY <1>0, <1>3, <2>1 DEF ReserveKey, LeftOf, Failed
<1>4. CASE ReadKey(j)
  <2>1. call'[j].pc \in {"dropRecord", "abort"}
    <3>1. CASE call' = [call EXCEPT ![j].pc = "dropRecord", ![j].id = idem[KeyOf(j)]]
      BY <1>0, <3>1 DEF TypeOK, ServiceTypeOK, Calls
    <3>q. QED
      BY <1>0, <1>4, <3>1, CallUpdates DEF ReadKey
  <2>q. QED
    BY <1>0, <1>4, <2>1 DEF ReadKey, LeftOf, Failed, KeyInvOf, storeVars
<1>5. CASE DropRecord(j)
  <2>1. \/ call'[j].pc = "lookup"
        \/ call'[j].pc = "abort" /\ ~NoneOf({"store", "tracker", "revoke"})'
    BY <1>0, <1>5, <1>f, CallUpdates DEF DropRecord
  <2>q. QED
    BY <1>0, <1>5, <2>1 DEF DropRecord, LeftOf, Failed
<1>6. CASE AbortReserve(j)
  <2>1. call'[j].pc = "done"
    BY <1>0, <1>6, CallUpdates DEF AbortReserve
  <2>2. NoneOf({"store", "tracker", "revoke"})' => Dead(j)'
    BY <1>6, <1>d, <1>f DEF AbortReserve, Dead
  <2>q. QED
    BY <1>0, <1>1, <1>6, <2>1, <2>2 DEF AbortReserve, LeftOf, Failed
<1>7. CASE LookupExisting(j)
  <2>1. call'[j].pc \in {"done", "get"} /\ call'[j].id # j
    BY <1>0, <1>7, CallUpdates DEF LookupExisting, KeyInvOf
  <2>q. QED
    BY <2>1 DEF LeftOf, Failed
<1>8. CASE MarkAnalysisQueued(j)
  BY <1>0, <1>8, CallUpdates DEF MarkAnalysisQueued, LeftOf, Failed
<1>9. CASE Enqueue(j)
  <2>1. call'[j].pc = "unmark" \/ (call'[j].pc = "done" /\ call'[j].reply = "queued")
    BY <1>0, <1>9, CallUpdates DEF Enqueue
  <2>q. QED
    BY <2>1 DEF LeftOf, Failed
<1>10. CASE UnmarkQueued(j)
  <2>1. call'[j].pc = "deleteRecord"
    BY <1>0, <1>10, CallUpdates DEF UnmarkQueued
  <2>2. NoneOf({"tracker"})' => j \notin queued'
    BY <1>10, <1>f DEF UnmarkQueued, RemoveQueued
  <2>q. QED
    BY <2>1, <2>2 DEF LeftOf, Failed
<1>n. ASSUME call[j].pc \in {"deleteRecord", "readOwnKey", "deleteKey"}, queued' = queued
      PROVE  NoneOf({"tracker"})' => j \notin queued'
  BY <1>0, <1>1, <1>n DEF LeftOf
<1>t. NoneOf({"store", "tracker", "revoke"})' => NoneOf({"tracker"})'
  BY DEF NoneOf
<1>k. \A k \in Keys : idem[k] = j => k = KeyOf(j) /\ KeyOf(j) # NoKey
  BY DEF MatchInv, KeysMatch
<1>11. CASE DeleteOwnRecord(j)
  <2>1. \/ call'[j].pc = "readOwnKey" /\ record'[j] = NoRecord
        \/ call'[j].pc = "done" /\ KeyOf(j) = NoKey /\ record'[j] = NoRecord
        \/ call'[j].pc = "done" /\ ~NoneOf({"store", "tracker", "revoke"})'
    <3>1. ASSUME IF KeyOf(j) = NoKey THEN Answer(j, "unavailable") ELSE Goto(j, "readOwnKey")
          PROVE  \/ call'[j].pc = "readOwnKey"
                 \/ call'[j].pc = "done" /\ KeyOf(j) = NoKey
      BY <1>0, <3>1, CallUpdates
    <3>q. QED
      BY <1>0, <1>11, <1>d, <1>f, <3>1, CallUpdates DEF DeleteOwnRecord
  <2>2. NoneOf({"tracker"})' => j \notin queued'
    BY <1>11, <1>n DEF DeleteOwnRecord
  <2>3. idem' = idem
    BY <1>11 DEF DeleteOwnRecord
  <2>q. QED
    BY <1>k, <1>t, <2>1, <2>2, <2>3 DEF LeftOf, Failed, Dead
<1>12. CASE ReadOwnKey(j)
  <2>1. \/ call'[j].pc = "deleteKey"
        \/ call'[j].pc = "done" /\ idem[KeyOf(j)] # j
        \/ call'[j].pc = "done" /\ ~NoneOf({"store", "tracker", "revoke"})'
    BY <1>0, <1>12, <1>f, CallUpdates DEF ReadOwnKey
  <2>2. NoneOf({"tracker"})' => j \notin queued'
    BY <1>12, <1>n DEF ReadOwnKey
  <2>3. UNCHANGED <<record, idem>>
    BY <1>12 DEF ReadOwnKey, storeVars
  <2>4. NoneOf({"store", "tracker", "revoke"})' => Dead(j)'
    BY <1>0, <1>1, <1>12, <2>3 DEF LeftOf, ReadOwnKey, Dead
  <2>q. QED
    BY <1>k, <1>t, <2>1, <2>2, <2>3, <2>4 DEF LeftOf, Failed
<1>13. CASE DeleteOwnKey(j)
  <2>1. /\ call'[j].pc = "done"
        /\ NoneOf({"store", "tracker", "revoke"})' => BindKey(KeyOf(j), NoJob)
    BY <1>0, <1>13, <1>f, CallUpdates DEF DeleteOwnKey
  <2>2. NoneOf({"tracker"})' => j \notin queued'
    BY <1>13, <1>n DEF DeleteOwnKey
  <2>3. NoneOf({"store", "tracker", "revoke"})' => Dead(j)'
    BY <1>0, <1>1, <1>13 DEF LeftOf, DeleteOwnKey, Dead
  <2>4. BindKey(KeyOf(j), NoJob) => \A k \in Keys : idem'[k] # j
    BY <1>k DEF BindKey, TypeOK, StateTypeOK
  <2>q. QED
    BY <1>t, <2>1, <2>2, <2>3, <2>4 DEF LeftOf, Failed
<1>q. QED
  BY <1>2, <1>3, <1>4, <1>5, <1>6, <1>7, <1>8, <1>9, <1>10, <1>11, <1>12, <1>13 DEF CreateStep

\* Every step keeps LeftInv.
LEMMA LeftInvStep ==
    TypeOK /\ WellFormed /\ KeyInv /\ MatchInv /\ FreshInv /\ CancelInv /\ LeftInv /\ [Next]_vars
        => LeftInv'
<1> SUFFICES ASSUME TypeOK, WellFormed, KeyInv, MatchInv, FreshInv, CancelInv, LeftInv,
                    [Next]_vars, NEW i \in Jobs
             PROVE  LeftOf(i)'
  BY DEF LeftInv
<1>0. i \in Callers /\ LeftOf(i)
  BY DEF Callers, LeftInv
<1>1. ASSUME call'[i] = call[i] PROVE LeftOf(i)'
  BY <1>0, <1>1, LeftStays
<1>2. ASSUME NEW j \in Jobs, CreateStep(j) PROVE LeftOf(i)'
  BY <1>0, <1>1, <1>2, LeftCreate, CreateFrame
<1>3. ASSUME NEW p \in Callers, GetStep(p) \/ CancelStep(p) \/ RequestFails(p) PROVE LeftOf(i)'
  <2>1. CASE i = p
    <3>1. call[i].pc \in GetPCs \cup {"lookup"} /\ call[i].id # i
      BY <1>3, <2>1, RequestFrame DEF KeyInv, KeyInvOf
    <3>2. call'[i].pc \in GetPCs \cup CancelPCs \cup {"idle", "done"} /\ call'[i].id # i
      BY <1>3, <2>1, <3>1, RequestFrame
    <3>q. QED
      BY <3>2 DEF LeftOf, Failed, At, GetPCs, CancelPCs
  <2>2. CASE i # p
    BY <1>0, <1>1, <1>3, <2>2, RequestFrame
  <2>q. QED
    BY <2>1, <2>2
<1>4. ASSUME NEW p \in Clients, NEW j \in Jobs, ClientAsks(p, j) PROVE call'[i] = call[i]
  BY <1>4, JobAssumption DEF ClientAsks, TypeOK, ServiceTypeOK, Callers
<1>5. CASE Expiry
  BY <1>1, <1>5 DEF Expiry, ExpireRecord, ExpireTracked, ExpireKey, serviceVars
<1>6. CASE TaskNext
  BY <1>1, <1>6, TaskFrame
<1>7. CASE UNCHANGED vars
  BY <1>1, <1>7 DEF vars, serviceVars
<1>q. QED
  BY <1>1, <1>2, <1>3, <1>4, <1>5, <1>6, <1>7 DEF Next, ServiceNext

\* Nothing is left of what has not begun.
LEMMA LeftInit == Init => LeftInv
<1> SUFFICES ASSUME Init PROVE LeftInv
  OBVIOUS
<1>1. \A j \in Jobs : call[j].pc = "start"
  BY DEF Init, ServiceInit, Callers
<1>q. QED
  BY <1>1 DEF Init, StateInit, LeftInv, LeftOf, Failed, At

\* A create whose enqueue failed leaves no tracker entry, no key and no record but
\* one a concurrent cancel wrote back (the rollback of create and _delete_async).
THEOREM FailedCreateIsUndone == Spec => []FailedCreateLeavesNothing
<1>1. LeftInv => FailedCreateLeavesNothing
  <2> SUFFICES ASSUME LeftInv, NEW j \in Jobs, Failed(j), NoneOf({"store", "tracker", "revoke"})
               PROVE  /\ j \notin queued
                      /\ \A k \in Keys : idem[k] # j
                      /\ Status(j) \in {"missing", "cancelled"}
    BY DEF FailedCreateLeavesNothing, Failed
  <2>1. j \notin queued /\ Dead(j) /\ \A k \in Keys : idem[k] # j
    BY DEF LeftInv, LeftOf
  <2>q. QED
    BY <2>1 DEF Dead, Status, _job_from_snapshot
<1>q. QED
  BY <1>1, LeftInit, LeftInvStep, CancelInvInit, MatchInit, KeyInvStep, MatchInvStep,
     CancelInvStep, TypeInvariant, PTL DEF Spec

-----------------------------------------------------------------------------
(* A job that is over is never run again.                                     *)

\* The program points of a create that has called send_task.
SentPCs == {"unmark", "deleteRecord", "readOwnKey", "deleteKey", "done"}

\* The job was sent, no message of it is left, and a child that still has it only
\* acknowledges.
Over(j) ==
    /\ call[j].pc \in SentPCs
    /\ \A m \in msgs : m.job # j
    /\ \A w \in Busy : run[w].job = j => Runs(w, "ack")

\* A completed or failed task is over, and so is the job of a cancel that has found
\* its task ended.
NoLoss == NoneOf({"fork", "childLost", "restart"})
OverInv ==
    NoLoss =>
        /\ \A j \in Jobs : backend[j] \in {"SUCCESS", "FAILURE"} => Over(j)
        /\ \A p \in Callers :
              At(p, "unqueue") /\ call[p].reply # "cancelled" => Over(Target(p))

\* A create that has called send_task calls it no more.
LEMMA SentStays ==
    ASSUME TypeOK, WellFormed, [Next]_vars, NEW j \in Jobs, call[j].pc \in SentPCs
    PROVE  call'[j].pc \in SentPCs
<1> USE DEF SentPCs, At
<1>0. j \in Callers
  BY DEF Callers
<1>1. ASSUME NEW i \in Jobs, CreateStep(i) PROVE call'[j].pc \in SentPCs
  <2>1. CASE i # j
    BY <1>0, <1>1, <2>1, CreateFrame
  <2>2. CASE i = j
    <3>1. UnmarkQueued(j) \/ DeleteOwnRecord(j) \/ ReadOwnKey(j) \/ DeleteOwnKey(j)
      BY <1>1, <2>2 DEF CreateStep, ReserveRecord, ReserveKey, ReadKey, DropRecord,
         AbortReserve, LookupExisting, MarkAnalysisQueued, Enqueue
    <3>q. QED
      BY <1>0, <3>1, CallUpdates DEF UnmarkQueued, DeleteOwnRecord, ReadOwnKey, DeleteOwnKey
  <2>q. QED
    BY <2>1, <2>2
<1>2. ASSUME NEW p \in Callers, GetStep(p) \/ CancelStep(p) \/ RequestFails(p)
      PROVE  call'[j].pc \in SentPCs
  BY <1>0, <1>2, RequestFrame DEF GetPCs, CancelPCs
<1>3. ASSUME NEW p \in Clients, NEW i \in Jobs, ClientAsks(p, i) PROVE call'[j] = call[j]
  BY <1>3, JobAssumption DEF ClientAsks, TypeOK, ServiceTypeOK, Callers
<1>4. CASE Expiry
  BY <1>4 DEF Expiry, ExpireRecord, ExpireTracked, ExpireKey, serviceVars
<1>5. CASE TaskNext
  BY <1>5, TaskFrame
<1>6. CASE UNCHANGED vars
  BY <1>6 DEF vars, serviceVars
<1>q. QED
  BY <1>1, <1>2, <1>3, <1>4, <1>5, <1>6 DEF Next, ServiceNext

\* What a step about one child does to a job that is over: an acknowledgement.
LEMMA OverTask ==
    ASSUME TypeOK, NEW j \in Jobs, Over(j), NEW w \in Children, TaskOf(w), ~ChildLost(w)
    PROVE  /\ \A m \in msgs' : m.job # j
           /\ run[w].job = j => Acknowledge(w)
           /\ (run'[w].job = j /\ run'[w].pc # "idle") => (run[w].job = j /\ run[w].pc # "idle")
<1> USE DEF Runs, Busy
<1>1. run[w].pc # "idle" /\ (run'[w].job = run[w].job \/ run'[w] = Idle)
  BY TaskOfStep
<1>2. run[w].job = j => Acknowledge(w)
  BY <1>1 DEF Over, TaskOf, RunStep, PublishInitial, Acquire, MarkAnalysisStarted, Analyze,
     Release, Retry, StoreOutcome, ReportProgress, HardTimeLimit
<1>3. \A m \in msgs' : m.job # j
  <2>1. CASE Retry(w)
    <3>1. run[w].job # j
      BY <2>1 DEF Over, Retry
    <3>q. QED
      BY <2>1, <3>1 DEF Over, Retry
  <2>2. CASE ~Retry(w)
    BY <2>2, TaskOfStep DEF Over
  <2>q. QED
    BY <2>1, <2>2
<1>q. QED
  BY <1>1, <1>2, <1>3 DEF Idle

\* While no run is lost, a job that is over stays over.
LEMMA OverStays ==
    ASSUME TypeOK, WellFormed, [Next]_vars, NoLoss', NEW j \in Jobs, Over(j)
    PROVE  Over(j)'
<1> USE DEF Runs, Busy
<1>0. call'[j].pc \in SentPCs
  BY SentStays DEF Over
<1>1. CASE ServiceNext
  <2>1. ASSUME NEW i \in Jobs, At(i, "enqueue") PROVE i # j
    BY <2>1 DEF Over, At, SentPCs
  <2>q. QED
    BY <1>0, <1>1, <2>1, ServiceSends DEF Over
<1>2. ASSUME NEW w \in Children, TaskOf(w) PROVE Over(j)'
  <2>1. ~ChildLost(w)
    BY DEF ChildLost, LossKinds, Faults, NoLoss, NoneOf
  <2>2. /\ \A v \in Children \ {w} : run'[v] = run[v]
        /\ run[w].pc # "idle"
    BY <1>2, TaskOfStep
  <2>3. /\ \A m \in msgs' : m.job # j
        /\ run[w].job = j => Acknowledge(w)
        /\ (run'[w].job = j /\ run'[w].pc # "idle") => (run[w].job = j /\ run[w].pc # "idle")
    BY <1>2, <2>1, OverTask
  <2>4. Acknowledge(w) => run'[w].pc = "idle"
    BY RunUpdates DEF Acknowledge, Idle
  <2>q. QED
    BY <1>0, <2>2, <2>3, <2>4 DEF Over
<1>3. CASE Deliver
  <2>1. ASSUME NEW m \in msgs, Discard(m) PROVE Over(j)'
    BY <1>0, <2>1 DEF Over, Discard, taskVars, leaseVars
  <2>2. ASSUME NEW m \in msgs, NEW w \in Children, Receive(w, m) PROVE Over(j)'
    <3>1. /\ msgs' \subseteq msgs
          /\ \A v \in Children \ {w} : run'[v] = run[v]
          /\ run'[w].job = m.job
      BY <2>2 DEF Receive, TypeOK, TaskTypeOK
    <3>q. QED
      BY <1>0, <3>1 DEF Over
  <2>q. QED
    BY <1>3, <2>1, <2>2 DEF Deliver
<1>4. ~WorkerRestart
  BY DEF WorkerRestart, LossKinds, Faults, NoLoss, NoneOf
<1>5. ASSUME NEW i \in Jobs, HandleRevocation(i) PROVE Over(j)'
  <2>1. /\ msgs' = msgs
        /\ \A w \in Children : run'[w] \in {Idle, run[w]}
    BY <1>5 DEF HandleRevocation
  <2>q. QED
    BY <1>0, <2>1 DEF Over, Idle
<1>6. CASE \E i \in Jobs : ExpireLease(i) \/ OutliveLease(i) \/ LoseRevocation(i) \/ ExpireResult(i)
  BY <1>0, <1>6 DEF ExpireLease, OutliveLease, LeaseGoes, LoseRevocation, ExpireResult, taskVars, leaseVars, brokerVars, Over
<1>7. CASE UNCHANGED vars
  BY <1>0, <1>7 DEF vars, taskVars, leaseVars, brokerVars, Over
<1>q. QED
  BY <1>1, <1>2, <1>3, <1>4, <1>5, <1>6, <1>7 DEF Next, TaskNext, Loss, TaskOf

\* A task ends by the outcome its run stores, or by its hard time limit.
Ends(w, j) ==
    /\ run[w].job = j
    /\ (StoreOutcome(w) /\ run[w].outcome # "retry") \/ HardTimeLimit(w)

\* Nothing else makes a task completed or failed.
LEMMA TaskEnds ==
    ASSUME TypeOK, WellFormed, TaskNext, NEW j \in Jobs, backend'[j] \in {"SUCCESS", "FAILURE"}
    PROVE  backend'[j] = backend[j] \/ \E w \in Children : Ends(w, j)
<1> USE DEF TypeOK, StateTypeOK
<1>1. ASSUME NEW i, NEW state, StoreState(i, state),
             state \notin {"SUCCESS", "FAILURE"}
      PROVE  backend'[j] = backend[j]
  BY <1>1 DEF StoreState
<1>2. CASE Deliver
  BY <1>1, <1>2 DEF Deliver, Discard, Receive
<1>3. ASSUME NEW w \in Children, TaskOf(w)
      PROVE  backend'[j] = backend[j] \/ \E v \in Children : Ends(v, j)
  <2>1. CASE StoreOutcome(w)
    <3>1. CASE run[w].outcome = "retry"
      <4>1. StoreState(run[w].job, "RETRY")
        BY <2>1, <3>1 DEF StoreOutcome
      <4>q. QED
        BY <1>1, <4>1
    <3>2. CASE run[w].job # j
      BY <2>1, <3>2 DEF StoreOutcome, StoreState
    <3>q. QED
      BY <2>1, <3>1, <3>2 DEF Ends
  <2>2. CASE HardTimeLimit(w)
    <3>1. CASE run[w].job # j
      BY <2>2, <3>1 DEF HardTimeLimit, StoreState
    <3>q. QED
      BY <2>2, <3>1 DEF Ends
  <2>3. CASE PublishInitial(w) \/ ReportProgress(w)
    <3>1. StoreState(run[w].job, "PROGRESS") \/ backend' = backend
      BY <2>3 DEF PublishInitial, ReportProgress
    <3>q. QED
      BY <1>1, <3>1
  <2>4. CASE Acquire(w) \/ MarkAnalysisStarted(w) \/ Analyze(w) \/ Release(w) \/ Retry(w)
                \/ Acknowledge(w) \/ ChildLost(w)
    BY <2>4 DEF Acquire, MarkAnalysisStarted, Analyze, Release, Retry, Acknowledge, ChildLost,
       brokerVars
  <2>q. QED
    BY <1>3, <2>1, <2>2, <2>3, <2>4 DEF TaskOf, RunStep
<1>4. ASSUME NEW i \in Jobs, HandleRevocation(i) PROVE backend'[j] = backend[j]
  BY <1>1, <1>4 DEF HandleRevocation
<1>5. ASSUME NEW i \in Jobs, ExpireResult(i) PROVE backend'[j] = backend[j]
  BY <1>5 DEF ExpireResult
<1>6. CASE WorkerRestart \/ \E i \in Jobs : ExpireLease(i) \/ OutliveLease(i) \/ LoseRevocation(i)
  BY <1>6 DEF WorkerRestart, ExpireLease, OutliveLease, LeaseGoes, LoseRevocation, brokerVars
<1>q. QED
  BY <1>2, <1>3, <1>4, <1>5, <1>6 DEF TaskNext, Loss, TaskOf

\* When a task ends, its job is over: it had one run, and no message.
LEMMA EndsOver ==
    ASSUME TypeOK, WellFormed, SentInv, DeliveryInv, NoLoss, NEW j \in Jobs,
           [Next]_vars, NEW w \in Children, Ends(w, j)
    PROVE  Over(j)'
<1> USE DEF Runs, Busy
<1>0. w \in Busy /\ NoneOf({"fork"})
  BY DEF Ends, StoreOutcome, HardTimeLimit, NoLoss, NoneOf
<1>1. /\ run[w].outcome # "retry"
      /\ \A m \in msgs : m.job # j
      /\ \A v \in Busy \ {w} : run[v].job # j
  BY <1>0 DEF Ends, HardTimeLimit, DeliveryInv
<1>2. call'[j].pc \in SentPCs
  BY SentStays DEF SentInv, Sent, SentPCs, Ends
<1>3. msgs' = msgs /\ \A v \in Children \ {w} : run'[v] = run[v]
  BY RunUpdates DEF Ends, StoreOutcome, HardTimeLimit
<1>4. run'[w].pc \in {"ack", "idle"}
  BY RunUpdates DEF Ends, StoreOutcome, HardTimeLimit, Idle
<1>q. QED
  BY <1>1, <1>2, <1>3, <1>4 DEF Over

\* Every step keeps OverInv.
LEMMA OverInvStep ==
    TypeOK /\ WellFormed /\ SentInv /\ DeliveryInv /\ OverInv /\ [Next]_vars => OverInv'
<1> SUFFICES ASSUME TypeOK, WellFormed, SentInv, DeliveryInv, OverInv, [Next]_vars, NoLoss'
             PROVE  /\ \A j \in Jobs : backend'[j] \in {"SUCCESS", "FAILURE"} => Over(j)'
                    /\ \A p \in Callers :
                          (At(p, "unqueue") /\ call[p].reply # "cancelled" => Over(Target(p)))'
  BY DEF OverInv
<1> USE DEF At
<1>0. NoLoss
  BY QueueWrites DEF NoLoss, NoneOf
<1>1. \A j \in Jobs : Over(j) => Over(j)'
  BY OverStays
<1>2. ASSUME NEW j \in Jobs, backend'[j] \in {"SUCCESS", "FAILURE"} PROVE Over(j)'
  <2>1. CASE backend'[j] = backend[j]
    BY <1>0, <1>1, <1>2, <2>1 DEF OverInv
  <2>2. CASE TaskNext
    BY <1>0, <1>2, <2>1, <2>2, TaskEnds, EndsOver
  <2>3. CASE ServiceNext \/ UNCHANGED vars
    <3>1. backend' = backend
      BY <2>3 DEF ServiceNext, CreateStep, ReserveRecord, ReserveKey, ReadKey, DropRecord,
         AbortReserve, LookupExisting, MarkAnalysisQueued, Enqueue, UnmarkQueued,
         DeleteOwnRecord, ReadOwnKey, DeleteOwnKey, GetStep, GetRecord, GetSnapshot,
         RemoveFromQueue, CancelStep, CancelRecord, CancelSnapshot, ReadFlag, WriteFlag, Revoke,
         WriteUndo, RequestFails, ClientAsks, Expiry, ExpireRecord, ExpireKey, ExpireTracked,
         brokerVars, vars
    <3>q. QED
      BY <2>1, <3>1
  <2>q. QED
    BY <2>2, <2>3 DEF Next
<1>3. ASSUME NEW p \in Callers, call'[p].pc = "unqueue", call'[p].reply # "cancelled"
      PROVE  \E j \in Jobs : Target(p)' = j /\ Over(j)
  <2>0. ASSUME call[p].pc = "unqueue" PROVE Target(p) \in Jobs
    BY <2>0 DEF WellFormed, Target, TypeOK, ServiceTypeOK, Calls
  <2>1. CASE call'[p] = call[p]
    BY <1>0, <1>3, <2>0, <2>1 DEF OverInv, Target
  <2>2. ASSUME NEW j \in Jobs, CreateStep(j) PROVE call'[p] = call[p]
    <3>1. CASE p = j
      <4>1. CASE ReadKey(j)
        <5>1. CASE call' = [call EXCEPT ![j].pc = "dropRecord", ![j].id = idem[KeyOf(j)]]
          BY <1>3, <3>1, <5>1 DEF TypeOK, ServiceTypeOK, Calls
        <5>q. QED
          BY <1>3, <3>1, <4>1, <5>1, CallUpdates DEF ReadKey
      <4>2. CASE ReserveRecord(j)
        <5>1. ASSUME Goto(j, IF KeyOf(j) = NoKey THEN "mark" ELSE "setKey")
              PROVE  call'[j].pc \in {"mark", "setKey"}
          BY <3>1, <5>1, CallUpdates
        <5>q. QED
          BY <1>3, <3>1, <4>2, <5>1, CallUpdates DEF ReserveRecord
      <4>3. ASSUME NEW pc, Goto(j, pc) PROVE pc = "unqueue"
        BY <1>3, <3>1, <4>3, CallUpdates
      <4>4. ASSUME NEW reply PROVE ~Answer(j, reply)
        BY <1>3, <3>1, <4>4, CallUpdates
      <4>q. QED
        BY <2>2, <4>1, <4>2, <4>3, <4>4 DEF CreateStep, ReserveKey, DropRecord, AbortReserve,
           LookupExisting, MarkAnalysisQueued, Enqueue, UnmarkQueued, DeleteOwnRecord,
           ReadOwnKey, DeleteOwnKey
    <3>2. CASE p # j
      BY <2>2, <3>2, CreateFrame
    <3>q. QED
      BY <3>1, <3>2
  <2>3. ASSUME NEW q \in Callers, GetStep(q) \/ CancelStep(q) \/ RequestFails(q), q # p
        PROVE  call'[p] = call[p]
    BY <2>3, RequestFrame
  <2>4. ASSUME GetStep(p) \/ CancelStep(p) \/ RequestFails(p)
        PROVE  \E j \in Jobs : Target(p)' = j /\ Over(j)
    <3>1. Target(p)' = Target(p)
      BY <2>4, RequestFrame DEF Target
    <3>2. ASSUME NEW pc, Goto(p, pc) PROVE pc = "unqueue"
      BY <1>3, <3>2, CallUpdates
    <3>3. ASSUME NEW reply PROVE ~Answer(p, reply)
      BY <1>3, <3>3, CallUpdates
    <3>4. ASSUME NEW reply, UnqueueThenAnswer(p, reply) PROVE reply # "cancelled"
      BY <1>3, <3>4, CallUpdates
    <3>5. CancelSnapshot(p)
      BY <2>4, <3>2, <3>3, <3>4 DEF GetStep, GetRecord, GetSnapshot, RemoveFromQueue,
         CancelStep, CancelRecord, ReadFlag, WriteFlag, Revoke, WriteUndo, RequestFails
    <3>6. Target(p) \in Jobs
      BY <3>5 DEF CancelSnapshot, WellFormed, Target, TypeOK, ServiceTypeOK, Calls
    <3>7. backend[Target(p)] \in _TERMINAL_STATES /\ backend[Target(p)] # "REVOKED"
      <4>1. /\ backend[Target(p)] \in _TERMINAL_STATES
            /\ UnqueueThenAnswer(p, _job_from_snapshot(
                  [domain |-> DomainOf(Target(p)), cancelled |-> FALSE], backend[Target(p)]))
        BY <3>2, <3>5 DEF CancelSnapshot
      <4>2. \A rec : _job_from_snapshot(rec, "REVOKED") = "cancelled"
        BY DEF _job_from_snapshot
      <4>q. QED
        BY <3>4, <4>1, <4>2
    <3>q. QED
      BY <1>0, <3>1, <3>6, <3>7 DEF OverInv, _TERMINAL_STATES
  <2>5. ASSUME NEW q \in Clients, NEW j \in Jobs, ClientAsks(q, j) PROVE call'[p] = call[p]
    BY <1>3, <2>5 DEF ClientAsks, TypeOK, ServiceTypeOK, Calls
  <2>6. ASSUME Expiry PROVE call' = call
    BY <2>6 DEF Expiry, ExpireRecord, ExpireTracked, ExpireKey, serviceVars
  <2>7. ASSUME TaskNext PROVE call' = call
    BY <2>7, TaskFrame
  <2>8. ASSUME UNCHANGED vars PROVE call' = call
    BY <2>8 DEF vars, serviceVars
  <2>q. QED
    BY <2>1, <2>2, <2>3, <2>4, <2>5, <2>6, <2>7, <2>8 DEF Next, ServiceNext
<1>4. ASSUME NEW p \in Callers, call'[p].pc = "unqueue", call'[p].reply # "cancelled"
      PROVE  Over(Target(p))'
  <2>1. PICK j \in Jobs : Target(p)' = j /\ Over(j)
    BY <1>3, <1>4
  <2>2. Over(j)'
    BY <1>1, <2>1
  <2>q. QED
    BY <2>1, <2>2 DEF Over, Target
<1>q. QED
  BY <1>2, <1>4

-----------------------------------------------------------------------------
(* An accepted job that waits is counted.                                     *)

\* A message of the job is left, or a child that has not begun its analysis.
Unstarted(j) ==
    \/ \E m \in msgs : m.job = j
    \/ \E w \in Children : /\ run[w].job = j
                           /\ run[w].pc \in {"initial", "acquire", "started", "retry"}

\* The job was marked, and its analysis has not begun.
Waiting(j) == At(j, "enqueue") \/ (Accepted(j) /\ Unstarted(j))

\* As long as no tracker write fails and nothing expires or is lost, a job that
\* waits is in the tracker, or was cancelled.
Calm == NoneOf({"tracker", "expiry", "revoke", "childLost", "restart", "fork"})
WaitInv == Calm => \A j \in Jobs : Waiting(j) => j \in queued \/ Dead(j)

\* A job that is over does not wait.
LEMMA OverIsStarted ==
    ASSUME NEW j \in Jobs, Over(j)
    PROVE  ~Waiting(j)
BY DEF Over, Waiting, Unstarted, SentPCs, At, Busy, Runs

\* The worker has no way to make a job wait that did not.
LEMMA UnstartedStays ==
    ASSUME TypeOK, WellFormed, TaskNext, Calm', NEW j \in Jobs, Unstarted(j)'
    PROVE  Unstarted(j)
<1> USE DEF Unstarted, Runs
<1>1. CASE Deliver
  <2>1. ASSUME NEW m \in msgs, Discard(m) PROVE Unstarted(j)
    BY <2>1 DEF Discard, taskVars, leaseVars
  <2>2. ASSUME NEW m \in msgs, NEW w \in Children, Receive(w, m) PROVE Unstarted(j)
    <3>1. /\ msgs' \subseteq msgs
          /\ \A v \in Children \ {w} : run'[v] = run[v]
          /\ run'[w].job = m.job
      BY <2>2 DEF Receive, TypeOK, TaskTypeOK
    <3>q. QED
      BY <3>1
  <2>q. QED
    BY <1>1, <2>1, <2>2 DEF Deliver
<1>2. ASSUME NEW w \in Children, TaskOf(w) PROVE Unstarted(j)
  <2>0. /\ ~ChildLost(w)
        /\ \A v \in Children \ {w} : run'[v] = run[v]
        /\ run'[w].job = run[w].job \/ run'[w] = Idle
    BY <1>2, TaskOfStep DEF ChildLost, LossKinds, Faults, Calm, NoneOf
  <2>1. CASE Retry(w)
    BY <2>0, <2>1, RunUpdates DEF Retry
  <2>2. CASE PublishInitial(w) \/ Acquire(w)
    <3>1. msgs' = msgs /\ run[w].pc \in {"initial", "acquire"} /\ run'[w].pc # "idle"
      BY <2>2, RunUpdates DEF PublishInitial, Acquire, brokerVars
    <3>q. QED
      BY <2>0, <3>1 DEF Idle
  <2>3. CASE MarkAnalysisStarted(w) \/ Analyze(w) \/ Release(w) \/ StoreOutcome(w)
                \/ Acknowledge(w) \/ HardTimeLimit(w)
    <3>1. msgs' = msgs /\ run'[w].pc \notin {"initial", "acquire", "started", "retry"}
      BY <2>3, RunUpdates DEF MarkAnalysisStarted, Analyze, Release, StoreOutcome, Acknowledge,
         HardTimeLimit, brokerVars, Idle
    <3>q. QED
      BY <2>0, <3>1
  <2>4. CASE ReportProgress(w)
    BY <2>4 DEF ReportProgress, taskVars, leaseVars
  <2>q. QED
    BY <1>2, <2>0, <2>1, <2>2, <2>3, <2>4 DEF TaskOf, RunStep
<1>3. ~WorkerRestart
  BY DEF WorkerRestart, LossKinds, Faults, Calm, NoneOf
<1>4. ASSUME NEW i \in Jobs, HandleRevocation(i) PROVE Unstarted(j)
  <2>1. msgs' = msgs /\ \A w \in Children : run'[w] \in {Idle, run[w]}
    BY <1>4 DEF HandleRevocation
  <2>q. QED
    BY <2>1 DEF Idle
<1>5. CASE \E i \in Jobs : ExpireLease(i) \/ OutliveLease(i) \/ LoseRevocation(i) \/ ExpireResult(i)
  BY <1>5 DEF ExpireLease, OutliveLease, LeaseGoes, LoseRevocation, ExpireResult, taskVars, leaseVars, brokerVars
<1>q. QED
  BY <1>1, <1>2, <1>3, <1>4, <1>5 DEF TaskNext, Loss, TaskOf

\* A job begins to wait when its create marks it.
LEMMA WaitingStays ==
    ASSUME TypeOK, WellFormed, KeyInv, MatchInv, [Next]_vars, Calm', NEW j \in Jobs,
           Waiting(j)', ~MarkAnalysisQueued(j)
    PROVE  Waiting(j)
<1> USE DEF At
<1>0. j \in Callers
  BY DEF Callers
<1>1. ASSUME call'[j] = call[j], Unstarted(j)' => Unstarted(j) PROVE Waiting(j)
  BY <1>1 DEF Waiting, Accepted
<1>2. ASSUME NEW i \in Jobs, CreateStep(i) PROVE Waiting(j)
  <2>1. CASE i = j
    <3>1. CASE Enqueue(j)
      BY <3>1 DEF Enqueue, Waiting
    <3>2. CASE ~Enqueue(j)
      <4>0. call'[j].pc \in {"enqueue", "done"} /\ (call'[j].pc = "done" => call'[j].reply = "queued")
        BY DEF Waiting, Accepted
      <4>1. /\ \A pc : Goto(j, pc) => pc \in {"enqueue", "done"}
            /\ \A reply : Answer(j, reply) => reply = "queued"
        <5>1. ASSUME NEW pc, Goto(j, pc) PROVE pc \in {"enqueue", "done"}
          BY <1>0, <4>0, <5>1, CallUpdates
        <5>2. ASSUME NEW reply, Answer(j, reply) PROVE reply = "queued"
          BY <1>0, <4>0, <5>2, CallUpdates
        <5>q. QED
          BY <5>1, <5>2
      <4>2. ~ReadKey(j)
        <5>1. CASE call' = [call EXCEPT ![j].pc = "dropRecord", ![j].id = idem[KeyOf(j)]]
          <6>1. call'[j].pc = "dropRecord"
            BY <1>0, <5>1 DEF TypeOK, ServiceTypeOK, Calls
          <6>q. QED
            BY <6>1 DEF Waiting, Accepted
        <5>q. QED
          BY <4>1, <5>1 DEF ReadKey
      <4>3. ~ReserveRecord(j)
        <5>1. Goto(j, IF KeyOf(j) = NoKey THEN "mark" ELSE "setKey")
                 => call'[j].pc \in {"mark", "setKey"}
          BY <1>0, CallUpdates
        <5>q. QED
          BY <4>1, <5>1 DEF ReserveRecord, Waiting, Accepted
      <4>4. ~DeleteOwnRecord(j)
        BY <4>1 DEF DeleteOwnRecord
      <4>q. QED
        BY <1>2, <2>1, <3>2, <4>1, <4>2, <4>3, <4>4 DEF CreateStep, ReserveKey, DropRecord,
           AbortReserve, LookupExisting, UnmarkQueued, ReadOwnKey, DeleteOwnKey
    <3>q. QED
      BY <3>1, <3>2
  <2>2. CASE i # j
    <3>1. call'[j] = call[j] /\ run' = run
      BY <1>0, <1>2, <2>2, CreateFrame
    <3>2. \A m \in msgs' : m \in msgs \/ m.job = i
      <4>1. CASE Enqueue(i)
        BY <4>1 DEF Enqueue
      <4>2. CASE ~Enqueue(i)
        BY <1>2, <4>2 DEF CreateStep, ReserveRecord, ReserveKey, ReadKey, DropRecord,
           AbortReserve, LookupExisting, MarkAnalysisQueued, UnmarkQueued, DeleteOwnRecord,
           ReadOwnKey, DeleteOwnKey, brokerVars
      <4>q. QED
        BY <4>1, <4>2
    <3>q. QED
      BY <1>1, <2>2, <3>1, <3>2 DEF Unstarted
  <2>q. QED
    BY <2>1, <2>2
<1>3. ASSUME NEW p \in Callers, GetStep(p) \/ CancelStep(p) \/ RequestFails(p)
      PROVE  Waiting(j)
  <2>1. UNCHANGED <<msgs, run>>
    BY <1>3, RequestFrame
  <2>2. CASE p = j
    <3>1. call[j].pc \in GetPCs \cup {"lookup"} /\ call[j].id # j
      BY <1>3, <2>2, RequestFrame DEF KeyInv, KeyInvOf
    <3>2. call'[j].pc \in GetPCs \cup CancelPCs \cup {"idle", "done"} /\ call'[j].id # j
      BY <1>3, <2>2, <3>1, RequestFrame
    <3>q. QED
      BY <3>2 DEF Waiting, Accepted, GetPCs, CancelPCs
  <2>3. CASE p # j
    BY <1>0, <1>1, <1>3, <2>1, <2>3, RequestFrame DEF Unstarted
  <2>q. QED
    BY <2>2, <2>3
<1>4. ASSUME NEW p \in Clients, NEW i \in Jobs, ClientAsks(p, i) PROVE Waiting(j)
  <2>1. call'[j] = call[j] /\ UNCHANGED <<msgs, run>>
    BY <1>4, JobAssumption DEF ClientAsks, TypeOK, ServiceTypeOK, Callers, brokerVars, taskVars, leaseVars
  <2>q. QED
    BY <1>1, <2>1 DEF Unstarted
<1>5. CASE Expiry
  BY <1>1, <1>5 DEF Expiry, ExpireRecord, ExpireTracked, ExpireKey, serviceVars, brokerVars,
     taskVars, leaseVars, Unstarted
<1>6. CASE TaskNext
  BY <1>1, <1>6, TaskFrame, UnstartedStays
<1>7. CASE UNCHANGED vars
  BY <1>1, <1>7 DEF vars, serviceVars, brokerVars, taskVars, leaseVars, Unstarted
<1>q. QED
  BY <1>2, <1>3, <1>4, <1>5, <1>6, <1>7 DEF Next, ServiceNext

\* A job that waits leaves the tracker only when it is cancelled.
LEMMA CountedStays ==
    ASSUME TypeOK, WellFormed, SentInv, DeliveryInv, CancelInv, OverInv, [Next]_vars, Calm',
           NEW j \in Jobs, Waiting(j), Waiting(j)', j \in queued
    PROVE  j \in queued' \/ Dead(j)
<1> USE DEF At
<1>0. Calm /\ NoLoss /\ NoneOf({"revoke"}) /\ NoneOf({"fork"}) /\ ~Fault("tracker")
      /\ ~Fault("expiry")
  BY QueueWrites DEF Calm, NoLoss, NoneOf, Fault, Faults
<1>1. ~UnmarkQueued(j)
  BY DEF UnmarkQueued, Waiting, Accepted
<1>2. ASSUME NEW p \in Callers, RemoveFromQueue(p), Target(p) = j PROVE Dead(j)
  <2>1. CASE call[p].reply = "cancelled"
    BY <1>0, <1>2, <2>1 DEF CancelInv
  <2>2. CASE call[p].reply # "cancelled"
    <3>1. Over(j)
      BY <1>0, <1>2, <2>2 DEF RemoveFromQueue, OverInv
    <3>q. QED
      BY <3>1, OverIsStarted
  <2>q. QED
    BY <2>1, <2>2
<1>3. ASSUME NEW w \in Children, MarkAnalysisStarted(w), run[w].job = j PROVE FALSE
  <2>1. ~At(j, "enqueue") /\ call' = call
    BY <1>3 DEF SentInv, Sent, MarkAnalysisStarted, serviceVars
  <2>2. Unstarted(j)'
    BY <2>1 DEF Waiting, Accepted
  <2>3. w \in Busy /\ run[w].outcome # "retry"
    BY <1>0, <1>3 DEF MarkAnalysisStarted, Busy, Runs, DeliveryInv
  <2>4. (\A m \in msgs : m.job # j) /\ (\A v \in Busy \ {w} : run[v].job # j)
    BY <1>0, <1>3, <2>3 DEF DeliveryInv
  <2>5. /\ msgs' = msgs /\ run'[w].pc = "analyzing"
        /\ \A v \in Children \ {w} : run'[v] = run[v]
    BY <1>3, RunUpdates DEF MarkAnalysisStarted, brokerVars
  <2>q. QED
    BY <2>2, <2>4, <2>5 DEF Unstarted, Busy, Runs
<1>4. CASE ServiceNext
  <2>1. ASSUME NEW i \in Jobs, CreateStep(i) PROVE j \in queued'
    BY <1>0, <1>1, <2>1 DEF CreateStep, ReserveRecord, ReserveKey, ReadKey, DropRecord,
       AbortReserve, LookupExisting, MarkAnalysisQueued, Enqueue, UnmarkQueued,
       DeleteOwnRecord, ReadOwnKey, DeleteOwnKey, MarkQueued, RemoveQueued
  <2>2. ASSUME NEW p \in Callers, RemoveFromQueue(p), Target(p) # j PROVE j \in queued'
    BY <2>2 DEF RemoveFromQueue, RemoveQueued
  <2>3. ASSUME NEW p \in Callers, GetStep(p) \/ CancelStep(p) \/ RequestFails(p),
               ~RemoveFromQueue(p)
        PROVE  j \in queued'
    BY <2>3 DEF GetStep, GetRecord, GetSnapshot, CancelStep, CancelRecord, CancelSnapshot,
       ReadFlag, WriteFlag, Revoke, WriteUndo, RequestFails
  <2>4. ASSUME NEW p \in Clients, NEW i \in Jobs, ClientAsks(p, i) PROVE j \in queued'
    BY <2>4 DEF ClientAsks
  <2>5. ~Expiry
    BY <1>0 DEF Expiry, ExpireRecord, ExpireTracked, ExpireKey
  <2>q. QED
    BY <1>2, <1>4, <2>1, <2>2, <2>3, <2>4, <2>5 DEF ServiceNext
<1>5. CASE TaskNext
  <2>1. ASSUME NEW w \in Children, MarkAnalysisStarted(w) PROVE j \in queued'
    BY <1>3, <2>1 DEF MarkAnalysisStarted, RemoveQueued
  <2>2. ASSUME \A w \in Children : ~MarkAnalysisStarted(w) PROVE queued' = queued
    BY <1>5, <2>2 DEF TaskNext, Deliver, Discard, Receive, RunStep, PublishInitial,
       Acquire, Analyze, Release, Retry, StoreOutcome, Acknowledge,
       ReportProgress, HandleRevocation, ExpireLease, OutliveLease, LeaseGoes, Loss, WorkerRestart, ChildLost,
       HardTimeLimit, LoseRevocation, ExpireResult
  <2>q. QED
    BY <2>1, <2>2
<1>6. CASE UNCHANGED vars
  BY <1>6 DEF vars
<1>q. QED
  BY <1>4, <1>5, <1>6 DEF Next

\* Every step keeps WaitInv.
LEMMA WaitInvStep ==
    TypeOK /\ WellFormed /\ KeyInv /\ MatchInv /\ SentInv /\ DeliveryInv /\ CancelInv
        /\ OverInv /\ WaitInv /\ [Next]_vars => WaitInv'
<1> SUFFICES ASSUME TypeOK, WellFormed, KeyInv, MatchInv, SentInv, DeliveryInv, CancelInv,
                    OverInv, WaitInv, [Next]_vars, Calm', NEW j \in Jobs, Waiting(j)'
             PROVE  j \in queued' \/ Dead(j)'
  BY DEF WaitInv
<1>0. Calm /\ NoneOf({"revoke"})'
  BY QueueWrites DEF Calm, NoneOf
<1>1. CASE MarkAnalysisQueued(j)
  BY <1>1 DEF MarkAnalysisQueued, MarkQueued, Fault, Faults, Calm, NoneOf
<1>2. CASE ~MarkAnalysisQueued(j)
  <2>1. Waiting(j)
    BY <1>2, WaitingStays
  <2>2. j \in queued' \/ Dead(j)
    BY <1>0, <2>1, CountedStays DEF WaitInv
  <2>3. ~At(j, "start")
    BY <2>1 DEF Waiting, Accepted, At
  <2>q. QED
    BY <1>0, <2>2, <2>3, DeadStays
<1>q. QED
  BY <1>1, <1>2

\* Nothing has ended and nothing waits before the first create.
LEMMA OverInit == Init => OverInv /\ WaitInv
<1> SUFFICES ASSUME Init PROVE OverInv /\ WaitInv
  OBVIOUS
<1>1. /\ \A j \in Jobs : call[j].pc = "start"
      /\ \A p \in Callers : call[p].pc \in {"start", "idle"}
  BY DEF Init, ServiceInit, Callers
<1>q. QED
  BY <1>1 DEF Init, StateInit, OverInv, WaitInv, Waiting, Accepted, At

\* All that the rest of the theorems need, at once.
JobInv ==
    /\ TypeOK /\ WellFormed /\ KeyInv /\ MatchInv /\ SentInv /\ DeliveryInv
    /\ FreshInv /\ CancelInv /\ LeftInv /\ OverInv /\ WaitInv

\* The invariants hold together in every reachable state.
LEMMA JobInvariant == Spec => []JobInv
<1>1. Init => KeyInv /\ MatchInv /\ SentInv /\ DeliveryInv /\ FreshInv /\ CancelInv /\ LeftInv
                 /\ OverInv /\ WaitInv
  BY CancelInvInit, MatchInit, ConcurrencyInit, LeftInit, OverInit
<1>2. JobInv /\ [Next]_vars =>
         KeyInv' /\ MatchInv' /\ SentInv' /\ DeliveryInv' /\ FreshInv' /\ CancelInv' /\ LeftInv'
            /\ OverInv' /\ WaitInv'
  BY KeyInvStep, MatchInvStep, SentInvStep, DeliveryStep, CancelInvStep, LeftInvStep,
     OverInvStep, WaitInvStep DEF JobInv
<1>q. QED
  BY <1>1, <1>2, TypeInvariant, PTL DEF Spec, JobInv

\* The queue depth counts every accepted job that waits for its analysis and is not
\* cancelled (mark_analysis_queued before send_task, and the removals of cancel, get
\* and mark_analysis_started).
THEOREM WaitingJobsAreCounted == Spec => []WaitingIsCounted
<1>1. JobInv => WaitingIsCounted
  <2> SUFFICES ASSUME JobInv, NEW j \in Jobs, Accepted(j), Status(j) \in {"queued", "running"},
                      \E m \in msgs : m.job = j, Calm
               PROVE  j \in queued
    BY DEF WaitingIsCounted, Calm
  <2>1. j \in queued \/ Dead(j)
    BY DEF JobInv, WaitInv, Waiting, Unstarted
  <2>2. ~Dead(j)
    BY DEF Dead, Status, _job_from_snapshot
  <2>q. QED
    BY <2>1, <2>2
<1>q. QED
  BY <1>1, JobInvariant, PTL

-----------------------------------------------------------------------------
(* A terminal status changes only to cancelled.                               *)

\* What a client is shown for a record and a task state.
LEMMA Snapshot ==
    ASSUME NEW rec \in Records, NEW state \in TaskStates
    PROVE  /\ _job_from_snapshot(rec, state) = "cancelled" <=> rec.cancelled \/ state = "REVOKED"
           /\ _job_from_snapshot(rec, state) = "completed"
                 <=> ~rec.cancelled /\ state = "SUCCESS"
           /\ _job_from_snapshot(rec, state) = "failed" <=> ~rec.cancelled /\ state = "FAILURE"
<1>0. rec.cancelled \in BOOLEAN
  BY DEF Records
<1>1. CASE rec.cancelled \/ state = "REVOKED"
  BY <1>1 DEF _job_from_snapshot
<1>2. CASE ~rec.cancelled /\ state = "SUCCESS"
  BY <1>2 DEF _job_from_snapshot
<1>3. CASE ~rec.cancelled /\ state = "FAILURE"
  BY <1>3 DEF _job_from_snapshot
<1>4. CASE ~rec.cancelled /\ state \in {"STARTED", "RETRY", "PROGRESS"}
  BY <1>4 DEF _job_from_snapshot
<1>5. CASE ~rec.cancelled /\ state = "PENDING"
  BY <1>5 DEF _job_from_snapshot
<1>q. QED
  BY <1>0, <1>1, <1>2, <1>3, <1>4, <1>5 DEF TaskStates

\* The result of a job that is over is only ever overwritten by a revocation.
LEMMA ResultStays ==
    ASSUME TypeOK, WellFormed, [Next]_vars, NoneOf({"resultExpiry", "childLost", "restart"})',
           NEW j \in Jobs, Over(j), backend[j] \in {"SUCCESS", "FAILURE"}
    PROVE  backend'[j] \in {backend[j], "REVOKED"}
<1> USE DEF TypeOK, StateTypeOK, Runs, Busy
<1>1. ASSUME NEW i, NEW state, StoreState(i, state), i # j PROVE backend'[j] = backend[j]
  BY <1>1 DEF StoreState
<1>2. CASE Deliver
  <2>1. ASSUME NEW m \in msgs, Discard(m) \/ \E w \in Children : Receive(w, m)
        PROVE  backend'[j] = backend[j]
    BY <1>1, <2>1 DEF Over, Discard, Receive
  <2>q. QED
    BY <1>2, <2>1 DEF Deliver
<1>3. ASSUME NEW w \in Children, TaskOf(w) PROVE backend'[j] = backend[j]
  <2>0. ~ChildLost(w)
    BY DEF ChildLost, LossKinds, Faults, NoneOf
  <2>1. CASE run[w].job = j
    <3>1. Acknowledge(w)
      BY <1>3, <2>0, <2>1, OverTask
    <3>q. QED
      BY <3>1 DEF Acknowledge, brokerVars
  <2>2. CASE run[w].job # j
    BY <1>1, <1>3, <2>0, <2>2 DEF TaskOf, RunStep, PublishInitial, Acquire, MarkAnalysisStarted,
       Analyze, Release, Retry, StoreOutcome, Acknowledge, ReportProgress, HardTimeLimit,
       brokerVars
  <2>q. QED
    BY <2>1, <2>2
<1>4. ASSUME NEW i \in Jobs, HandleRevocation(i)
      PROVE  backend'[j] \in {backend[j], "REVOKED"}
  BY <1>4 DEF HandleRevocation, StoreState
<1>5. \A i \in Jobs : ~ExpireResult(i)
  BY DEF ExpireResult, Fault, Faults, NoneOf
<1>6. CASE WorkerRestart \/ \E i \in Jobs : ExpireLease(i) \/ OutliveLease(i) \/ LoseRevocation(i)
  BY <1>6 DEF WorkerRestart, ExpireLease, OutliveLease, LeaseGoes, LoseRevocation, brokerVars
<1>7. CASE ServiceNext \/ UNCHANGED vars
  BY <1>7 DEF ServiceNext, CreateStep, ReserveRecord, ReserveKey, ReadKey, DropRecord,
     AbortReserve, LookupExisting, MarkAnalysisQueued, Enqueue, UnmarkQueued,
     DeleteOwnRecord, ReadOwnKey, DeleteOwnKey, GetStep, GetRecord, GetSnapshot,
     RemoveFromQueue, CancelStep, CancelRecord, CancelSnapshot, ReadFlag, WriteFlag, Revoke,
     WriteUndo, RequestFails, ClientAsks, Expiry, ExpireRecord, ExpireKey, ExpireTracked,
     brokerVars, vars
<1>q. QED
  BY <1>2, <1>3, <1>4, <1>5, <1>6, <1>7 DEF Next, TaskNext, Loss, TaskOf

\* While no result expires and no run is lost or repeated, a terminal job changes
\* only to cancelled (cancel flags a job that has ended since it looked; nothing
\* runs a task again that has ended).
THEOREM TerminalStays == Spec => TerminalChangesOnlyToCancelled
<1> DEFINE Quiet == NoneOf({"resultExpiry", "revoke", "fork", "childLost", "restart"})
           Kept2 == \A j \in Jobs :
                       (Status(j) \in TerminalStatus /\ Quiet')
                           => Status(j)' \in {Status(j), "cancelled", "missing"}
<1>1. JobInv /\ JobInv' /\ [Next]_vars => Kept2
  <2> SUFFICES ASSUME JobInv, JobInv', [Next]_vars, NEW j \in Jobs,
                      Status(j) \in TerminalStatus, Quiet'
               PROVE  Status(j)' \in {Status(j), "cancelled", "missing"}
    OBVIOUS
  <2> USE DEF JobInv
  <2>0. Quiet /\ NoneOf({"revoke"}) /\ NoneOf({"revoke"})' /\ NoLoss
        /\ NoneOf({"resultExpiry", "childLost", "restart"})'
    BY QueueWrites DEF NoLoss, NoneOf
  <2>1. /\ record[j] \in Records /\ record[j] # NoRecord
        /\ backend[j] \in TaskStates /\ backend'[j] \in TaskStates
        /\ record'[j] # NoRecord => record'[j] \in Records
        /\ ~At(j, "start")
    BY DEF TypeOK, StateTypeOK, Status, TerminalStatus, LeftInv, LeftOf
  <2>2. CASE Dead(j)
    <3>1. Dead(j)'
      BY <2>0, <2>1, <2>2, DeadStays
    <3>q. QED
      BY <2>1, <3>1, Snapshot DEF Dead, Status
  <2>3. CASE ~Dead(j)
    <3>1. ~record[j].cancelled /\ backend[j] \in {"SUCCESS", "FAILURE"}
      BY <2>0, <2>1, <2>3, Snapshot DEF Dead, Status, TerminalStatus, CancelInv
    <3>2. backend'[j] \in {backend[j], "REVOKED"}
      BY <2>0, <3>1, ResultStays DEF OverInv
    <3>3. Status(j) = IF backend[j] = "SUCCESS" THEN "completed" ELSE "failed"
      BY <2>1, <3>1, Snapshot DEF Status
    <3>4. CASE record'[j] = NoRecord
      BY <3>4 DEF Status
    <3>5. CASE record'[j] # NoRecord /\ (record'[j].cancelled \/ backend'[j] = "REVOKED")
      BY <2>1, <3>5, Snapshot DEF Status
    <3>6. CASE record'[j] # NoRecord /\ ~record'[j].cancelled /\ backend'[j] = backend[j]
      BY <2>1, <3>1, <3>3, <3>6, Snapshot DEF Status
    <3>q. QED
      BY <3>2, <3>4, <3>5, <3>6
  <2>q. QED
    BY <2>2, <2>3
<1>2. JobInv /\ JobInv' /\ [Next]_vars =>
         [\A j \in Jobs :
            (Status(j) \in TerminalStatus
                /\ (faults \cap {"resultExpiry", "revoke", "fork", "childLost", "restart"})' = {})
            => Status(j)' \in {Status(j), "cancelled", "missing"}]_vars
  BY <1>1 DEF NoneOf
<1>q. QED
  BY <1>2, JobInvariant, PTL DEF Spec, TerminalChangesOnlyToCancelled
=============================================================================
