--------------------------- MODULE AnalysisService ---------------------------
(***************************************************************************)
(* AnalysisJobService of services/analysis_jobs.py: create, get and cancel *)
(* as the sequences of Redis and Celery calls they are, interleaved with   *)
(* each other and with the worker at every await.                          *)
(*                                                                         *)
(* call[p] is the program counter of a request: p \in Jobs is the one      *)
(* create call that mints job p; p \in Clients issues get and cancel       *)
(* requests for one job, one after the other, as the web page does.        *)
(***************************************************************************)
EXTENDS JobState

CreatePCs == {"start", "setKey", "readKey", "dropRecord", "abort", "lookup",
              "mark", "enqueue", "unmark", "deleteRecord", "readOwnKey",
              "deleteKey"}
GetPCs == {"get", "snapshot", "unqueue"}
CancelPCs == {"cancel", "cancelSnapshot", "readFlag", "writeFlag", "revoke",
              "readUndo", "writeUndo"}
PCs == CreatePCs \cup GetPCs \cup CancelPCs \cup {"idle", "done"}

\* none: nothing asked yet; missing: 404; conflict: 409; unavailable: 503;
\* error: an exception the service does not catch.
Replies == Statuses \cup {"none", "missing", "conflict", "unavailable", "error"}

Requests == [domain : Domains, key : Keys \cup {NoKey}]
Calls == [pc : PCs, id : Jobs \cup {NoJob}, reply : Replies]

ServiceTypeOK ==
    /\ request \in [Jobs -> Requests]
    /\ call \in [Callers -> Calls]

ServiceInit ==
    /\ request \in [Jobs -> Requests]
    /\ call = [p \in Callers |->
                 IF p \in Jobs THEN [pc |-> "start", id |-> p, reply |-> "none"]
                               ELSE [pc |-> "idle", id |-> NoJob, reply |-> "none"]]

-----------------------------------------------------------------------------
\* A create call answers once; a client goes on to its next request.
Goto(p, pc) == call' = [call EXCEPT ![p].pc = pc]
Answer(p, reply) ==
    call' = [call EXCEPT ![p].pc = IF p \in Jobs THEN "done" ELSE "idle",
                         ![p].reply = reply]
\* remove_analysis_from_queue comes before the answer.
UnqueueThenAnswer(p, reply) ==
    call' = [call EXCEPT ![p].pc = "unqueue", ![p].reply = reply]

At(p, pc) == call[p].pc = pc
Target(p) == call[p].id
KeyOf(j) == request[j].key
DomainOf(j) == request[j].domain

\* The job was created by its own call and is owned by it.
Accepted(j) == At(j, "done") /\ call[j].id = j /\ call[j].reply = "queued"

\* Ids some client has been told.
Known == {j \in Jobs : \E i \in Jobs :
            At(i, "done") /\ call[i].id = j /\ call[i].reply \in Statuses}

-----------------------------------------------------------------------------
(* create: _reserve_async *)

ReserveRecord(j) ==
    /\ At(j, "start")
    /\ \/ /\ SetRecord(j, DomainOf(j), FALSE)
          /\ Goto(j, IF KeyOf(j) = NoKey THEN "mark" ELSE "setKey")
          /\ NoFault
       \/ /\ SetRecord(j, DomainOf(j), FALSE) \/ UNCHANGED record
          /\ Answer(j, "unavailable")
          /\ Fault("store")
    /\ UNCHANGED <<idem, queued, brokerVars, request, taskVars>>

\* Mutant: SET without NX.
ReserveKey_NoNX(j) ==
    /\ At(j, "setKey")
    /\ BindKey(KeyOf(j), j)
    /\ Goto(j, "mark")
    /\ NoFault
    /\ UNCHANGED <<record, queued, brokerVars, request, taskVars>>

\* SET NX on the key. When it raises, Redis may have applied it all the same.
ReserveKey(j) ==
    /\ At(j, "setKey")
    /\ \/ /\ idem[KeyOf(j)] = NoJob
          /\ BindKey(KeyOf(j), j)
          /\ \/ Goto(j, "mark") /\ NoFault
             \/ Goto(j, "abort") /\ Fault("store")
       \/ /\ idem[KeyOf(j)] # NoJob
          /\ Goto(j, "readKey")
          /\ UNCHANGED idem
          /\ NoFault
       \/ Goto(j, "abort") /\ UNCHANGED idem /\ Fault("store")
    /\ UNCHANGED <<record, queued, brokerVars, request, taskVars>>

ReadKey(j) ==
    /\ At(j, "readKey")
    /\ \/ /\ idem[KeyOf(j)] # NoJob
          /\ call' = [call EXCEPT ![j].pc = "dropRecord", ![j].id = idem[KeyOf(j)]]
          /\ NoFault
       \/ idem[KeyOf(j)] = NoJob /\ Goto(j, "abort") /\ NoFault
       \/ Goto(j, "abort") /\ Fault("store")
    /\ UNCHANGED <<storeVars, queued, brokerVars, request, taskVars>>

\* Mutant: the id is overwritten before the delete, which hits the winner.
DropRecord_Winner(j) ==
    /\ At(j, "dropRecord")
    /\ DeleteRecord(Target(j)) /\ Goto(j, "lookup") /\ NoFault
    /\ UNCHANGED <<idem, queued, brokerVars, request, taskVars>>

\* The loser of the key deletes the record it wrote.
DropRecord(j) ==
    /\ At(j, "dropRecord")
    /\ \/ DeleteRecord(j) /\ Goto(j, "lookup") /\ NoFault
       \/ /\ DeleteRecord(j) \/ UNCHANGED record
          /\ Goto(j, "abort")
          /\ Fault("store")
    /\ UNCHANGED <<idem, queued, brokerVars, request, taskVars>>

\* The except branch of _reserve_async; create answers 503 either way.
AbortReserve(j) ==
    /\ At(j, "abort")
    /\ \/ DeleteRecord(j) /\ NoFault
       \/ UNCHANGED record /\ Fault("store")
    /\ Answer(j, "unavailable")
    /\ UNCHANGED <<idem, queued, brokerVars, request, taskVars>>

-----------------------------------------------------------------------------
(* create: the key was taken *)

\* Mutant: the domains are not compared.
LookupExisting_AnyDomain(j) ==
    /\ At(j, "lookup")
    /\ \/ record[Target(j)] = NoRecord /\ Answer(j, "missing")
       \/ record[Target(j)] # NoRecord /\ Goto(j, "get")
    /\ NoFault
    /\ UNCHANGED <<storeVars, queued, brokerVars, request, taskVars>>

LookupExisting(j) ==
    /\ At(j, "lookup")
    /\ \/ /\ record[Target(j)] = NoRecord
          /\ Answer(j, "missing")
       \/ /\ record[Target(j)] # NoRecord
          /\ record[Target(j)].domain # DomainOf(j)
          /\ Answer(j, "conflict")
       \/ /\ record[Target(j)] # NoRecord
          /\ record[Target(j)].domain = DomainOf(j)
          /\ Goto(j, "get")
    /\ NoFault
    /\ UNCHANGED <<storeVars, queued, brokerVars, request, taskVars>>

-----------------------------------------------------------------------------
(* create: the job is new *)

\* The tracker is written before the message is sent.
MarkAnalysisQueued(j) ==
    /\ At(j, "mark")
    /\ MarkQueued(j)
    /\ Goto(j, "enqueue")
    /\ UNCHANGED <<storeVars, brokerVars, request, taskVars>>

\* send_task. When it raises, the broker may have taken the message.
Enqueue(j) ==
    /\ At(j, "enqueue")
    /\ \/ /\ msgs' = msgs \cup {[job |-> j, attempt |-> 0]}
          /\ Answer(j, "queued")
          /\ NoFault
       \/ /\ msgs' \in {msgs, msgs \cup {[job |-> j, attempt |-> 0]}}
          /\ Goto(j, "unmark")
          /\ Fault("enqueue")
    /\ UNCHANGED <<storeVars, queued, backend, revocations, request, taskVars>>

UnmarkQueued(j) ==
    /\ At(j, "unmark")
    /\ RemoveQueued(j)
    /\ Goto(j, "deleteRecord")
    /\ UNCHANGED <<storeVars, brokerVars, request, taskVars>>

\* Mutant: the rollback forgets the key.
DeleteOwnRecord_KeepKey(j) ==
    /\ At(j, "deleteRecord")
    /\ DeleteRecord(j) /\ Answer(j, "unavailable") /\ NoFault
    /\ UNCHANGED <<idem, queued, brokerVars, request, taskVars>>

\* _delete_async: the record, then the key if it still names this job.
DeleteOwnRecord(j) ==
    /\ At(j, "deleteRecord")
    /\ \/ /\ DeleteRecord(j)
          /\ IF KeyOf(j) = NoKey THEN Answer(j, "unavailable")
                                 ELSE Goto(j, "readOwnKey")
          /\ NoFault
       \/ /\ DeleteRecord(j) \/ UNCHANGED record
          /\ Answer(j, "error")
          /\ Fault("store")
    /\ UNCHANGED <<idem, queued, brokerVars, request, taskVars>>

ReadOwnKey(j) ==
    /\ At(j, "readOwnKey")
    /\ \/ idem[KeyOf(j)] = j /\ Goto(j, "deleteKey") /\ NoFault
       \/ idem[KeyOf(j)] # j /\ Answer(j, "unavailable") /\ NoFault
       \/ Answer(j, "error") /\ Fault("store")
    /\ UNCHANGED <<storeVars, queued, brokerVars, request, taskVars>>

DeleteOwnKey(j) ==
    /\ At(j, "deleteKey")
    /\ \/ BindKey(KeyOf(j), NoJob) /\ Answer(j, "unavailable") /\ NoFault
       \/ /\ BindKey(KeyOf(j), NoJob) \/ UNCHANGED idem
          /\ Answer(j, "error")
          /\ Fault("store")
    /\ UNCHANGED <<record, queued, brokerVars, request, taskVars>>

-----------------------------------------------------------------------------
(* get, also the last step of a create call whose key was taken *)

\* A client stays with the job it first asked for.
ClientAsks(p, j) ==
    /\ p \in Clients /\ At(p, "idle")
    /\ j \in Known /\ Target(p) \in {NoJob, j}
    /\ \E pc \in {"get", "cancel"} :
          call' = [call EXCEPT ![p].pc = pc, ![p].id = j]
    /\ NoFault
    /\ UNCHANGED <<storeVars, queued, brokerVars, request, taskVars>>

GetRecord(p) ==
    /\ At(p, "get")
    /\ LET rec == record[Target(p)] IN
       \/ rec = NoRecord /\ Answer(p, "missing")
       \/ rec # NoRecord /\ rec.cancelled /\ UnqueueThenAnswer(p, "cancelled")
       \/ rec # NoRecord /\ ~rec.cancelled /\ Goto(p, "snapshot")
    /\ NoFault
    /\ UNCHANGED <<storeVars, queued, brokerVars, request, taskVars>>

\* The record was read before the snapshot, when it was not cancelled.
GetSnapshot(p) ==
    /\ At(p, "snapshot")
    /\ Answer(p, _job_from_snapshot([domain |-> DomainOf(Target(p)), cancelled |-> FALSE],
                                    backend[Target(p)]))
    /\ NoFault
    /\ UNCHANGED <<storeVars, queued, brokerVars, request, taskVars>>

RemoveFromQueue(p) ==
    /\ At(p, "unqueue")
    /\ RemoveQueued(Target(p))
    /\ Answer(p, call[p].reply)
    /\ UNCHANGED <<storeVars, brokerVars, request, taskVars>>

-----------------------------------------------------------------------------
(* cancel *)

CancelRecord(p) ==
    /\ At(p, "cancel")
    /\ LET rec == record[Target(p)] IN
       \/ rec = NoRecord /\ Answer(p, "missing")
       \/ rec # NoRecord /\ rec.cancelled /\ Answer(p, "cancelled")
       \/ rec # NoRecord /\ ~rec.cancelled /\ Goto(p, "cancelSnapshot")
    /\ NoFault
    /\ UNCHANGED <<storeVars, queued, brokerVars, request, taskVars>>

CancelSnapshot(p) ==
    /\ At(p, "cancelSnapshot")
    /\ LET state == backend[Target(p)] IN
       \/ /\ state \in _TERMINAL_STATES
          /\ UnqueueThenAnswer(p, _job_from_snapshot(
                [domain |-> DomainOf(Target(p)), cancelled |-> FALSE], state))
       \/ state \notin _TERMINAL_STATES /\ Goto(p, "readFlag")
    /\ NoFault
    /\ UNCHANGED <<storeVars, queued, brokerVars, request, taskVars>>

\* Mutant: the task is revoked and the flag never set.
ReadFlag_Skip(p) ==
    /\ At(p, "readFlag")
    /\ Goto(p, "revoke")
    /\ NoFault
    /\ UNCHANGED <<storeVars, queued, brokerVars, request, taskVars>>

\* set_cancelled is a GET and a SET; an absent record is left absent.
ReadFlag(p) ==
    /\ \/ At(p, "readFlag")
          /\ Goto(p, IF record[Target(p)] = NoRecord THEN "revoke" ELSE "writeFlag")
       \/ At(p, "readUndo")
          /\ IF record[Target(p)] = NoRecord THEN Answer(p, "unavailable")
                                             ELSE Goto(p, "writeUndo")
    /\ NoFault
    /\ UNCHANGED <<storeVars, queued, brokerVars, request, taskVars>>

\* Mutant: the flag is left to the revoked task state.
WriteFlag_TrustRevoke(p) ==
    /\ At(p, "writeFlag")
    /\ Goto(p, "revoke")
    /\ NoFault
    /\ UNCHANGED <<storeVars, queued, brokerVars, request, taskVars>>

\* The SET writes what the GET read, whatever happened to the record since.
WriteFlag(p) ==
    /\ At(p, "writeFlag")
    /\ SetRecord(Target(p), DomainOf(Target(p)), TRUE)
    /\ Goto(p, "revoke")
    /\ NoFault
    /\ UNCHANGED <<idem, queued, brokerVars, request, taskVars>>

Revoke(p) ==
    /\ At(p, "revoke")
    /\ \/ /\ revocations' = revocations \cup {Target(p)}
          /\ UnqueueThenAnswer(p, "cancelled")
          /\ NoFault
       \/ /\ revocations' \in {revocations, revocations \cup {Target(p)}}
          /\ Goto(p, "readUndo")
          /\ Fault("revoke")
    /\ UNCHANGED <<storeVars, queued, msgs, backend, request, taskVars>>

\* The revoke failed: the flag is taken back and the client gets a 503.
WriteUndo(p) ==
    /\ At(p, "writeUndo")
    /\ SetRecord(Target(p), DomainOf(Target(p)), FALSE)
    /\ Answer(p, "unavailable")
    /\ NoFault
    /\ UNCHANGED <<idem, queued, brokerVars, request, taskVars>>

\* A read or a flag write that raises ends the request with an error, and no
\* step of cancel or get is undone for it. The flag may have been written.
RequestFails(p) ==
    /\ call[p].pc \in {"lookup", "get", "snapshot"} \cup (CancelPCs \ {"revoke"})
    /\ \/ UNCHANGED record
       \/ At(p, "writeFlag") /\ SetRecord(Target(p), DomainOf(Target(p)), TRUE)
       \/ At(p, "writeUndo") /\ SetRecord(Target(p), DomainOf(Target(p)), FALSE)
    /\ Answer(p, IF call[p].pc \in {"snapshot", "cancelSnapshot"}
                 THEN "unavailable" ELSE "error")
    /\ Fault("store")
    /\ UNCHANGED <<idem, queued, brokerVars, request, taskVars>>

-----------------------------------------------------------------------------
(* Redis expiry (external). ANALYSIS_JOB_TTL_SECONDS, an hour by default,   *)
(* outlives the create call that sets it; the record's starts first and     *)
(* set_cancelled alone restarts it, so an untouched record expires before   *)
(* the key naming it.                                                       *)

ExpireRecord(j) ==
    /\ record[j] # NoRecord /\ At(j, "done")
    /\ DeleteRecord(j)
    /\ Fault("expiry")
    /\ UNCHANGED <<idem, queued, brokerVars, serviceVars, taskVars>>

ExpireKey(k) ==
    /\ idem[k] # NoJob
    /\ LET j == idem[k] IN
       /\ At(j, "done")
       /\ \/ record[j] = NoRecord
          \/ record[j] # NoRecord /\ record[j].cancelled
          \/ "revoke" \in faults
    /\ BindKey(k, NoJob)
    /\ Fault("expiry")
    /\ UNCHANGED <<record, queued, brokerVars, serviceVars, taskVars>>

\* The tracker's entry, purged by _DEPTH_SCRIPT when its score has passed.
ExpireTracked(j) ==
    /\ j \in queued /\ At(j, "done")
    /\ queued' = queued \ {j}
    /\ Fault("expiry")
    /\ UNCHANGED <<storeVars, brokerVars, serviceVars, taskVars>>

-----------------------------------------------------------------------------
CreateStep(j) ==
    \/ ReserveRecord(j) \/ ReserveKey(j) \/ ReadKey(j) \/ DropRecord(j)
    \/ AbortReserve(j) \/ LookupExisting(j) \/ MarkAnalysisQueued(j)
    \/ Enqueue(j) \/ UnmarkQueued(j) \/ DeleteOwnRecord(j) \/ ReadOwnKey(j)
    \/ DeleteOwnKey(j)

GetStep(p) == GetRecord(p) \/ GetSnapshot(p) \/ RemoveFromQueue(p)

CancelStep(p) ==
    \/ CancelRecord(p) \/ CancelSnapshot(p) \/ ReadFlag(p) \/ WriteFlag(p)
    \/ Revoke(p) \/ WriteUndo(p)

Expiry ==
    \/ \E j \in Jobs : ExpireRecord(j) \/ ExpireTracked(j)
    \/ \E k \in Keys : ExpireKey(k)

ServiceNext ==
    \/ \E j \in Jobs : CreateStep(j)
    \/ \E p \in Callers : GetStep(p) \/ CancelStep(p) \/ RequestFails(p)
    \/ \E p \in Clients, j \in Jobs : ClientAsks(p, j)
    \/ Expiry
=============================================================================
