---------------------------- MODULE DomainAnalysis ----------------------------
(***************************************************************************)
(* One domain analysis: DomainService.analyze of services/domain.py with   *)
(* the TaskProgressReporter of tasks/domain.py as its progress callback.   *)
(*                                                                         *)
(* One coroutine, here called Main, resolves the domain, finds the RDAP    *)
(* servers, starts a task per check, stops them at the deadline and merges *)
(* what they returned.  Every action is what one coroutine does between    *)
(* two awaits; the deadline may pass and a cancellation may arrive at any  *)
(* await.  Publications run in threads, which no cancellation stops.       *)
(***************************************************************************)
EXTENDS Integers, FiniteSets

CONSTANT Checks     \* the checks that run for every domain: dns, http, ssl, ...

ASSUME AnalysisAssumption == {"main", "rdap", "geoip"} \cap Checks = {}

VARIABLES
    reporting,  \* progress has a callback: in the Celery task, not at the endpoint
    pc,         \* where Main is
    raising,    \* a CancelledError is on its way out of Main
    late,       \* the deadline has passed
    servers,    \* RDAP servers are known, so rdap is one of the tasks
    expired,    \* deadline_expired
    inTime,     \* the tasks that were done when the wait ended
    errors,     \* analysis_errors: check and kind
    task,       \* where each task is
    toCancel,   \* tasks with a cancellation not yet delivered
    result,     \* what each task returned or raised
    obs,        \* observations
    rep,        \* the report each coroutine is waiting for
    rows,       \* the reporter's progress
    writing,    \* the snapshot each publication thread is writing
    published   \* the progress in the result backend

mainVars == <<reporting, pc, raising, servers, expired, inTime, errors>>
taskVars == <<task, toCancel, result>>
reportVars == <<rep, rows, writing>>
vars == <<mainVars, late, taskVars, obs, reportVars, published>>

Tasks == Checks \cup {"rdap"}
AllChecks == Tasks \cup {"geoip"}
Coroutines == Tasks \cup {"main"}

Outcomes == {"successful", "failed", "timeout", "cancelled"}
Ends == {"completed", "timeout", "failed", "cancelled"}
RowStates == {"queued", "running", "successful", "failed"}
Progress == [AllChecks -> RowStates]
Reports == [check : AllChecks, status : RowStates, stage : {"lock", "publish"}]
NoReport == [check |-> "none", status |-> "none", stage |-> "none"]
NoWrite == [c \in {} |-> "queued"]

TypeOK ==
    /\ reporting \in BOOLEAN
    /\ pc \in {"resolve", "context", "bootstrap", "collect", "waiting", "reaping",
               "unstarted", "geoip", "lookup", "finish"} \cup Ends
    /\ raising \in BOOLEAN /\ late \in BOOLEAN
    /\ servers \in BOOLEAN /\ expired \in BOOLEAN
    /\ inTime \in SUBSET Tasks
    /\ errors \in SUBSET (AllChecks \X {"failed", "timeout"})
    /\ task \in [Tasks -> {"none", "created", "operation", "closing", "done"}]
    /\ toCancel \in SUBSET Tasks
    /\ result \in [Tasks -> Outcomes \cup {"none"}]
    /\ obs \in [AllChecks -> Outcomes \cup {"none"}]
    /\ rep \in [Coroutines -> Reports \cup {NoReport}]
    /\ rows \in Progress
    /\ writing \in [Coroutines -> Progress \cup {NoWrite}]
    /\ published \in Progress

Init ==
    /\ reporting \in BOOLEAN
    /\ pc = "resolve" /\ raising = FALSE /\ late = FALSE
    /\ servers = FALSE /\ expired = FALSE /\ inTime = {} /\ errors = {}
    /\ task = [c \in Tasks |-> "none"]
    /\ toCancel = {}
    /\ result = [c \in Tasks |-> "none"]
    /\ obs = [c \in AllChecks |-> "none"]
    /\ rep = [a \in Coroutines |-> NoReport]
    /\ rows = [c \in AllChecks |-> "queued"]
    /\ writing = [a \in Coroutines |-> NoWrite]
    /\ published = rows

-----------------------------------------------------------------------------
(* The reporter: a lock around the row, the snapshot and its publication *)

Waits(a) == rep[a] # NoReport
LockFree == \A a \in Coroutines : rep[a].stage # "publish"
Queueing == {a \in Coroutines : rep[a].stage = "lock"}

Idle(a) == ~Waits(a)
NoReports == UNCHANGED reportVars

\* Holding the lock: the row is set and a thread starts to write all of them.
Publish(a, check, status) ==
    /\ rows' = [rows EXCEPT ![check] = status]
    /\ writing' = [writing EXCEPT ![a] = rows']
    /\ rep' = [rep EXCEPT ![a] = [check |-> check, status |-> status, stage |-> "publish"]]

\* The lock is taken at once when it is free and nobody queues for it.
CanLock == LockFree /\ Queueing = {}

\* Mutant: no lock around the row and its publication.
Report_NoLock(a, check, status) ==
    IF reporting THEN Publish(a, check, status) ELSE NoReports

\* _report_progress: nothing without a callback.
Report(a, check, status) ==
    \/ ~reporting /\ NoReports
    \/ reporting /\ CanLock /\ Publish(a, check, status)
    \/ /\ reporting /\ ~CanLock
       /\ rep' = [rep EXCEPT ![a] = [check |-> check, status |-> status, stage |-> "lock"]]
       /\ UNCHANGED <<rows, writing>>

\* A cancellation frees the lock or the place in its queue, and leaves the thread.
Abandon(a) == rep' = [rep EXCEPT ![a] = NoReport] /\ UNCHANGED <<rows, writing>>

\* The lock serves its queue in order; here any waiter may be next.
TakeLock(a) ==
    /\ rep[a].stage = "lock" /\ LockFree /\ a \notin toCancel
    /\ Publish(a, rep[a].check, rep[a].status)
    /\ UNCHANGED <<mainVars, late, taskVars, obs, published>>

\* update_state in its thread; a failed write is logged and swallowed.
Land(a) ==
    /\ writing[a] # NoWrite
    /\ published' \in {published, writing[a]}
    /\ writing' = [writing EXCEPT ![a] = NoWrite]
    /\ UNCHANGED <<mainVars, late, taskVars, obs, rep, rows>>

\* The coroutine goes on; a task whose last report this was is done.
Reported(a) ==
    /\ rep[a].stage = "publish" /\ writing[a] = NoWrite /\ a \notin toCancel
    /\ Abandon(a)
    /\ task' = [c \in Tasks |-> IF c = a /\ task[c] = "closing" THEN "done" ELSE task[c]]
    /\ UNCHANGED <<mainVars, late, toCancel, result, obs, published>>

-----------------------------------------------------------------------------
Operations == Checks \cup IF servers THEN {"rdap"} ELSE {}
Done == {c \in Tasks : task[c] = "done"}
Ended == pc \in Ends

Goto(next) == pc' = next
Observe(check, outcome) == obs' = [obs EXCEPT ![check] = outcome]
Row(outcome) == IF outcome = "successful" THEN "successful" ELSE "failed"

(* Main: resolve_public_ips and _load_rdap_context *)

\* The domain is invalid or private, or the resolution outlasts the deadline:
\* there is no analysis. The first reports repeat the initial rows.
Resolve ==
    /\ pc = "resolve"
    /\ \/ Goto("context")
       \/ Goto("failed")
       \/ late /\ Goto("timeout")
    /\ UNCHANGED <<reporting, raising, servers, expired, inTime, errors, late, taskVars, obs,
                   reportVars, published>>

\* Mutant: the failed row is not reported.
RDAPContextFails_Silent(kind) ==
    /\ errors' = errors \cup {<<"rdap", kind>>}
    /\ Observe("rdap", kind)
    /\ Goto("collect")
    /\ NoReports
    /\ UNCHANGED servers

RDAPContextFails(kind) ==
    /\ errors' = errors \cup {<<"rdap", kind>>}
    /\ Observe("rdap", kind)
    /\ Report("main", "rdap", "failed")
    /\ Goto("collect")
    /\ UNCHANGED servers

LoadRDAPContext ==
    /\ pc = "context"
    /\ \/ late /\ RDAPContextFails("timeout")
       \/ ~late /\ Goto("bootstrap") /\ UNCHANGED <<errors, obs, reportVars, servers>>
    /\ UNCHANGED <<reporting, raising, expired, inTime, late, taskVars, published>>

\* wait_for(get_instance()): servers, a timeout, or anything else.
Bootstrap ==
    /\ pc = "bootstrap"
    /\ \/ servers' = TRUE /\ Goto("collect") /\ UNCHANGED <<errors, obs, reportVars>>
       \/ RDAPContextFails("failed")
       \/ late /\ RDAPContextFails("timeout")
    /\ UNCHANGED <<reporting, raising, expired, inTime, late, taskVars, published>>

(* Main: _collect_results and _wait_for_tasks *)

Collect ==
    /\ pc = "collect" /\ Idle("main")
    /\ \/ /\ ~late
          /\ task' = [c \in Tasks |-> IF c \in Operations THEN "created" ELSE "none"]
          /\ Goto("waiting")
       \/ late /\ Goto("unstarted") /\ UNCHANGED task
    /\ UNCHANGED <<reporting, raising, servers, expired, inTime, errors, late, toCancel, result, obs,
                   reportVars, published>>

\* Mutant: deadline_expired is never set.
WaitEnds_Unset ==
    /\ pc = "waiting"
    /\ Operations \subseteq Done \/ late
    /\ inTime' = Done /\ toCancel' = Operations \ Done
    /\ Goto(IF Operations \subseteq Done THEN "unstarted" ELSE "reaping")
    /\ UNCHANGED <<reporting, raising, servers, expired, errors, late, task, result, obs, reportVars,
                   published>>

\* Mutant: what is pending is not cancelled.
WaitEnds_NoCancel ==
    /\ pc = "waiting"
    /\ Operations \subseteq Done \/ late
    /\ inTime' = Done /\ expired' = (Operations \ Done # {})
    /\ Goto(IF Operations \subseteq Done THEN "unstarted" ELSE "reaping")
    /\ UNCHANGED <<reporting, raising, servers, errors, late, taskVars, obs, reportVars, published>>

\* asyncio.wait returns; what is pending is cancelled.
WaitEnds ==
    /\ pc = "waiting"
    /\ Operations \subseteq Done \/ late
    /\ inTime' = Done
    /\ toCancel' = Operations \ Done
    /\ expired' = (Operations \ Done # {})
    /\ Goto(IF Operations \subseteq Done THEN "unstarted" ELSE "reaping")
    /\ UNCHANGED <<reporting, raising, servers, errors, late, task, result, obs, reportVars, published>>

\* The gather of the cancelled tasks.
Reap ==
    /\ pc = "reaping" /\ Operations \subseteq Done
    /\ Goto(IF raising THEN "cancelled" ELSE "unstarted")
    /\ UNCHANGED <<reporting, raising, servers, expired, inTime, errors, late, taskVars, obs,
                   reportVars, published>>

Unobserved == {c \in Operations \ inTime : obs[c] = "none"}

\* Mutant: a timeout is recorded for every task that was not in time.
RecordUnstarted_Always(c) ==
    /\ pc = "unstarted" /\ Idle("main")
    /\ c \in Operations \ inTime /\ obs[c] # "timeout"
    /\ Observe(c, "timeout")
    /\ Report("main", c, "failed")
    /\ UNCHANGED <<mainVars, late, taskVars, published>>

\* _record_unstarted_timeout, for the tasks in their order; any order here.
RecordUnstarted(c) ==
    /\ pc = "unstarted" /\ Idle("main")
    /\ c \in Unobserved
    /\ Observe(c, "timeout")
    /\ Report("main", c, "failed")
    /\ UNCHANGED <<mainVars, late, taskVars, published>>

\* Mutant: the cancelled tasks are asked for their results, too, and their
\* CancelledError is taken for no error.
ErrorOf_Observed(c) == CASE result[c] \in {"successful", "cancelled"} -> {}
                         [] OTHER -> {<<c, result[c]>>}

\* A task that was not done in time has timed out, whatever it returned.
ErrorOf(c) ==
    CASE c \notin inTime -> {<<c, "timeout">>}
      [] c \in inTime /\ result[c] = "successful" -> {}
      [] OTHER -> {<<c, result[c]>>}

Merge ==
    /\ pc = "unstarted" /\ Idle("main") /\ Unobserved = {}
    /\ errors' = errors \cup UNION {ErrorOf(c) : c \in Operations}
    /\ Goto("geoip")
    /\ UNCHANGED <<reporting, raising, servers, expired, inTime, late, taskVars, obs, reportVars,
                   published>>

(* Main: _lookup_geoip *)

GeoIPObserved(outcome) ==
    /\ Observe("geoip", outcome)
    /\ Report("main", "geoip", Row(outcome))
    /\ Goto("finish")

GeoIP ==
    /\ pc = "geoip"
    /\ \/ late /\ GeoIPObserved("timeout") /\ errors' = errors \cup {<<"geoip", "timeout">>}
       \/ /\ ~late
          /\ Report("main", "geoip", "running")
          /\ Goto("lookup")
          /\ UNCHANGED <<errors, obs>>
    /\ UNCHANGED <<reporting, raising, servers, expired, inTime, late, taskVars, published>>

GeoIPLookup ==
    /\ pc = "lookup" /\ Idle("main")
    /\ \/ GeoIPObserved("successful") /\ UNCHANGED errors
       \/ GeoIPObserved("failed") /\ errors' = errors \cup {<<"geoip", "failed">>}
       \/ /\ late
          /\ GeoIPObserved("timeout")
          /\ errors' = errors \cup {<<"geoip", "timeout">>}
    /\ UNCHANGED <<reporting, raising, servers, expired, inTime, late, taskVars, published>>

Finish ==
    /\ pc = "finish" /\ Idle("main")
    /\ Goto(IF raising THEN "cancelled" ELSE "completed")
    /\ UNCHANGED <<reporting, raising, servers, expired, inTime, errors, late, taskVars, obs,
                   reportVars, published>>

-----------------------------------------------------------------------------
(* Cancellation of the analysis, at an await of Main: the soft time limit of *)
(* the worker, or a client of the synchronous endpoint that goes away.       *)

CancelAway ==
    /\ pc \in {"resolve", "bootstrap"} \/ Waits("main")
    /\ Goto("cancelled")
    /\ Abandon("main")
    /\ UNCHANGED <<toCancel, obs>>

\* Mutant: the tasks are left to themselves.
CancelWait_NoGather ==
    /\ pc \in {"waiting", "reaping"}
    /\ toCancel' = Operations \ Done
    /\ Goto("cancelled")
    /\ UNCHANGED <<obs, reportVars>>

\* The tasks are cancelled, again if they were before, and waited for.
CancelWait ==
    /\ pc \in {"waiting", "reaping"}
    /\ toCancel' = Operations \ Done
    /\ Goto("reaping")
    /\ UNCHANGED <<obs, reportVars>>

CancelLookup ==
    /\ pc = "lookup" /\ Idle("main")
    /\ GeoIPObserved("cancelled")
    /\ UNCHANGED toCancel

CancelAnalysis ==
    /\ ~Ended
    /\ CancelAway \/ CancelWait \/ CancelLookup
    /\ raising' = TRUE
    /\ UNCHANGED <<reporting, servers, expired, inTime, errors, late, task, result, published>>

-----------------------------------------------------------------------------
(* Tasks: _run_check *)

\* Mutant: the success is reported before it is certain.
StartCheck_Eager(c) ==
    /\ task[c] = "created" /\ c \notin toCancel
    /\ task' = [task EXCEPT ![c] = "operation"]
    /\ Report(c, c, "successful")
    /\ UNCHANGED <<mainVars, late, toCancel, result, obs, published>>

StartCheck(c) ==
    /\ task[c] = "created" /\ c \notin toCancel
    /\ task' = [task EXCEPT ![c] = "operation"]
    /\ Report(c, c, "running")
    /\ UNCHANGED <<mainVars, late, toCancel, result, obs, published>>

\* The finally block: the observation is made, then reported.
Close(c, outcome) ==
    /\ result' = [result EXCEPT ![c] = outcome]
    /\ task' = [task EXCEPT ![c] = IF reporting THEN "closing" ELSE "done"]
    /\ Report(c, c, Row(outcome))

EndCheck(c) ==
    /\ task[c] = "operation" /\ Idle(c) /\ c \notin toCancel
    /\ \E outcome \in {"successful", "failed", "timeout"} :
          Observe(c, outcome) /\ Close(c, outcome)
    /\ UNCHANGED <<mainVars, late, toCancel, published>>

\* A CancelledError in the operation is observed and reported like an end; before
\* the operation, and in the last report, it ends the task on the spot.
CancelCheck(c) ==
    /\ c \in toCancel
    /\ \/ /\ task[c] = "operation" /\ Idle(c)
          /\ Observe(c, IF expired THEN "timeout" ELSE "cancelled")
          /\ Close(c, "cancelled")
       \/ /\ task[c] \in {"created", "closing"} \/ Waits(c)
          /\ task' = [task EXCEPT ![c] = "done"]
          /\ result' = [result EXCEPT ![c] = "cancelled"]
          /\ Abandon(c)
          /\ UNCHANGED obs
    /\ toCancel' = toCancel \ {c}
    /\ UNCHANGED <<mainVars, late, published>>

-----------------------------------------------------------------------------
\* ANALYSIS_TIMEOUT_SECONDS after the start.
DeadlinePasses ==
    /\ ~late /\ ~Ended
    /\ late' = TRUE
    /\ UNCHANGED <<mainVars, taskVars, obs, reportVars, published>>

MainStep ==
    \/ Resolve \/ LoadRDAPContext \/ Bootstrap \/ Collect \/ WaitEnds \/ Reap
    \/ (\E c \in Tasks : RecordUnstarted(c))
    \/ Merge \/ GeoIP \/ GeoIPLookup \/ Finish

CheckStep(c) == StartCheck(c) \/ EndCheck(c) \/ CancelCheck(c)

ReportStep(a) == TakeLock(a) \/ Land(a) \/ Reported(a)

Next ==
    \/ MainStep \/ CancelAnalysis \/ DeadlinePasses
    \/ \E c \in Tasks : CheckStep(c)
    \/ \E a \in Coroutines : ReportStep(a)

Spec == Init /\ [][Next]_vars

(***************************************************************************)
(* Fairness.  Nothing an analysis waits for need ever answer: only the     *)
(* clock runs, and the event loop resumes what is ready, what is cancelled *)
(* and, after the deadline, every wait_for.  A publication returns: the    *)
(* Redis client has timeouts.                                              *)
(***************************************************************************)
FairSpec ==
    /\ Spec
    /\ WF_vars(DeadlinePasses)
    /\ WF_vars(late /\ MainStep)
    /\ \A c \in Tasks : WF_vars(StartCheck(c)) /\ WF_vars(CancelCheck(c))
    /\ \A a \in Coroutines : WF_vars(ReportStep(a))

-----------------------------------------------------------------------------
\* When an analysis is over, in whatever way, none of its tasks runs on: a job
\* that gives back its slot has stopped working.
NoTaskLeft == Ended => \A c \in Tasks : task[c] \in {"none", "done"}

\* A completed analysis has an entry for every check in its metadata, and none
\* says "cancelled": what the deadline stopped is a timeout.
EveryCheckAccounted ==
    pc = "completed" => \A c \in AllChecks : obs[c] \in {"successful", "failed", "timeout"}

\* analysis_errors and the metadata agree, check by check and kind by kind. They
\* are built by different code: the errors from the tasks after the wait, the
\* metadata from inside the tasks. With reports a cancelled report can separate
\* them: see CompletedPreserved.
ErrorsMatchObservations ==
    (pc = "completed" /\ ~reporting) =>
        \A c \in AllChecks, kind \in {"failed", "timeout"} : <<c, kind>> \in errors <=> obs[c] = kind

\* No check fails silently: what was not observed successful is in analysis_errors.
FailuresReported ==
    pc = "completed" => \A c \in AllChecks :
        obs[c] # "successful" => \E kind \in {"failed", "timeout"} : <<c, kind>> \in errors

\* README 190: checks that exceed the deadline are cancelled and reported while
\* completed checks are preserved.
CompletedPreserved ==
    pc = "completed" => \A c \in AllChecks :
        obs[c] = "successful" => \A kind \in {"failed", "timeout"} : <<c, kind>> \notin errors

\* A check is observed once: neither the deadline nor a cancellation rewrites
\* how it ended.
ObservedOnce == [][\A c \in AllChecks : obs[c] # "none" => obs'[c] = obs[c]]_vars

\* No client is shown a check as successful that has not succeeded.
ProgressHonest ==
    \A c \in AllChecks : published[c] = "successful" => obs[c] = "successful"

\* While no report is abandoned, the progress a client is shown never goes back,
\* although every publication writes all rows: the lock orders the snapshots.
Rank(status) == CASE status = "queued" -> 0 [] status = "running" -> 1 [] OTHER -> 2
PublishedMonotone ==
    [][(~expired /\ ~raising)' =>
           \A c \in AllChecks : Rank(published[c]) <= Rank(published'[c])]_vars

\* The progress stored with the result says of each check what the metadata says,
\* as long as no task was cancelled.
FinalProgress ==
    (pc = "completed" /\ reporting /\ ~expired) => \A c \in AllChecks : rows[c] = Row(obs[c])

\* Every analysis ends, even when no check ever answers: the deadline stops them,
\* and the reports of the stopped checks still get the lock.
AnalysisEnds == <>Ended
=============================================================================
