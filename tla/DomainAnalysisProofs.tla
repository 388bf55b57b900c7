------------------------- MODULE DomainAnalysisProofs -------------------------
(* The analysis accounts for every check and leaves no task behind, for any   *)
(* set of checks, with and without progress reports.                          *)
EXTENDS DomainAnalysis, TLAPS

TaskPCs == {"none", "created", "operation", "closing", "done"}
Good == {"successful", "failed", "timeout"}

\* A report touches the reporter's own state only, and keeps its types.
LEMMA ReportTypes ==
    ASSUME TypeOK, NEW a \in Coroutines, NEW check \in AllChecks, NEW status \in RowStates
    PROVE  /\ Report(a, check, status) \/ Publish(a, check, status) =>
                 /\ rep' \in [Coroutines -> Reports \cup {NoReport}]
                 /\ rows' \in Progress
                 /\ writing' \in [Coroutines -> Progress \cup {NoWrite}]
                 /\ \A b \in Coroutines \ {a} : rep'[b] = rep[b]
           /\ Abandon(a) =>
                 /\ rep' \in [Coroutines -> Reports \cup {NoReport}]
                 /\ rows' \in Progress
                 /\ writing' \in [Coroutines -> Progress \cup {NoWrite}]
                 /\ \A b \in Coroutines \ {a} : rep'[b] = rep[b]
<1>1. ASSUME Publish(a, check, status)
      PROVE  /\ rep' \in [Coroutines -> Reports \cup {NoReport}]
             /\ rows' \in Progress
             /\ writing' \in [Coroutines -> Progress \cup {NoWrite}]
             /\ \A b \in Coroutines \ {a} : rep'[b] = rep[b]
  <2>1. rows' \in Progress
    BY <1>1 DEF Publish, TypeOK, Progress
  <2>2. rep' \in [Coroutines -> Reports \cup {NoReport}]
    BY <1>1 DEF Publish, TypeOK, Reports
  <2>q. QED
    BY <1>1, <2>1, <2>2 DEF Publish, TypeOK
<1>2. ASSUME Report(a, check, status)
      PROVE  /\ rep' \in [Coroutines -> Reports \cup {NoReport}]
             /\ rows' \in Progress
             /\ writing' \in [Coroutines -> Progress \cup {NoWrite}]
             /\ \A b \in Coroutines \ {a} : rep'[b] = rep[b]
  <2>1. CASE NoReports
    BY <2>1 DEF NoReports, reportVars, TypeOK
  <2>2. CASE ~Publish(a, check, status) /\ ~NoReports
    <3>1. /\ rep' = [rep EXCEPT ![a] = [check |-> check, status |-> status, stage |-> "lock"]]
          /\ UNCHANGED <<rows, writing>>
      BY <1>2, <2>2 DEF Report
    <3>q. QED
      BY <3>1 DEF TypeOK, Reports
  <2>q. QED
    BY <1>1, <2>1, <2>2
<1>3. ASSUME Abandon(a)
      PROVE  /\ rep' \in [Coroutines -> Reports \cup {NoReport}]
             /\ rows' \in Progress
             /\ writing' \in [Coroutines -> Progress \cup {NoWrite}]
             /\ \A b \in Coroutines \ {a} : rep'[b] = rep[b]
  BY <1>3 DEF Abandon, TypeOK
<1>q. QED
  BY <1>1, <1>2, <1>3

-----------------------------------------------------------------------------
\* Before the tasks exist nothing is observed but an RDAP context that failed.
StartInv ==
    pc \in {"resolve", "context", "bootstrap", "collect"} =>
        /\ \A c \in Tasks : task[c] = "none"
        /\ inTime = {} /\ toCancel = {} /\ ~expired
        /\ \A c \in AllChecks \ {"rdap"} : obs[c] = "none"
        /\ (pc # "collect" \/ servers) => obs["rdap"] = "none"
        /\ pc # "collect" => ~servers

\* A task that was in time has observed what it returned. One that was not has
\* a cancellation under way, or has ended; a cancellation has a cause.
TaskInvOf(c) ==
    /\ c \notin Operations => task[c] = "none"
    /\ (c \in Operations /\ pc \in {"waiting", "reaping"}) => task[c] # "none"
    /\ task[c] \in {"created", "operation"} => obs[c] = "none"
    /\ task[c] \in {"created", "operation", "closing"} => pc \in {"waiting", "reaping"}
    /\ (pc = "reaping" /\ task[c] \in {"created", "operation"}) => c \in toCancel
    /\ c \in toCancel => task[c] \in {"created", "operation", "closing"}
    /\ (pc = "waiting" /\ task[c] \in {"closing", "done"})
           => result[c] \in Good /\ obs[c] = result[c]
    /\ c \in inTime => task[c] = "done" /\ result[c] \in Good /\ obs[c] = result[c]
    /\ obs[c] = "cancelled" => raising
TaskInv == \A c \in Tasks : TaskInvOf(c)

\* Where Main is says what has been observed.
PhaseInv ==
    /\ raising => pc \in {"reaping", "finish", "cancelled"}
    /\ pc = "waiting" => toCancel = {} /\ ~expired
    /\ pc = "reaping" => expired \/ raising
    /\ pc \in {"waiting", "reaping"} => rep["main"] = NoReport
    /\ (pc \in {"collect", "waiting", "reaping", "unstarted"} /\ ~servers)
           => obs["rdap"] \in {"failed", "timeout"}
    /\ pc \in {"geoip", "lookup", "finish", "completed"} => \A c \in Tasks : obs[c] # "none"
    /\ pc \in {"waiting", "reaping", "unstarted", "geoip", "lookup"} => obs["geoip"] = "none"
    /\ pc \in {"finish", "completed"} =>
           obs["geoip"] # "none" /\ (obs["geoip"] = "cancelled" => raising)

AnalysisInv == StartInv /\ TaskInv /\ PhaseInv

\* Without a callback a task ends with its operation, so a task that was not in
\* time has observed nothing but its timeout.
NoReportsInv ==
    ~reporting =>
        /\ \A a \in Coroutines : rep[a] = NoReport
        /\ \A c \in Tasks : task[c] # "closing"
        /\ (pc \in {"reaping", "unstarted"} /\ ~raising) =>
              \A c \in Operations \ inTime : obs[c] \in {"none", "timeout"}

Agree(c) == \A kind \in {"failed", "timeout"} : <<c, kind>> \in errors <=> obs[c] = kind
Clear(c) == \A kind \in {"failed", "timeout"} : <<c, kind>> \notin errors

\* The errors follow the observations: the RDAP context's from the start, the
\* tasks' from the merge, geoip's from its lookup.
ErrorsInv ==
    /\ pc \in {"resolve", "context", "bootstrap"} => errors = {}
    /\ pc \in {"collect", "waiting", "reaping", "unstarted"} =>
           /\ \A c \in AllChecks \ {"rdap"} : Clear(c)
           /\ IF servers THEN Clear("rdap") ELSE Agree("rdap")
    /\ (pc \in {"geoip", "lookup", "finish", "completed"} /\ ~reporting)
           => \A c \in Tasks : Agree(c)
    /\ pc \in {"geoip", "lookup"} => Clear("geoip")
    /\ pc \in {"finish", "completed"} /\ ~raising => Agree("geoip")

\* Main's steps keep the types.
LEMMA MainTypes == TypeOK /\ TaskInv /\ MainStep => TypeOK'
<1> SUFFICES ASSUME TypeOK, TaskInv, MainStep PROVE TypeOK'
  OBVIOUS
<1> "main" \in Coroutines /\ {"rdap", "geoip"} \subseteq AllChecks /\ Tasks \subseteq AllChecks
  BY DEF Coroutines, AllChecks, Tasks
<1> USE DEF Goto, Observe, mainVars, taskVars, reportVars, Outcomes
<1>a. ASSUME NEW kind \in {"failed", "timeout"}, RDAPContextFails(kind),
             UNCHANGED <<reporting, raising, expired, inTime, late, taskVars, published>>
      PROVE  TypeOK'
  <2>1. Report("main", "rdap", "failed") /\ "failed" \in RowStates
    BY <1>a DEF RDAPContextFails, RowStates
  <2>q. QED
    BY <1>a, <2>1, ReportTypes DEF RDAPContextFails, TypeOK
<1>b. ASSUME NEW outcome \in Outcomes, GeoIPObserved(outcome),
             errors' \in SUBSET (AllChecks \X {"failed", "timeout"}),
             UNCHANGED <<reporting, raising, servers, expired, inTime, late, taskVars, published>>
      PROVE  TypeOK'
  <2>1. Report("main", "geoip", Row(outcome)) /\ Row(outcome) \in RowStates
    BY <1>b DEF GeoIPObserved, RowStates, Row
  <2>q. QED
    BY <1>b, <2>1, ReportTypes DEF GeoIPObserved, TypeOK
<1>1. CASE Resolve
  BY <1>1 DEF Resolve, TypeOK, Ends
<1>2. CASE LoadRDAPContext
  BY <1>2, <1>a DEF LoadRDAPContext, TypeOK
<1>3. CASE Bootstrap
  BY <1>3, <1>a DEF Bootstrap, TypeOK
<1>4. CASE Collect
  BY <1>4 DEF Collect, TypeOK
<1>5. CASE WaitEnds
  BY <1>5 DEF WaitEnds, TypeOK, Operations, Tasks, Done
<1>6. CASE Reap
  BY <1>6 DEF Reap, TypeOK, Ends
<1>7. ASSUME NEW c \in Tasks, RecordUnstarted(c) PROVE TypeOK'
  <2>1. Report("main", c, "failed") /\ "failed" \in RowStates /\ c \in AllChecks
    BY <1>7 DEF RecordUnstarted, RowStates
  <2>q. QED
    BY <1>7, <2>1, ReportTypes DEF RecordUnstarted, TypeOK
<1>8. CASE Merge
  <2>1. \A c \in Operations : ErrorOf(c) \in SUBSET (AllChecks \X {"failed", "timeout"})
    BY DEF TaskInv, TaskInvOf, Good, ErrorOf, Operations, Tasks, AllChecks
  <2>q. QED
    BY <1>8, <2>1 DEF Merge, TypeOK
<1>9. CASE GeoIP
  <2>1. CASE late
    BY <1>9, <1>b, <2>1 DEF GeoIP, TypeOK
  <2>2. CASE ~late
    <3>1. Report("main", "geoip", "running") /\ "running" \in RowStates
      BY <1>9, <2>2 DEF GeoIP, RowStates
    <3>q. QED
      BY <1>9, <2>2, <3>1, ReportTypes DEF GeoIP, TypeOK
  <2>q. QED
    BY <2>1, <2>2
<1>10. CASE GeoIPLookup
  BY <1>10, <1>b DEF GeoIPLookup, TypeOK
<1>11. CASE Finish
  BY <1>11 DEF Finish, TypeOK, Ends
<1>q. QED
  BY <1>1, <1>2, <1>3, <1>4, <1>5, <1>6, <1>7, <1>8, <1>9, <1>10, <1>11 DEF MainStep

\* Every step keeps the types.
LEMMA StepTypes == TypeOK /\ TaskInv /\ [Next]_vars => TypeOK'
<1> SUFFICES ASSUME TypeOK, TaskInv, [Next]_vars PROVE TypeOK'
  OBVIOUS
<1> "main" \in Coroutines /\ {"rdap", "geoip"} \subseteq AllChecks /\ Tasks \subseteq AllChecks
    /\ Tasks \subseteq Coroutines
  BY DEF Coroutines, AllChecks, Tasks
<1> USE DEF Goto, Observe, mainVars, taskVars, reportVars, Outcomes
<1>a. ASSUME NEW a \in Coroutines, Abandon(a)
      PROVE  /\ rep' \in [Coroutines -> Reports \cup {NoReport}]
             /\ rows' \in Progress
             /\ writing' \in [Coroutines -> Progress \cup {NoWrite}]
  BY <1>a, ReportTypes DEF RowStates, AllChecks
<1>b. ASSUME NEW c \in Tasks, NEW outcome \in Outcomes, Close(c, outcome),
             obs' \in [AllChecks -> Outcomes \cup {"none"}], toCancel' \subseteq toCancel,
             UNCHANGED <<mainVars, late, published>>
      PROVE  TypeOK'
  <2>1. Report(c, c, Row(outcome)) /\ Row(outcome) \in RowStates
    BY <1>b DEF Close, RowStates, Row
  <2>q. QED
    BY <1>b, <2>1, ReportTypes DEF Close, TypeOK
<1>1. CASE MainStep
  BY <1>1, MainTypes
<1>2. CASE CancelAnalysis
  <2>1. CASE CancelAway
    BY <1>2, <1>a, <2>1 DEF CancelAnalysis, CancelAway, TypeOK, Ends
  <2>2. CASE CancelWait
    BY <1>2, <2>2 DEF CancelAnalysis, CancelWait, TypeOK, Operations, Done, Tasks
  <2>3. CASE CancelLookup
    <3>1. Report("main", "geoip", "failed") /\ "failed" \in RowStates
      BY <2>3 DEF CancelLookup, GeoIPObserved, RowStates, Row
    <3>q. QED
      BY <1>2, <2>3, <3>1, ReportTypes DEF CancelAnalysis, CancelLookup, GeoIPObserved, TypeOK
  <2>q. QED
    BY <1>2, <2>1, <2>2, <2>3 DEF CancelAnalysis
<1>3. CASE DeadlinePasses
  BY <1>3 DEF DeadlinePasses, TypeOK
<1>4. ASSUME NEW c \in Tasks, StartCheck(c) PROVE TypeOK'
  <2>1. Report(c, c, "running") /\ "running" \in RowStates
    BY <1>4 DEF StartCheck, RowStates
  <2>q. QED
    BY <1>4, <2>1, ReportTypes DEF StartCheck, TypeOK
<1>5. ASSUME NEW c \in Tasks, EndCheck(c) PROVE TypeOK'
  <2>1. PICK outcome \in {"successful", "failed", "timeout"} :
           Observe(c, outcome) /\ Close(c, outcome)
    BY <1>5 DEF EndCheck
  <2>q. QED
    BY <1>5, <1>b, <2>1 DEF EndCheck, TypeOK
<1>6. ASSUME NEW c \in Tasks, CancelCheck(c) PROVE TypeOK'
  <2>1. CASE Close(c, "cancelled") /\ Observe(c, IF expired THEN "timeout" ELSE "cancelled")
    BY <1>6, <1>b, <2>1 DEF CancelCheck, TypeOK
  <2>2. CASE /\ task' = [task EXCEPT ![c] = "done"]
             /\ result' = [result EXCEPT ![c] = "cancelled"]
             /\ Abandon(c)
             /\ UNCHANGED obs
    BY <1>6, <1>a, <2>2 DEF CancelCheck, TypeOK
  <2>q. QED
    BY <1>6, <2>1, <2>2 DEF CancelCheck
<1>7. ASSUME NEW a \in Coroutines, TakeLock(a) PROVE TypeOK'
  <2>1. Publish(a, rep[a].check, rep[a].status)
        /\ rep[a].check \in AllChecks /\ rep[a].status \in RowStates
    BY <1>7 DEF TakeLock, TypeOK, Reports, NoReport
  <2>q. QED
    BY <1>7, <2>1, ReportTypes DEF TakeLock, TypeOK
<1>8. ASSUME NEW a \in Coroutines, Land(a) PROVE TypeOK'
  BY <1>8 DEF Land, TypeOK
<1>9. ASSUME NEW a \in Coroutines, Reported(a) PROVE TypeOK'
  BY <1>9, <1>a DEF Reported, TypeOK
<1>10. CASE UNCHANGED vars
  BY <1>10 DEF vars, TypeOK
<1>q. QED
  BY <1>1, <1>2, <1>3, <1>4, <1>5, <1>6, <1>7, <1>8, <1>9, <1>10
  DEF Next, CheckStep, ReportStep

-----------------------------------------------------------------------------
\* Main's steps keep the invariant.
LEMMA MainInv ==
    ASSUME TypeOK, TypeOK', AnalysisInv, MainStep
    PROVE  AnalysisInv'
<1> USE AnalysisAssumption
    DEF AnalysisInv, StartInv, TaskInv, TaskInvOf, PhaseInv, Good, Tasks, AllChecks, Goto,
        Observe, Operations, Idle, Waits
<1>1. CASE Resolve
  BY <1>1 DEF Resolve, taskVars, reportVars, TypeOK
<1>2. ASSUME NEW kind \in {"failed", "timeout"}, RDAPContextFails(kind),
             pc \in {"context", "bootstrap"}, UNCHANGED <<raising, expired, inTime, taskVars>>
      PROVE  AnalysisInv'
  BY <1>2 DEF RDAPContextFails, taskVars, TypeOK
<1>3. CASE LoadRDAPContext
  BY <1>2, <1>3 DEF LoadRDAPContext, taskVars, TypeOK
<1>4. CASE Bootstrap
  BY <1>2, <1>4 DEF Bootstrap, taskVars, TypeOK
<1>5. CASE Collect
  BY <1>5 DEF Collect, reportVars, TypeOK
<1>6. CASE WaitEnds
  <2> USE <1>6 DEF WaitEnds, Done, reportVars
  <2>1. /\ pc' \in {"unstarted", "reaping"} /\ pc = "waiting"
        /\ UNCHANGED <<raising, servers, task, result, obs, rep>>
        /\ pc' = "reaping" => expired'
        /\ pc' = "unstarted" => Operations \subseteq Done
    OBVIOUS
  <2>2. TaskInv'
    <3> TAKE c \in Tasks
    <3>1. c \in Operations => task[c] \in TaskPCs \ {"none"}
      BY DEF TypeOK, TaskPCs
    <3>2. (c \in inTime' <=> task[c] = "done") /\ (c \in toCancel' <=> c \in Operations \ Done)
      BY DEF TypeOK
    <3>3. /\ pc' = "unstarted" => task[c] \in {"none", "done"}
          /\ task[c] \in {"created", "operation"} => c \in Operations \ Done
      BY <2>1
    <3>4. c \in toCancel' => task[c] \in {"created", "operation", "closing"}
      BY <3>1, <3>2 DEF TaskPCs
    <3>q. QED
      BY <2>1, <3>2, <3>3, <3>4
  <2>q. QED
    BY <2>1, <2>2
<1>7. CASE Reap
  BY <1>7 DEF Reap, Done, taskVars, reportVars, TypeOK
<1>8. ASSUME NEW c \in Tasks, RecordUnstarted(c) PROVE AnalysisInv'
  BY <1>8 DEF RecordUnstarted, Unobserved, mainVars, taskVars, TypeOK
<1>9. CASE Merge
  BY <1>9 DEF Merge, Unobserved, taskVars, reportVars, TypeOK
<1>10. CASE GeoIP
  BY <1>10 DEF GeoIP, GeoIPObserved, taskVars, TypeOK
<1>11. CASE GeoIPLookup
  BY <1>11 DEF GeoIPLookup, GeoIPObserved, taskVars, TypeOK
<1>12. CASE Finish
  BY <1>12 DEF Finish, taskVars, reportVars, TypeOK
<1>q. QED
  BY <1>1, <1>3, <1>4, <1>5, <1>6, <1>7, <1>8, <1>9, <1>10, <1>11, <1>12 DEF MainStep

\* The end of an operation is observed as what the task returns.
LEMMA CloseInv ==
    ASSUME TypeOK, TypeOK', AnalysisInv, NEW c \in Tasks, NEW outcome \in Outcomes,
           NEW seen \in Outcomes, task[c] = "operation", Close(c, outcome), Observe(c, seen),
           UNCHANGED mainVars,
           \/ seen = outcome /\ outcome # "cancelled" /\ c \notin toCancel /\ UNCHANGED toCancel
           \/ /\ c \in toCancel /\ toCancel' = toCancel \ {c} /\ outcome = "cancelled"
              /\ seen = IF expired THEN "timeout" ELSE "cancelled"
    PROVE  AnalysisInv'
<1> USE DEF AnalysisInv, Good, Outcomes, Close, Observe, mainVars
<1>1. /\ task' = [task EXCEPT ![c] = task'[c]] /\ task'[c] \in {"closing", "done"}
      /\ result' = [result EXCEPT ![c] = outcome] /\ obs' = [obs EXCEPT ![c] = seen]
  BY DEF TypeOK
<1>2. pc \in {"waiting", "reaping"} /\ c \in Operations /\ c \notin inTime
  BY DEF TaskInv, TaskInvOf
<1>3. rep'["main"] = rep["main"]
  BY ReportTypes, AnalysisAssumption
  DEF Tasks, AllChecks, Coroutines, Row, RowStates
<1>4. StartInv'
  BY <1>2 DEF StartInv
<1>5. TaskInv'
  <2> SUFFICES ASSUME NEW d \in Tasks PROVE TaskInvOf(d)'
    BY DEF TaskInv
  <2>0. TaskInvOf(d) /\ TaskInvOf(c)
    BY DEF TaskInv
  <2>1. CASE d = c
    BY <1>1, <1>2, <2>0, <2>1 DEF TaskInvOf, PhaseInv, TypeOK, AllChecks, Tasks, Operations
  <2>2. CASE d # c
    BY <1>1, <2>0, <2>2 DEF TaskInvOf, TypeOK, AllChecks, Tasks, Operations
  <2>q. QED
    BY <2>1, <2>2
<1>6. PhaseInv'
  BY <1>1, <1>2, <1>3, AnalysisAssumption
  DEF PhaseInv, TypeOK, AllChecks, Tasks, Operations, TaskInv, TaskInvOf
<1>q. QED
  BY <1>4, <1>5, <1>6

\* A task that ends without an observation of its own leaves what was observed.
LEMMA EndInv ==
    ASSUME TypeOK, TypeOK', AnalysisInv, NEW c \in Tasks, UNCHANGED <<mainVars, obs>>,
           rep'["main"] = rep["main"],
           \/ /\ task[c] = "closing" /\ c \notin toCancel
              /\ task' = [task EXCEPT ![c] = "done"] /\ UNCHANGED <<result, toCancel>>
           \/ /\ c \in toCancel /\ toCancel' = toCancel \ {c}
              /\ task' = [task EXCEPT ![c] = "done"]
              /\ result' = [result EXCEPT ![c] = "cancelled"]
    PROVE  AnalysisInv'
BY AnalysisAssumption
DEF AnalysisInv, StartInv, TaskInv, TaskInvOf, PhaseInv, Good, Tasks, AllChecks, Operations,
    mainVars, TypeOK

\* Every step keeps the invariant.
LEMMA AnalysisStep ==
    ASSUME TypeOK, TypeOK', AnalysisInv, [Next]_vars
    PROVE  AnalysisInv'
<1> "main" \in Coroutines /\ "main" \notin Tasks /\ Tasks \subseteq Coroutines
    /\ Tasks \subseteq AllChecks /\ "geoip" \notin Tasks /\ {"rdap", "geoip"} \subseteq AllChecks
  BY AnalysisAssumption DEF Coroutines, Tasks, AllChecks
<1> USE DEF mainVars, taskVars, reportVars
<1>1. CASE MainStep
  BY <1>1, MainInv
<1>2. CASE CancelAnalysis
  <2> USE <1>2 DEF CancelAnalysis
  <2>1. CASE CancelAway
    BY <2>1 DEF CancelAway, Goto, Waits, AnalysisInv, StartInv, TaskInv, TaskInvOf, PhaseInv,
       Operations, Ended, Ends, TypeOK
  <2>2. CASE CancelWait
    BY <2>2 DEF CancelWait, Goto, Done, AnalysisInv, StartInv, TaskInv, TaskInvOf, PhaseInv,
       Operations, Ended, Ends, TypeOK
  <2>3. CASE CancelLookup
    BY <2>3 DEF CancelLookup, GeoIPObserved, Observe, Goto, AnalysisInv, StartInv, TaskInv,
       TaskInvOf, PhaseInv, Operations, Ended, Ends, TypeOK
  <2>q. QED
    BY <2>1, <2>2, <2>3
<1>3. CASE DeadlinePasses
  BY <1>3 DEF DeadlinePasses, AnalysisInv, StartInv, TaskInv, TaskInvOf, PhaseInv, Operations
<1>4. ASSUME NEW c \in Tasks, StartCheck(c) PROVE AnalysisInv'
  <2>1. rep'["main"] = rep["main"]
    BY <1>4, ReportTypes DEF StartCheck, RowStates
  <2>q. QED
    BY <1>4, <2>1 DEF StartCheck, AnalysisInv, StartInv, TaskInv, TaskInvOf, PhaseInv,
       Operations, TypeOK
<1>5. ASSUME NEW c \in Tasks, EndCheck(c) PROVE AnalysisInv'
  <2>1. PICK outcome \in {"successful", "failed", "timeout"} :
           Observe(c, outcome) /\ Close(c, outcome)
    BY <1>5 DEF EndCheck
  <2>q. QED
    BY <1>5, <2>1, CloseInv DEF EndCheck, Outcomes
<1>6. ASSUME NEW c \in Tasks, CancelCheck(c) PROVE AnalysisInv'
  <2>1. CASE /\ task[c] = "operation" /\ Close(c, "cancelled")
             /\ Observe(c, IF expired THEN "timeout" ELSE "cancelled")
    BY <1>6, <2>1, CloseInv DEF CancelCheck, Outcomes
  <2>2. CASE /\ task' = [task EXCEPT ![c] = "done"]
             /\ result' = [result EXCEPT ![c] = "cancelled"]
             /\ Abandon(c)
             /\ UNCHANGED obs
    <3>1. rep'["main"] = rep["main"]
      BY <2>2 DEF Abandon, TypeOK
    <3>q. QED
      BY <1>6, <2>2, <3>1, EndInv DEF CancelCheck
  <2>q. QED
    BY <1>6, <2>1, <2>2 DEF CancelCheck
<1>7. ASSUME NEW a \in Coroutines, TakeLock(a) PROVE AnalysisInv'
  <2>1. rep["main"] = NoReport => rep'["main"] = NoReport
    BY <1>7 DEF TakeLock, Publish, NoReport, TypeOK
  <2>q. QED
    BY <1>7, <2>1 DEF TakeLock, AnalysisInv, StartInv, TaskInv, TaskInvOf, PhaseInv, Operations
<1>8. ASSUME NEW a \in Coroutines, Land(a) PROVE AnalysisInv'
  BY <1>8 DEF Land, AnalysisInv, StartInv, TaskInv, TaskInvOf, PhaseInv, Operations
<1>9. ASSUME NEW a \in Coroutines, Reported(a) PROVE AnalysisInv'
  <2>1. rep["main"] = NoReport => rep'["main"] = NoReport
    BY <1>9 DEF Reported, Abandon, NoReport, TypeOK
  <2>2. CASE a \in Tasks /\ task[a] = "closing"
    <3>1. rep'["main"] = rep["main"]
      BY <1>9, <2>2 DEF Reported, Abandon, TypeOK
    <3>2. \A c \in Tasks : task'[c] = IF c = a THEN "done" ELSE task[c]
      BY <1>9, <2>2 DEF Reported
    <3>3. task' = [task EXCEPT ![a] = "done"]
      BY <3>2, <2>2 DEF TypeOK
    <3>q. QED
      BY <1>9, <2>2, <3>1, <3>3, EndInv DEF Reported
  <2>3. CASE ~(a \in Tasks /\ task[a] = "closing")
    <3>1. task' = task
      BY <1>9, <2>3 DEF Reported, TypeOK
    <3>q. QED
      BY <1>9, <2>1, <3>1 DEF Reported, AnalysisInv, StartInv, TaskInv, TaskInvOf, PhaseInv,
         Operations
  <2>q. QED
    BY <2>2, <2>3
<1>10. CASE UNCHANGED vars
  BY <1>10 DEF vars, AnalysisInv, StartInv, TaskInv, TaskInvOf, PhaseInv, Operations
<1>q. QED
  BY <1>1, <1>2, <1>3, <1>4, <1>5, <1>6, <1>7, <1>8, <1>9, <1>10
  DEF Next, CheckStep, ReportStep

\* Every variable keeps its type, and the analysis its invariant.
THEOREM TypeCorrect == Spec => [](TypeOK /\ AnalysisInv)
<1>1. Init => TypeOK /\ AnalysisInv
  <2> HAVE Init
  <2>1. TypeOK
    <3>1. rows \in Progress /\ published \in Progress
      BY DEF Init, Progress, RowStates
    <3>q. QED
      BY <3>1 DEF Init, TypeOK
  <2>2. AnalysisInv
    BY DEF Init, AnalysisInv, StartInv, TaskInv, TaskInvOf, PhaseInv, AllChecks, Tasks,
       Operations
  <2>q. QED
    BY <2>1, <2>2
<1>2. TypeOK /\ AnalysisInv /\ [Next]_vars => (TypeOK /\ AnalysisInv)'
  BY StepTypes, AnalysisStep DEF AnalysisInv
<1>q. QED
  BY <1>1, <1>2, PTL DEF Spec

\* Nothing of an analysis that has ended runs on, however it ended (_wait_for_tasks
\* reaps what it cancels, and a cancellation elsewhere finds no task).
THEOREM TasksAreReaped == Spec => []NoTaskLeft
<1>1. TypeOK /\ AnalysisInv => NoTaskLeft
  BY DEF TypeOK, AnalysisInv, TaskInv, TaskInvOf, NoTaskLeft, Ended, Ends
<1>q. QED
  BY <1>1, TypeCorrect, PTL

\* Every check of a completed analysis has an observation, and none is a cancellation.
THEOREM ChecksAreAccounted == Spec => []EveryCheckAccounted
<1>1. TypeOK /\ AnalysisInv => EveryCheckAccounted
  BY DEF TypeOK, AnalysisInv, TaskInv, TaskInvOf, PhaseInv, EveryCheckAccounted, AllChecks,
     Outcomes
<1>q. QED
  BY <1>1, TypeCorrect, PTL

LEMMA ObservedStep ==
    ASSUME TypeOK, AnalysisInv, [Next]_vars, NEW c \in AllChecks, obs[c] # "none"
    PROVE  obs'[c] = obs[c]
<1> USE DEF TypeOK, AnalysisInv
<1>1. CASE MainStep
  BY <1>1, AnalysisAssumption
  DEF MainStep, Resolve, LoadRDAPContext, Bootstrap, RDAPContextFails, Collect, WaitEnds,
      Reap, RecordUnstarted, Unobserved, Merge, GeoIP, GeoIPLookup, GeoIPObserved, Finish,
      Observe, StartInv, PhaseInv
<1>2. CASE CancelAnalysis
  BY <1>2 DEF CancelAnalysis, CancelAway, CancelWait, CancelLookup, GeoIPObserved, Observe,
       PhaseInv
<1>3. ASSUME NEW d \in Tasks, CheckStep(d) PROVE obs'[c] = obs[c]
  BY <1>3 DEF CheckStep, StartCheck, EndCheck, CancelCheck, Observe, TaskInv, TaskInvOf
<1>4. CASE DeadlinePasses \/ UNCHANGED vars \/ \E a \in Coroutines : ReportStep(a)
  BY <1>4 DEF DeadlinePasses, ReportStep, TakeLock, Land, Reported, vars
<1>q. QED
  BY <1>1, <1>2, <1>3, <1>4 DEF Next

\* How a check ended is never rewritten: the task, the collector that records the
\* timeouts and the RDAP context each write an observation that is not there yet.
THEOREM ObservationsAreFinal == Spec => ObservedOnce
<1>1. TypeOK /\ AnalysisInv /\ [Next]_vars
          => [\A c \in AllChecks : obs[c] # "none" => obs'[c] = obs[c]]_vars
  BY ObservedStep
<1>q. QED
  BY <1>1, TypeCorrect, PTL DEF Spec, ObservedOnce

-----------------------------------------------------------------------------
\* An analysis has its callback, or has none, for good.
LEMMA CallbackIsFixed == [Next]_vars => reporting' = reporting
<1> SUFFICES ASSUME [Next]_vars PROVE reporting' = reporting
  OBVIOUS
<1> USE DEF mainVars
<1>1. CASE MainStep
  BY <1>1 DEF MainStep, Resolve, LoadRDAPContext, Bootstrap, Collect, WaitEnds, Reap,
     RecordUnstarted, Merge, GeoIP, GeoIPLookup, Finish
<1>2. CASE CancelAnalysis \/ DeadlinePasses
  BY <1>2 DEF CancelAnalysis, DeadlinePasses
<1>3. ASSUME NEW c \in Tasks, CheckStep(c) PROVE reporting' = reporting
  BY <1>3 DEF CheckStep, StartCheck, EndCheck, CancelCheck
<1>4. ASSUME NEW a \in Coroutines, ReportStep(a) PROVE reporting' = reporting
  BY <1>4 DEF ReportStep, TakeLock, Land, Reported
<1>5. CASE UNCHANGED vars
  BY <1>5 DEF vars
<1>q. QED
  BY <1>1, <1>2, <1>3, <1>4, <1>5 DEF Next

\* Without a callback no coroutine ever waits for the reporter.
LEMMA NoReportsStep ==
    ASSUME TypeOK, TypeOK', AnalysisInv, AnalysisInv', NoReportsInv, [Next]_vars
    PROVE  NoReportsInv'
<1> SUFFICES ASSUME ~reporting, reporting' = reporting PROVE NoReportsInv'
  BY CallbackIsFixed DEF NoReportsInv
<1> "main" \in Coroutines /\ "main" \notin Tasks /\ Tasks \subseteq Coroutines
    /\ Tasks \subseteq AllChecks /\ "geoip" \notin Tasks /\ {"rdap", "geoip"} \subseteq AllChecks
  BY AnalysisAssumption DEF Coroutines, Tasks, AllChecks
<1> USE DEF mainVars, taskVars, reportVars, NoReportsInv, Report, NoReports, Operations
<1>1. CASE MainStep
  <2> USE DEF Goto, RDAPContextFails, GeoIPObserved, Observe
  <2>1. CASE Resolve \/ LoadRDAPContext \/ Bootstrap \/ Merge \/ GeoIP \/ GeoIPLookup \/ Finish
    BY <2>1 DEF Resolve, LoadRDAPContext, Bootstrap, Merge, GeoIP, GeoIPLookup, Finish, Ends
  <2>2. CASE Collect
    <3>1. pc' = "unstarted" => \A c \in Operations \ inTime : obs[c] = "none"
      BY <2>2, AnalysisAssumption DEF Collect, AnalysisInv, StartInv, Tasks, AllChecks, Goto
    <3>q. QED
      BY <2>2, <3>1 DEF Collect, TypeOK
  <2>3. CASE WaitEnds
    <3>1. \A c \in Operations \ Done : c \in Tasks /\ obs[c] = "none"
      BY <2>3 DEF WaitEnds, Done, AnalysisInv, TaskInv, TaskInvOf, TypeOK, Tasks
    <3>q. QED
      BY <2>3, <3>1 DEF WaitEnds
  <2>4. CASE Reap
    BY <2>4 DEF Reap
  <2>5. ASSUME NEW c \in Tasks, RecordUnstarted(c) PROVE NoReportsInv'
    BY <2>5 DEF RecordUnstarted, TypeOK
  <2>q. QED
    BY <1>1, <2>1, <2>2, <2>3, <2>4, <2>5 DEF MainStep
<1>2. CASE CancelAnalysis
  BY <1>2 DEF CancelAnalysis, CancelAway, CancelWait, CancelLookup, GeoIPObserved, Observe,
     Goto, Abandon, TypeOK
<1>3. CASE DeadlinePasses
  BY <1>3 DEF DeadlinePasses
<1>4. ASSUME NEW c \in Tasks, StartCheck(c) PROVE NoReportsInv'
  BY <1>4 DEF StartCheck, TypeOK
<1>5. ASSUME NEW c \in Tasks, NEW outcome \in Outcomes, NEW seen \in Outcomes,
             task[c] = "operation", Close(c, outcome), Observe(c, seen), UNCHANGED mainVars,
             pc = "reaping" /\ ~raising => seen = "timeout"
      PROVE  NoReportsInv'
  <2>1. pc # "unstarted"
    BY <1>5 DEF AnalysisInv, TaskInv, TaskInvOf
  <2>q. QED
    BY <1>5, <2>1 DEF Close, Observe, TypeOK
<1>6. ASSUME NEW c \in Tasks, EndCheck(c) PROVE NoReportsInv'
  <2>1. pc # "reaping"
    BY <1>6 DEF EndCheck, AnalysisInv, TaskInv, TaskInvOf
  <2>q. QED
    BY <1>5, <1>6, <2>1 DEF EndCheck, Outcomes
<1>7. ASSUME NEW c \in Tasks, CancelCheck(c) PROVE NoReportsInv'
  <2>1. CASE /\ task[c] = "operation" /\ Close(c, "cancelled")
             /\ Observe(c, IF expired THEN "timeout" ELSE "cancelled")
    <3>1. pc = "reaping" /\ ~raising => expired
      BY DEF AnalysisInv, PhaseInv
    <3>q. QED
      BY <1>5, <1>7, <2>1, <3>1 DEF CancelCheck, Outcomes
  <2>2. CASE /\ task' = [task EXCEPT ![c] = "done"] /\ Abandon(c) /\ UNCHANGED obs
    BY <1>7, <2>2 DEF CancelCheck, Abandon, TypeOK
  <2>q. QED
    BY <1>7, <2>1, <2>2 DEF CancelCheck
<1>8. CASE UNCHANGED vars
  BY <1>8 DEF vars
<1>9. ASSUME NEW a \in Coroutines, ReportStep(a) PROVE NoReportsInv'
  <2>1. Land(a)
    BY <1>9 DEF ReportStep, TakeLock, Reported, NoReport
  <2>q. QED
    BY <2>1 DEF Land
<1>q. QED
  BY <1>1, <1>2, <1>3, <1>4, <1>6, <1>7, <1>8, <1>9 DEF Next, CheckStep

\* The errors follow the observations through every step.
LEMMA ErrorsStep ==
    ASSUME TypeOK, TypeOK', AnalysisInv, AnalysisInv', NoReportsInv, ErrorsInv, [Next]_vars
    PROVE  ErrorsInv'
<1> reporting' = reporting
  BY CallbackIsFixed
<1> "main" \in Coroutines /\ "main" \notin Tasks /\ Tasks \subseteq Coroutines
    /\ Tasks \subseteq AllChecks /\ "geoip" \notin Tasks /\ {"rdap", "geoip"} \subseteq AllChecks
    /\ AllChecks = Tasks \cup {"geoip"} /\ "rdap" \in Tasks
  BY AnalysisAssumption DEF Coroutines, Tasks, AllChecks
<1> USE DEF mainVars, taskVars, ErrorsInv, Agree, Clear
<1>1. CASE Resolve
  BY <1>1 DEF Resolve, Goto
<1>2. ASSUME NEW kind \in {"failed", "timeout"}, RDAPContextFails(kind),
             pc \in {"context", "bootstrap"}
      PROVE  ErrorsInv'
  <2>1. errors' = {<<"rdap", kind>>} /\ pc' = "collect" /\ obs'["rdap"] = kind /\ ~servers'
    BY <1>2 DEF RDAPContextFails, Goto, Observe, AnalysisInv, StartInv, TypeOK
  <2>q. QED
    BY <2>1
<1>3. CASE LoadRDAPContext
  BY <1>2, <1>3 DEF LoadRDAPContext, Goto
<1>4. CASE Bootstrap
  BY <1>2, <1>4 DEF Bootstrap, Goto
<1>5. CASE Collect \/ WaitEnds \/ Reap
  BY <1>5 DEF Collect, WaitEnds, Reap, Goto
<1>6. ASSUME NEW c \in Tasks, RecordUnstarted(c) PROVE ErrorsInv'
  <2>1. c = "rdap" => servers
    BY <1>6, AnalysisAssumption DEF RecordUnstarted, Unobserved, Operations
  <2>q. QED
    BY <1>6, <2>1 DEF RecordUnstarted, Observe, TypeOK
<1>7. CASE Merge
  <2> USE <1>7 DEF Merge, Goto
  <2>1. ~raising
    BY DEF AnalysisInv, PhaseInv
  <2>2. ASSUME NEW c \in Operations, ~reporting PROVE Agree(c)'
    <3>1. c \in Tasks /\ Clear(c)
      BY AnalysisAssumption DEF Operations, Tasks
    <3>2. c \notin inTime => obs[c] = "timeout"
      BY <2>1, <2>2 DEF NoReportsInv, Unobserved
    <3>3. c \in inTime => obs[c] = result[c] /\ result[c] \in Good
      BY <3>1 DEF AnalysisInv, TaskInv, TaskInvOf
    <3>4. \A kind \in {"failed", "timeout"} : <<c, kind>> \in errors' <=> <<c, kind>> \in ErrorOf(c)
      <4> TAKE kind \in {"failed", "timeout"}
      <4>1. \A d \in Operations : <<c, kind>> \in ErrorOf(d) => d = c
        BY DEF ErrorOf
      <4>q. QED
        BY <2>2, <3>1, <4>1
    <3>q. QED
      BY <3>2, <3>3, <3>4 DEF ErrorOf, Good
  <2>3. ASSUME NEW c \in AllChecks \ Operations, NEW kind \in {"failed", "timeout"}
        PROVE  <<c, kind>> \in errors' <=> <<c, kind>> \in errors
    <3>1. \A d \in Operations : <<c, kind>> \notin ErrorOf(d)
      BY <2>3 DEF ErrorOf
    <3>q. QED
      BY <3>1
  <2>4. \A c \in Tasks \ Operations : Agree(c)'
    BY <2>3 DEF Operations, Tasks
  <2>5. Clear("geoip")'
    BY <2>3 DEF Operations, Tasks
  <2>q. QED
    BY <2>2, <2>4, <2>5
<1>8. ASSUME NEW outcome \in Outcomes, GeoIPObserved(outcome), pc \in {"geoip", "lookup"},
             errors' = errors \cup IF outcome \in {"failed", "timeout"}
                                   THEN {<<"geoip", outcome>>} ELSE {},
             UNCHANGED servers
      PROVE  ErrorsInv'
  <2>1. pc' = "finish" /\ obs' = [obs EXCEPT !["geoip"] = outcome]
    BY <1>8 DEF GeoIPObserved, Goto, Observe
  <2>2. Agree("geoip")'
    BY <1>8, <2>1 DEF TypeOK
  <2>3. ~reporting => \A c \in Tasks : Agree(c)'
    BY <1>8, <2>1 DEF TypeOK
  <2>q. QED
    BY <2>1, <2>2, <2>3
<1>9. CASE GeoIP
  BY <1>8, <1>9 DEF GeoIP, Goto, Outcomes
<1>10. CASE GeoIPLookup
  BY <1>8, <1>10 DEF GeoIPLookup, Outcomes
<1>11. CASE Finish
  BY <1>11 DEF Finish, Goto
<1>12. CASE CancelAnalysis
  <2>1. CASE CancelLookup
    BY <1>8, <1>12, <2>1 DEF CancelAnalysis, CancelLookup, Outcomes
  <2>2. CASE CancelAway \/ CancelWait
    BY <1>12, <2>2 DEF CancelAnalysis, CancelAway, CancelWait, Goto
  <2>q. QED
    BY <1>12, <2>1, <2>2 DEF CancelAnalysis
<1>13. ASSUME NEW c \in Tasks, CheckStep(c) PROVE ErrorsInv'
  <2>1. CASE obs' = obs
    BY <1>13, <2>1 DEF CheckStep, StartCheck, EndCheck, CancelCheck
  <2>2. CASE task[c] = "operation" /\ \E outcome \in Outcomes : Observe(c, outcome)
    <3>1. pc \in {"waiting", "reaping"} /\ (c = "rdap" => servers)
      BY <2>2, AnalysisAssumption DEF AnalysisInv, TaskInv, TaskInvOf, Operations
    <3>q. QED
      BY <1>13, <2>2, <3>1 DEF CheckStep, StartCheck, EndCheck, CancelCheck, Observe, TypeOK
  <2>q. QED
    BY <1>13, <2>1, <2>2 DEF CheckStep, StartCheck, EndCheck, CancelCheck, Outcomes
<1>14. CASE DeadlinePasses \/ UNCHANGED vars \/ \E a \in Coroutines : ReportStep(a)
  BY <1>14 DEF DeadlinePasses, ReportStep, TakeLock, Land, Reported, vars
<1>q. QED
  BY <1>1, <1>3, <1>4, <1>5, <1>6, <1>7, <1>9, <1>10, <1>11, <1>12, <1>13, <1>14
  DEF Next, MainStep

LEMMA ErrorsHold == Spec => [](NoReportsInv /\ ErrorsInv)
<1>1. Init => NoReportsInv /\ ErrorsInv
  BY DEF Init, NoReportsInv, ErrorsInv
<1>2. /\ TypeOK /\ AnalysisInv /\ (TypeOK /\ AnalysisInv)' /\ NoReportsInv /\ ErrorsInv
      /\ [Next]_vars
      => (NoReportsInv /\ ErrorsInv)'
  BY NoReportsStep, ErrorsStep
<1>q. QED
  BY <1>1, <1>2, TypeCorrect, PTL DEF Spec

\* The errors of a completed analysis without a callback are what its metadata says:
\* _result_or_default and _run_check never disagree about a check.
THEOREM ErrorsAgree == Spec => []ErrorsMatchObservations
<1>1. TypeOK /\ AnalysisInv /\ ErrorsInv => ErrorsMatchObservations
  BY DEF AnalysisInv, PhaseInv, ErrorsInv, Agree, ErrorsMatchObservations, AllChecks
<1>q. QED
  BY <1>1, ErrorsHold, TypeCorrect, PTL

-----------------------------------------------------------------------------
(* What is not successful is an error *)

Told(c) == obs[c] # "successful" => \E kind \in {"failed", "timeout"} : <<c, kind>> \in errors

ToldInv ==
    /\ pc \in {"geoip", "lookup", "finish", "completed"} => \A c \in Tasks : Told(c)
    /\ pc \in {"finish", "completed"} /\ ~raising => Told("geoip")

LEMMA ToldStep ==
    ASSUME TypeOK, AnalysisInv, AnalysisInv', ErrorsInv, ToldInv, [Next]_vars
    PROVE  ToldInv'
<1> "main" \in Coroutines /\ "main" \notin Tasks /\ Tasks \subseteq Coroutines
    /\ Tasks \subseteq AllChecks /\ "geoip" \notin Tasks /\ {"rdap", "geoip"} \subseteq AllChecks
    /\ AllChecks = Tasks \cup {"geoip"} /\ Tasks = Checks \cup {"rdap"} /\ "rdap" \notin Checks
  BY AnalysisAssumption DEF Coroutines, Tasks, AllChecks
<1> USE DEF mainVars, taskVars, Told
<1>1. ASSUME pc \in {"geoip", "lookup", "finish", "completed"}, errors \subseteq errors'
      PROVE  \A c \in Tasks : Told(c)'
  <2>1. \A c \in Tasks : obs'[c] = obs[c]
    BY <1>1, ObservedStep DEF AnalysisInv, PhaseInv
  <2>q. QED
    BY <1>1, <2>1 DEF ToldInv
<1>2. ASSUME pc' = pc, raising' = raising, errors' = errors PROVE ToldInv'
  <2>1. pc \in {"finish", "completed"} => obs'["geoip"] = obs["geoip"]
    BY ObservedStep DEF AnalysisInv, PhaseInv
  <2>q. QED
    BY <1>1, <1>2, <2>1 DEF ToldInv
<1>3. CASE Merge
  <2> USE <1>3 DEF Merge, Goto
  <2>1. ASSUME NEW c \in Operations, obs[c] # "successful"
        PROVE  \E kind \in {"failed", "timeout"} : <<c, kind>> \in ErrorOf(c)
    <3>1. CASE c \notin inTime
      BY <3>1 DEF ErrorOf
    <3>2. CASE c \in inTime
      <4>1. result[c] \in {"failed", "timeout"}
        BY <2>1, <3>2 DEF AnalysisInv, TaskInv, TaskInvOf, Operations, Good
      <4>2. <<c, result[c]>> \in ErrorOf(c)
        BY <3>2, <4>1 DEF ErrorOf
      <4>q. QED
        BY <4>1, <4>2
    <3>q. QED
      BY <3>1, <3>2
  <2>2. \A c \in Operations : Told(c)'
    BY <2>1
  <2>3. ~servers => Told("rdap")'
    BY DEF AnalysisInv, PhaseInv, ErrorsInv, Agree
  <2>q. QED
    BY <2>2, <2>3 DEF ToldInv, Operations
<1>4. ASSUME NEW outcome \in Outcomes, GeoIPObserved(outcome), pc \in {"geoip", "lookup"},
             errors' = errors \cup IF outcome \in {"failed", "timeout"}
                                   THEN {<<"geoip", outcome>>} ELSE {},
             outcome = "cancelled" => raising'
      PROVE  ToldInv'
  <2>1. obs'["geoip"] = outcome
    BY <1>4 DEF GeoIPObserved, Observe, TypeOK
  <2>q. QED
    BY <1>1, <1>4, <2>1 DEF ToldInv, Outcomes
<1>5. CASE GeoIP
  <2>1. CASE late /\ GeoIPObserved("timeout")
    BY <1>4, <1>5, <2>1 DEF GeoIP, Outcomes
  <2>2. CASE pc' = "lookup" /\ errors' = errors /\ pc = "geoip"
    BY <1>1, <2>2 DEF ToldInv
  <2>q. QED
    BY <1>5, <2>1, <2>2 DEF GeoIP, Goto
<1>6. CASE GeoIPLookup
  BY <1>4, <1>6 DEF GeoIPLookup, Outcomes
<1>7. CASE Finish
  <2>1. obs'["geoip"] = obs["geoip"] /\ errors' = errors /\ raising' = raising /\ pc = "finish"
    BY <1>7 DEF Finish
  <2>q. QED
    BY <1>1, <2>1 DEF ToldInv
<1>8. CASE Resolve \/ LoadRDAPContext \/ Bootstrap \/ Collect \/ WaitEnds \/ Reap
  BY <1>8 DEF Resolve, LoadRDAPContext, Bootstrap, RDAPContextFails, Collect, WaitEnds, Reap,
     Goto, ToldInv
<1>9. CASE CancelAnalysis
  <2>1. CASE CancelLookup
    BY <1>4, <1>9, <2>1 DEF CancelAnalysis, CancelLookup, Outcomes
  <2>2. CASE CancelAway \/ CancelWait
    BY <1>9, <2>2 DEF CancelAnalysis, CancelAway, CancelWait, Goto, ToldInv
  <2>q. QED
    BY <1>9, <2>1, <2>2 DEF CancelAnalysis
<1>10. CASE \E c \in Tasks : RecordUnstarted(c) \/ CheckStep(c)
  BY <1>2, <1>10 DEF RecordUnstarted, CheckStep, StartCheck, EndCheck, CancelCheck
<1>11. CASE DeadlinePasses \/ UNCHANGED vars \/ \E a \in Coroutines : ReportStep(a)
  BY <1>2, <1>11 DEF DeadlinePasses, ReportStep, TakeLock, Land, Reported, vars
<1>q. QED
  BY <1>3, <1>5, <1>6, <1>7, <1>8, <1>9, <1>10, <1>11 DEF Next, MainStep

\* No check fails silently: what a completed analysis has not observed successful is
\* in its errors, with and without progress reports.
THEOREM FailuresAreReported == Spec => []FailuresReported
<1>1. Init => ToldInv
  BY DEF Init, ToldInv
<1>2. TypeOK /\ AnalysisInv /\ AnalysisInv' /\ ErrorsInv /\ ToldInv /\ [Next]_vars => ToldInv'
  BY ToldStep
<1>3. AnalysisInv /\ ToldInv => FailuresReported
  BY DEF AnalysisInv, PhaseInv, ToldInv, Told, FailuresReported, AllChecks
<1>q. QED
  BY <1>1, <1>2, <1>3, ErrorsHold, TypeCorrect, PTL DEF Spec

-----------------------------------------------------------------------------
(* The reporter *)

\* A task reports itself and nothing else, while it runs; Main reports geoip, or what
\* it has observed itself, and waits for each report before it goes on.
OwnInv ==
    /\ \A c \in Tasks : rep[c] # NoReport =>
          rep[c].check = c /\ task[c] \in {"operation", "closing"}
    /\ rep["main"] # NoReport => rep["main"].check = "geoip" \/ obs[rep["main"].check] # "none"
    /\ pc \in {"resolve", "context", "bootstrap", "geoip", "completed"} => rep["main"] = NoReport

\* Rows that show no success that was not observed.
Honest(progress) == \A c \in AllChecks : progress[c] = "successful" => obs[c] = "successful"

HonestInv ==
    /\ \A a \in Coroutines : rep[a] # NoReport =>
          /\ rep[a].status = "successful" => obs[rep[a].check] = "successful"
          /\ rep[a].status = "failed" => obs[rep[a].check] # "none"
          /\ rep[a].status # "queued"
    /\ \A c \in AllChecks : obs[c] = "none" => rows[c] \in {"queued", "running"}
    /\ Honest(rows) /\ Honest(published)
    /\ \A a \in Coroutines : writing[a] # NoWrite => Honest(writing[a])

\* A report that waits is still true.
Current ==
    \A a \in Coroutines :
        rep[a] # NoReport /\ obs[rep[a].check] # "none" => rep[a].status = Row(obs[rep[a].check])

\* Every observation is shown, or on its way.
Shown ==
    reporting => \A c \in AllChecks : obs[c] # "none" =>
        \/ rows[c] = Row(obs[c])
        \/ \E a \in Coroutines : rep[a].stage = "lock" /\ rep[a].check = c

\* A thread that writes has the lock, and the rows as they are.
Writers == \A a \in Coroutines : writing[a] # NoWrite => rep[a].stage = "publish" /\ writing[a] = rows

Behind == \A c \in AllChecks : Rank(published[c]) <= Rank(rows[c])

\* All of this holds until something is cancelled.
CalmInv == ~expired /\ ~raising => Current /\ Shown /\ Writers /\ Behind

\* What a step may do to the reporter.
Silent == UNCHANGED <<obs, reportVars, published>>

Starts(a, check) ==
    /\ rep[a] = NoReport /\ obs[check] = "none"
    /\ Report(a, check, "running")
    /\ UNCHANGED <<obs, published>>

Observes(a, check, outcome) ==
    /\ rep[a] = NoReport /\ obs[check] = "none"
    /\ \A b \in Coroutines : rep[b] # NoReport => rep[b].check # check
    /\ Observe(check, outcome) /\ Report(a, check, Row(outcome))
    /\ UNCHANGED published

Abandons(a) == Abandon(a) /\ (expired' \/ raising') /\ UNCHANGED <<obs, published>>

ReporterMoves ==
    \/ Silent
    \/ \E a \in Coroutines : Abandons(a) \/ ReportStep(a)
    \/ \E a \in Coroutines, check \in AllChecks : Starts(a, check)
    \/ \E a \in Coroutines, check \in AllChecks, outcome \in Outcomes : Observes(a, check, outcome)

LEMMA CoroutineNames ==
    /\ "main" \in Coroutines /\ "main" \notin Tasks /\ Tasks \subseteq Coroutines
    /\ Coroutines = Tasks \cup {"main"} /\ AllChecks = Tasks \cup {"geoip"}
    /\ Tasks \subseteq AllChecks /\ "geoip" \notin Tasks /\ {"rdap", "geoip"} \subseteq AllChecks
    /\ Tasks = Checks \cup {"rdap"} /\ "rdap" \notin Checks
BY AnalysisAssumption DEF Coroutines, Tasks, AllChecks

\* What is observed is observed for the first time, and nothing waits to report it.
LEMMA MovesOfStep ==
    ASSUME TypeOK, AnalysisInv, OwnInv, [Next]_vars
    PROVE  ReporterMoves
<1> USE DEF mainVars, taskVars
<1>1. ASSUME NEW check \in AllChecks, NEW outcome \in Outcomes, rep["main"] = NoReport,
             obs[check] = "none", check \in Tasks => task[check] \in {"none", "done"},
             Observe(check, outcome), Report("main", check, Row(outcome)), UNCHANGED published
      PROVE  Observes("main", check, outcome)
  BY <1>1, CoroutineNames DEF Observes, OwnInv
<1>2. ASSUME NEW kind \in {"failed", "timeout"}, RDAPContextFails(kind),
             pc \in {"context", "bootstrap"}, UNCHANGED published
      PROVE  Observes("main", "rdap", kind)
  <2>1. rep["main"] = NoReport /\ obs["rdap"] = "none" /\ task["rdap"] = "none"
    BY <1>2, CoroutineNames DEF OwnInv, AnalysisInv, StartInv
  <2>2. Observe("rdap", kind) /\ Report("main", "rdap", Row(kind)) /\ kind \in Outcomes
    BY <1>2 DEF RDAPContextFails, Row, Outcomes
  <2>q. QED
    BY <1>1, <1>2, <2>1, <2>2, CoroutineNames
<1>3. ASSUME NEW outcome \in Outcomes, GeoIPObserved(outcome), pc \in {"geoip", "lookup"},
             rep["main"] = NoReport, UNCHANGED published
      PROVE  Observes("main", "geoip", outcome)
  <2>1. obs["geoip"] = "none"
    BY <1>3 DEF AnalysisInv, PhaseInv
  <2>q. QED
    BY <1>1, <1>3, <2>1, CoroutineNames DEF GeoIPObserved
<1>4. CASE MainStep
  <2>1. CASE LoadRDAPContext \/ Bootstrap
    BY <1>2, <2>1, CoroutineNames DEF LoadRDAPContext, Bootstrap, ReporterMoves, Silent, Outcomes
  <2>2. ASSUME NEW c \in Tasks, RecordUnstarted(c) PROVE ReporterMoves
    <3>1. rep["main"] = NoReport /\ obs[c] = "none" /\ task[c] \in {"none", "done"}
      BY <2>2 DEF RecordUnstarted, Idle, Waits, Unobserved, AnalysisInv, TaskInv, TaskInvOf, TypeOK
    <3>2. Observe(c, "timeout") /\ Report("main", c, Row("timeout")) /\ "timeout" \in Outcomes
      BY <2>2 DEF RecordUnstarted, Row, Outcomes
    <3>q. QED
      BY <1>1, <2>2, <3>1, <3>2, CoroutineNames DEF ReporterMoves, RecordUnstarted
  <2>3. CASE GeoIP
    <3>1. rep["main"] = NoReport /\ obs["geoip"] = "none"
      BY <2>3 DEF GeoIP, OwnInv, AnalysisInv, PhaseInv
    <3>q. QED
      BY <1>3, <2>3, <3>1, CoroutineNames DEF GeoIP, ReporterMoves, Starts, Outcomes
  <2>4. CASE GeoIPLookup
    BY <1>3, <2>4, CoroutineNames DEF GeoIPLookup, Idle, Waits, ReporterMoves, Outcomes
  <2>5. CASE Resolve \/ Collect \/ WaitEnds \/ Reap \/ Merge \/ Finish
    BY <2>5 DEF Resolve, Collect, WaitEnds, Reap, Merge, Finish, ReporterMoves, Silent
  <2>q. QED
    BY <1>4, <2>1, <2>2, <2>3, <2>4, <2>5 DEF MainStep
<1>5. CASE CancelAnalysis
  <2>1. CASE CancelLookup
    BY <1>3, <1>5, <2>1, CoroutineNames
    DEF CancelAnalysis, CancelLookup, Idle, Waits, ReporterMoves, Outcomes
  <2>2. CASE CancelAway
    BY <1>5, <2>2, CoroutineNames DEF CancelAnalysis, CancelAway, ReporterMoves, Abandons
  <2>3. CASE CancelWait
    BY <1>5, <2>3 DEF CancelAnalysis, CancelWait, ReporterMoves, Silent
  <2>q. QED
    BY <1>5, <2>1, <2>2, <2>3 DEF CancelAnalysis
<1>6. ASSUME NEW c \in Tasks, StartCheck(c) PROVE ReporterMoves
  <2>1. rep[c] = NoReport /\ obs[c] = "none"
    BY <1>6 DEF StartCheck, OwnInv, AnalysisInv, TaskInv, TaskInvOf
  <2>q. QED
    BY <1>6, <2>1, CoroutineNames DEF StartCheck, ReporterMoves, Starts
<1>7. ASSUME NEW c \in Tasks, task[c] = "operation", Idle(c), UNCHANGED published,
             NEW outcome \in Outcomes, NEW seen \in Outcomes, Row(seen) = Row(outcome),
             Observe(c, seen), Close(c, outcome)
      PROVE  ReporterMoves
  <2>1. rep[c] = NoReport /\ obs[c] = "none"
    BY <1>7 DEF Idle, Waits, AnalysisInv, TaskInv, TaskInvOf
  <2>2. \A b \in Coroutines : rep[b] # NoReport => rep[b].check # c
    BY <2>1, CoroutineNames DEF OwnInv
  <2>3. Observes(c, c, seen)
    BY <1>7, <2>1, <2>2 DEF Observes, Close
  <2>q. QED
    BY <2>3, CoroutineNames DEF ReporterMoves
<1>8. ASSUME NEW c \in Tasks, EndCheck(c) PROVE ReporterMoves
  BY <1>7, <1>8 DEF EndCheck, Outcomes
<1>9. ASSUME NEW c \in Tasks, CancelCheck(c) PROVE ReporterMoves
  <2>1. CASE /\ task[c] = "operation" /\ Idle(c)
             /\ Observe(c, IF expired THEN "timeout" ELSE "cancelled")
             /\ Close(c, "cancelled")
    BY <1>7, <1>9, <2>1 DEF CancelCheck, Outcomes, Row
  <2>2. CASE Abandon(c) /\ UNCHANGED obs
    <3>1. c \in toCancel /\ expired' = expired /\ raising' = raising
      BY <1>9 DEF CancelCheck
    <3>2. expired \/ raising
      BY <3>1 DEF AnalysisInv, TaskInv, TaskInvOf, PhaseInv
    <3>q. QED
      BY <1>9, <2>2, <3>1, <3>2, CoroutineNames DEF CancelCheck, ReporterMoves, Abandons
  <2>q. QED
    BY <1>9, <2>1, <2>2 DEF CancelCheck
<1>10. CASE DeadlinePasses \/ UNCHANGED vars
  BY <1>10 DEF DeadlinePasses, vars, ReporterMoves, Silent
<1>q. QED
  BY <1>4, <1>5, <1>6, <1>8, <1>9, <1>10 DEF Next, CheckStep, ReporterMoves

\* Where a coroutine is with its reports.
LEMMA OwnStep ==
    ASSUME TypeOK, AnalysisInv, AnalysisInv', NoReportsInv, OwnInv, [Next]_vars
    PROVE  OwnInv'
<1> USE CoroutineNames DEF mainVars, taskVars
<1>1. ASSUME NEW a \in Coroutines, NEW check \in AllChecks, NEW status \in RowStates,
             Report(a, check, status)
      PROVE  /\ rep'[a] = rep[a] \/ rep'[a].check = check
             /\ ~reporting => rep' = rep
             /\ \A b \in Coroutines \ {a} : rep'[b] = rep[b]
  <2>1. rep \in [Coroutines -> Reports \cup {NoReport}]
    BY DEF TypeOK
  <2>q. QED
    BY <1>1, <2>1 DEF Report, NoReports, reportVars, Publish
<1>2. ASSUME NEW check \in AllChecks, NEW status \in RowStates, Report("main", check, status),
             check = "geoip" \/ obs'[check] # "none", rep["main"] = NoReport, task' = task,
             pc' \notin {"resolve", "context", "bootstrap", "geoip", "completed"}
      PROVE  OwnInv'
  BY <1>1, <1>2 DEF OwnInv
<1>3. ASSUME NEW c \in Tasks, NEW status \in RowStates, Report(c, c, status), pc' = pc,
             task'[c] \in {"operation", "closing"} \/ (~reporting /\ rep[c] = NoReport),
             \A d \in Tasks \ {c} : task'[d] = task[d]
      PROVE  OwnInv'
  <2>1. rep'["main"] = rep["main"] /\ \A d \in Tasks \ {c} : rep'[d] = rep[d]
    BY <1>1, <1>3
  <2>2. obs'[rep["main"].check] = obs[rep["main"].check] \/ rep["main"] = NoReport
        \/ rep["main"].check = "geoip"
    BY ObservedStep DEF OwnInv, TypeOK, Reports
  <2>3. rep'[c] # NoReport => rep'[c].check = c /\ task'[c] \in {"operation", "closing"}
    BY <1>1, <1>3 DEF OwnInv
  <2>q. QED
    BY <1>3, <2>1, <2>2, <2>3 DEF OwnInv
<1>4. ASSUME rep' = rep, task' = task, pc' = pc, obs' = obs PROVE OwnInv'
  BY <1>4 DEF OwnInv
<1>5. ASSUME rep' = rep, obs' = obs, \A c \in Tasks : task'[c] = task[c] \/ task[c] = "none",
             pc' \in {"resolve", "context", "bootstrap", "geoip", "completed"}
                 => rep["main"] = NoReport
      PROVE  OwnInv'
  BY <1>5 DEF OwnInv
<1>6. CASE MainStep
  <2>1. CASE Resolve \/ Reap \/ WaitEnds \/ Finish \/ Merge
    BY <1>5, <2>1 DEF Resolve, Reap, WaitEnds, Finish, Merge, Goto, reportVars, Idle, Waits, OwnInv, Ends
  <2>2. ASSUME NEW kind \in {"failed", "timeout"}, RDAPContextFails(kind), task' = task,
               rep["main"] = NoReport
        PROVE  OwnInv'
    <3>1. obs'["rdap"] # "none" /\ pc' = "collect" /\ "failed" \in RowStates
      BY <2>2 DEF RDAPContextFails, Observe, Goto, TypeOK, RowStates
    <3>q. QED
      BY <1>2, <2>2, <3>1 DEF RDAPContextFails
  <2>3. CASE LoadRDAPContext \/ Bootstrap
    <3>1. rep["main"] = NoReport
      BY <2>3 DEF LoadRDAPContext, Bootstrap, OwnInv
    <3>q. QED
      BY <1>5, <2>2, <2>3, <3>1 DEF LoadRDAPContext, Bootstrap, reportVars
  <2>4. CASE Collect
    <3>1. \A c \in Tasks : task[c] = "none"
      BY <2>4 DEF Collect, AnalysisInv, StartInv
    <3>q. QED
      BY <1>5, <2>4, <3>1 DEF Collect, Goto, reportVars
  <2>5. ASSUME NEW c \in Tasks, RecordUnstarted(c) PROVE OwnInv'
    <3>1. obs'[c] # "none" /\ "failed" \in RowStates /\ rep["main"] = NoReport
          /\ pc' = "unstarted" /\ task' = task
      BY <2>5 DEF RecordUnstarted, Observe, TypeOK, RowStates, Idle, Waits
    <3>q. QED
      BY <1>2, <2>5, <3>1 DEF RecordUnstarted
  <2>6. ASSUME NEW outcome \in Outcomes, GeoIPObserved(outcome), rep["main"] = NoReport, task' = task
        PROVE  OwnInv'
    <3>1. Row(outcome) \in RowStates
      BY DEF Row, RowStates
    <3>q. QED
      BY <1>2, <2>6, <3>1 DEF GeoIPObserved, Goto
  <2>7. CASE GeoIP
    <3>1. rep["main"] = NoReport /\ "running" \in RowStates /\ task' = task
      BY <2>7 DEF GeoIP, OwnInv, RowStates
    <3>q. QED
      BY <1>2, <2>6, <2>7, <3>1 DEF GeoIP, Goto, Outcomes
  <2>8. CASE GeoIPLookup
    BY <2>6, <2>8 DEF GeoIPLookup, Idle, Waits, Outcomes
  <2>q. QED
    BY <1>6, <2>1, <2>3, <2>4, <2>5, <2>7, <2>8 DEF MainStep
<1>7. CASE CancelAnalysis
  <2>1. CASE CancelAway
    BY <1>7, <2>1 DEF CancelAnalysis, CancelAway, Abandon, Goto, OwnInv, TypeOK
  <2>2. CASE CancelWait
    BY <1>5, <1>7, <2>2 DEF CancelAnalysis, CancelWait, Goto, reportVars
  <2>3. CASE CancelLookup
    <3>1. "cancelled" \in Outcomes /\ Row("cancelled") \in RowStates
      BY DEF Row, RowStates, Outcomes
    <3>q. QED
      BY <1>2, <1>7, <2>3, <3>1
      DEF CancelAnalysis, CancelLookup, GeoIPObserved, Goto, Idle, Waits
  <2>q. QED
    BY <1>7, <2>1, <2>2, <2>3 DEF CancelAnalysis
<1>8. ASSUME NEW c \in Tasks, StartCheck(c) PROVE OwnInv'
  <2>1. "running" \in RowStates /\ task'[c] = "operation" /\ \A d \in Tasks \ {c} : task'[d] = task[d]
    BY <1>8 DEF StartCheck, RowStates, TypeOK
  <2>q. QED
    BY <1>3, <1>8, <2>1 DEF StartCheck
<1>9. ASSUME NEW c \in Tasks, NEW outcome \in Outcomes, Close(c, outcome), Idle(c), pc' = pc
      PROVE  OwnInv'
  <2>1. /\ Row(outcome) \in RowStates /\ rep[c] = NoReport
        /\ task'[c] \in {"closing", "operation"} \/ ~reporting
        /\ \A d \in Tasks \ {c} : task'[d] = task[d]
    BY <1>9 DEF Close, Row, RowStates, TypeOK, Idle, Waits
  <2>q. QED
    BY <1>3, <1>9, <2>1 DEF Close
<1>10. ASSUME NEW c \in Tasks, EndCheck(c) PROVE OwnInv'
  BY <1>9, <1>10 DEF EndCheck, Outcomes
<1>11. ASSUME NEW c \in Tasks, CancelCheck(c) PROVE OwnInv'
  <2>1. CASE Idle(c) /\ Close(c, "cancelled")
    BY <1>9, <1>11, <2>1 DEF CancelCheck, Outcomes
  <2>2. CASE Abandon(c) /\ UNCHANGED obs /\ task' = [task EXCEPT ![c] = "done"]
    BY <1>11, <2>2 DEF CancelCheck, Abandon, OwnInv, TypeOK
  <2>q. QED
    BY <1>11, <2>1, <2>2 DEF CancelCheck
<1>12. ASSUME NEW a \in Coroutines, ReportStep(a) PROVE OwnInv'
  <2>1. CASE TakeLock(a)
    <3>1. /\ rep[a] # NoReport /\ rep'[a].check = rep[a].check
          /\ \A b \in Coroutines \ {a} : rep'[b] = rep[b]
      BY <2>1 DEF TakeLock, Publish, TypeOK, NoReport
    <3>q. QED
      BY <2>1, <3>1 DEF TakeLock, OwnInv
  <2>2. CASE Land(a)
    BY <1>4, <2>2 DEF Land
  <2>3. CASE Reported(a)
    <3>1. rep'[a] = NoReport /\ \A b \in Coroutines \ {a} : rep'[b] = rep[b]
      BY <2>3 DEF Reported, Abandon, TypeOK
    <3>2. \A c \in Tasks : task'[c] = task[c] \/ c = a
      BY <2>3 DEF Reported
    <3>q. QED
      BY <2>3, <3>1, <3>2 DEF Reported, OwnInv
  <2>q. QED
    BY <1>12, <2>1, <2>2, <2>3 DEF ReportStep
<1>13. CASE DeadlinePasses \/ UNCHANGED vars
  BY <1>4, <1>13 DEF DeadlinePasses, vars, reportVars
<1>q. QED
  BY <1>6, <1>7, <1>8, <1>10, <1>11, <1>12, <1>13 DEF Next, CheckStep

\* What the publication of a row changes.
LEMMA Publishing ==
    ASSUME TypeOK, NEW a \in Coroutines, NEW check \in AllChecks, NEW status \in RowStates,
           Publish(a, check, status)
    PROVE  /\ rows' \in Progress /\ rows'[check] = status
           /\ \A c \in AllChecks \ {check} : rows'[c] = rows[c]
           /\ writing'[a] = rows' /\ \A b \in Coroutines \ {a} : writing'[b] = writing[b]
           /\ rep'[a] = [check |-> check, status |-> status, stage |-> "publish"]
           /\ \A b \in Coroutines \ {a} : rep'[b] = rep[b]
BY DEF Publish, TypeOK, Progress

\* What a report does: nothing without a callback; else it waits or publishes.
LEMMA Reporting ==
    ASSUME TypeOK, NEW a \in Coroutines, NEW check \in AllChecks, NEW status \in RowStates,
           Report(a, check, status)
    PROVE  \/ ~reporting /\ UNCHANGED reportVars
           \/ reporting /\ LockFree /\ Publish(a, check, status)
           \/ /\ reporting /\ UNCHANGED <<rows, writing>>
              /\ rep'[a] = [check |-> check, status |-> status, stage |-> "lock"]
              /\ \A b \in Coroutines \ {a} : rep'[b] = rep[b]
BY DEF Report, NoReports, CanLock, TypeOK

LEMMA Statuses ==
    /\ "running" \in RowStates
    /\ \A outcome \in Outcomes : Row(outcome) \in {"successful", "failed"} /\ Row(outcome) \in RowStates
    /\ \A a \in Coroutines : TypeOK /\ rep[a] # NoReport =>
          rep[a].check \in AllChecks /\ rep[a].status \in RowStates
    /\ NoReport.stage = "none" /\ NoReport.status = "none"
BY DEF RowStates, Outcomes, Row, TypeOK, Reports, NoReport

LEMMA HonestStep ==
    ASSUME TypeOK, HonestInv, ReporterMoves,
           \A c \in AllChecks : obs[c] # "none" => obs'[c] = obs[c]
    PROVE  HonestInv'
<1>1. TypeOK => rows \in Progress /\ published \in Progress
  BY DEF TypeOK
\* A true status may be published.
<1>2. ASSUME NEW a \in Coroutines, NEW check \in AllChecks, NEW status \in RowStates,
             Publish(a, check, status), status # "queued", UNCHANGED published,
             status = "successful" => obs'[check] = "successful",
             status = "failed" => obs'[check] # "none"
      PROVE  HonestInv'
  <2>0. /\ rows'[check] = status /\ \A c \in AllChecks \ {check} : rows'[c] = rows[c]
        /\ writing'[a] = rows' /\ \A b \in Coroutines \ {a} : writing'[b] = writing[b]
        /\ rep'[a].check = check /\ rep'[a].status = status
        /\ \A b \in Coroutines \ {a} : rep'[b] = rep[b]
    BY <1>2, Publishing DEF TypeOK, Publish
  <2>1. Honest(rows)'
    BY <1>2, <2>0 DEF HonestInv, Honest
  <2>2. \A b \in Coroutines : writing'[b] # NoWrite => Honest(writing[b])'
    BY <1>2, <2>0, <2>1 DEF HonestInv, Honest
  <2>3. \A c \in AllChecks : obs'[c] = "none" => rows'[c] \in {"queued", "running"}
    BY <1>2, <2>0 DEF HonestInv, RowStates
  <2>4. \A b \in Coroutines : rep'[b] # NoReport =>
          /\ rep'[b].status = "successful" => obs'[rep'[b].check] = "successful"
          /\ rep'[b].status = "failed" => obs'[rep'[b].check] # "none"
          /\ rep'[b].status # "queued"
    BY <1>2, <2>0, Statuses DEF HonestInv
  <2>q. QED
    BY <1>2, <2>1, <2>2, <2>3, <2>4 DEF HonestInv, Honest
<1>3. ASSUME UNCHANGED <<rows, published>>,
             \A b \in Coroutines : writing'[b] = writing[b] \/ writing'[b] = NoWrite,
             \A b \in Coroutines : rep'[b] # NoReport =>
                \/ rep'[b] = rep[b]
                \/ /\ rep'[b].status = "successful" => obs'[rep'[b].check] = "successful"
                   /\ rep'[b].status = "failed" => obs'[rep'[b].check] # "none"
                   /\ rep'[b].status # "queued"
      PROVE  HonestInv'
  <2>1. \A b \in Coroutines : rep'[b] # NoReport =>
          /\ rep'[b].status = "successful" => obs'[rep'[b].check] = "successful"
          /\ rep'[b].status = "failed" => obs'[rep'[b].check] # "none"
          /\ rep'[b].status # "queued"
    BY <1>3, Statuses DEF HonestInv
  <2>2. \A b \in Coroutines : writing'[b] # NoWrite => Honest(writing[b])'
    BY <1>3 DEF HonestInv, Honest
  <2>q. QED
    BY <1>3, <2>1, <2>2 DEF HonestInv, Honest
<1>4. ASSUME NEW a \in Coroutines, NEW check \in AllChecks, NEW status \in RowStates,
             Report(a, check, status), status # "queued", UNCHANGED published,
             status = "successful" => obs'[check] = "successful",
             status = "failed" => obs'[check] # "none"
      PROVE  HonestInv'
  <2>1. CASE UNCHANGED reportVars
    BY <1>3, <1>4, <2>1 DEF reportVars
  <2>2. CASE /\ rep'[a] = [check |-> check, status |-> status, stage |-> "lock"]
             /\ UNCHANGED <<rows, writing>>
             /\ \A b \in Coroutines \ {a} : rep'[b] = rep[b]
    BY <1>3, <1>4, <2>2
  <2>q. QED
    BY <1>2, <1>4, <2>1, <2>2, Reporting
<1>5. ASSUME NEW a \in Coroutines, NEW check \in AllChecks, Starts(a, check) PROVE HonestInv'
  BY <1>4, <1>5, Statuses DEF Starts
<1>6. ASSUME NEW a \in Coroutines, NEW check \in AllChecks, NEW outcome \in Outcomes,
             Observes(a, check, outcome)
      PROVE  HonestInv'
  <2>1. obs'[check] = outcome
    BY <1>6 DEF Observes, Observe, TypeOK
  <2>q. QED
    BY <1>4, <1>6, <2>1, Statuses DEF Observes, Row, Outcomes
<1>7. ASSUME NEW a \in Coroutines, Abandon(a), UNCHANGED published PROVE HonestInv'
  <2>1. rep'[a] = NoReport /\ \A b \in Coroutines \ {a} : rep'[b] = rep[b]
    BY <1>7 DEF Abandon, TypeOK
  <2>q. QED
    BY <1>3, <1>7, <2>1 DEF Abandon
<1>8. ASSUME NEW a \in Coroutines, TakeLock(a) PROVE HonestInv'
  <2>1. rep[a] # NoReport /\ UNCHANGED <<published, obs>> /\ Publish(a, rep[a].check, rep[a].status)
    BY <1>8, Statuses DEF TakeLock
  <2>q. QED
    BY <1>2, <2>1, Statuses DEF HonestInv
<1>9. ASSUME NEW a \in Coroutines, Land(a) PROVE HonestInv'
  <2>1. /\ UNCHANGED <<obs, rep, rows>> /\ Honest(published)'
        /\ \A b \in Coroutines : writing'[b] = writing[b] \/ writing'[b] = NoWrite
    BY <1>9 DEF Land, HonestInv, Honest, TypeOK
  <2>2. \A b \in Coroutines : writing'[b] # NoWrite => Honest(writing[b])'
    BY <2>1 DEF HonestInv, Honest
  <2>q. QED
    BY <2>1, <2>2 DEF HonestInv, Honest
<1>10. CASE Silent
  BY <1>3, <1>10 DEF Silent, reportVars
<1>q. QED
  BY <1>5, <1>6, <1>7, <1>8, <1>9, <1>10 DEF ReporterMoves, Abandons, ReportStep, Reported

LEMMA Ranks ==
    /\ Rank("queued") = 0 /\ Rank("running") = 1
    /\ Rank("successful") = 2 /\ Rank("failed") = 2
    /\ \A status \in RowStates : Rank(status) \in 0..2
<1>1. Rank("queued") = 0
  BY Zenon DEF Rank
<1>2. Rank("running") = 1
  BY Zenon DEF Rank
<1>3. Rank("successful") = 2 /\ Rank("failed") = 2
  BY DEF Rank
<1>q. QED
  BY <1>1, <1>2, <1>3 DEF RowStates

LEMMA CalmStays ==
    ASSUME TypeOK, AnalysisInv, [Next]_vars, ~expired', ~raising'
    PROVE  ~expired /\ ~raising
<1> USE DEF mainVars
<1>1. CASE MainStep
  BY <1>1 DEF MainStep, Resolve, LoadRDAPContext, Bootstrap, Collect, WaitEnds, Reap,
     RecordUnstarted, Merge, GeoIP, GeoIPLookup, Finish, AnalysisInv, PhaseInv
<1>2. CASE DeadlinePasses \/ UNCHANGED vars
  BY <1>2 DEF DeadlinePasses, vars
<1>3. ASSUME NEW c \in Tasks, CheckStep(c) PROVE ~expired /\ ~raising
  BY <1>3 DEF CheckStep, StartCheck, EndCheck, CancelCheck
<1>4. ASSUME NEW a \in Coroutines, ReportStep(a) PROVE ~expired /\ ~raising
  BY <1>4 DEF ReportStep, TakeLock, Land, Reported
<1>q. QED
  BY <1>1, <1>2, <1>3, <1>4 DEF Next, CancelAnalysis

\* No step but one that cancels disturbs the order of the reports.
LEMMA CalmStep ==
    ASSUME TypeOK, HonestInv, CalmInv, ReporterMoves, reporting' = reporting,
           ~expired' /\ ~raising' => ~expired /\ ~raising,
           \A c \in AllChecks : obs[c] # "none" => obs'[c] = obs[c]
    PROVE  CalmInv'
<1> SUFFICES ASSUME ~expired', ~raising', Current, Shown, Writers, Behind
             PROVE  (Current /\ Shown /\ Writers /\ Behind)'
  BY DEF CalmInv
<1>0. /\ rep \in [Coroutines -> Reports \cup {NoReport}] /\ rows \in Progress /\ published \in Progress
      /\ writing \in [Coroutines -> Progress \cup {NoWrite}]
  BY DEF TypeOK
\* A report that is made now and published, or published when it gets the lock.
<1>1. ASSUME NEW a \in Coroutines, NEW check \in AllChecks, NEW status \in RowStates,
             LockFree, Publish(a, check, status), UNCHANGED published, status # "queued",
             rep[a] # NoReport => rep[a].check = check,
             obs'[check] # "none" => status = Row(obs'[check]),
             status = "running" => rows[check] \in {"queued", "running"},
             \A c \in AllChecks \ {check} : obs'[c] = obs[c],
             \A b \in Coroutines \ {a} :
                rep[b] # NoReport => obs'[rep[b].check] = obs[rep[b].check]
      PROVE  (Current /\ Shown /\ Writers /\ Behind)'
  <2>1. /\ rows'[check] = status /\ \A c \in AllChecks \ {check} : rows'[c] = rows[c]
        /\ writing'[a] = rows' /\ \A b \in Coroutines \ {a} : writing'[b] = writing[b]
        /\ rep'[a] = [check |-> check, status |-> status, stage |-> "publish"]
        /\ \A b \in Coroutines \ {a} : rep'[b] = rep[b]
    BY <1>1, Publishing
  <2>2. Current'
    BY <1>1, <2>1 DEF Current
  <2>3. ASSUME reporting, NEW c \in AllChecks, obs'[c] # "none"
        PROVE  \/ rows'[c] = Row(obs'[c])
               \/ \E b \in Coroutines : rep'[b].stage = "lock" /\ rep'[b].check = c
    <3>1. CASE c = check
      BY <1>1, <2>1, <2>3, <3>1
    <3>2. CASE c # check
      <4>1. CASE rows[c] = Row(obs[c])
        BY <1>1, <2>1, <3>2, <4>1
      <4>2. CASE rows[c] # Row(obs[c])
        <5>1. PICK b \in Coroutines : rep[b].stage = "lock" /\ rep[b].check = c
          BY <1>1, <2>3, <3>2, <4>2 DEF Shown
        <5>2. b # a
          BY <1>1, <3>2, <5>1, Statuses
        <5>q. QED
          BY <2>1, <5>1, <5>2
      <4>q. QED
        BY <4>1, <4>2
    <3>q. QED
      BY <3>1, <3>2
  <2>4. Shown'
    BY <2>3 DEF Shown
  <2>5. Writers'
    BY <1>1, <2>1 DEF Writers, LockFree
  <2>6. Behind'
    <3>1. Rank(rows[check]) <= Rank(status)
      BY <1>0, <1>1, Ranks DEF Progress, RowStates
    <3>2. Rank(published[check]) \in 0..2 /\ Rank(rows[check]) \in 0..2 /\ Rank(status) \in 0..2
      BY <1>0, Ranks DEF Progress
    <3>3. Rank(published[check]) <= Rank(status)
      BY <3>1, <3>2 DEF Behind
    <3>q. QED
      BY <1>1, <2>1, <3>3 DEF Behind
  <2>q. QED
    BY <2>2, <2>4, <2>5, <2>6
<1>2. ASSUME NEW a \in Coroutines, NEW check \in AllChecks, NEW status \in RowStates,
             Report(a, check, status), UNCHANGED published, status # "queued",
             rep[a] = NoReport,
             obs'[check] # "none" => status = Row(obs'[check]),
             status = "running" => rows[check] \in {"queued", "running"},
             \A c \in AllChecks \ {check} : obs'[c] = obs[c],
             \A b \in Coroutines \ {a} :
                rep[b] # NoReport => obs'[rep[b].check] = obs[rep[b].check]
      PROVE  (Current /\ Shown /\ Writers /\ Behind)'
  <2>1. CASE ~reporting
    <3>1. UNCHANGED reportVars
      BY <1>2, <2>1 DEF Report, NoReports
    <3>2. Current'
      BY <1>2, <3>1 DEF Current, reportVars
    <3>q. QED
      BY <1>2, <2>1, <3>1, <3>2 DEF Shown, Writers, Behind, reportVars
  <2>2. CASE CanLock /\ Publish(a, check, status)
    BY <1>1, <1>2, <2>2 DEF CanLock
  <2>3. CASE reporting /\ ~(CanLock /\ Publish(a, check, status))
    <3>1. /\ rep' = [rep EXCEPT ![a] = [check |-> check, status |-> status, stage |-> "lock"]]
          /\ UNCHANGED <<rows, writing>>
      BY <1>2, <2>3 DEF Report
    <3>2. /\ rep'[a] = [check |-> check, status |-> status, stage |-> "lock"]
          /\ \A b \in Coroutines \ {a} : rep'[b] = rep[b]
      BY <1>0, <3>1
    <3>3. Current'
      BY <1>2, <3>2 DEF Current
    <3>4. Shown'
      <4> SUFFICES ASSUME NEW c \in AllChecks, obs'[c] # "none", rows'[c] # Row(obs'[c])
                   PROVE  \E b \in Coroutines : rep'[b].stage = "lock" /\ rep'[b].check = c
        BY DEF Shown
      <4>1. CASE c = check
        BY <3>2, <4>1
      <4>2. CASE c # check
        <5>1. PICK b \in Coroutines : rep[b].stage = "lock" /\ rep[b].check = c
          BY <1>2, <2>3, <3>1, <4>2 DEF Shown
        <5>2. b # a
          BY <1>2, <5>1, Statuses
        <5>q. QED
          BY <3>2, <5>1, <5>2
      <4>q. QED
        BY <4>1, <4>2
    <3>5. Writers'
      BY <1>2, <3>1, <3>2, Statuses DEF Writers
    <3>q. QED
      BY <1>2, <3>1, <3>3, <3>4, <3>5 DEF Behind
  <2>q. QED
    BY <2>1, <2>2, <2>3
<1>3. ASSUME NEW a \in Coroutines, NEW check \in AllChecks, Starts(a, check)
      PROVE  (Current /\ Shown /\ Writers /\ Behind)'
  BY <1>2, <1>3, Statuses DEF Starts, HonestInv
<1>4. ASSUME NEW a \in Coroutines, NEW check \in AllChecks, NEW outcome \in Outcomes,
             Observes(a, check, outcome)
      PROVE  (Current /\ Shown /\ Writers /\ Behind)'
  <2>1. obs'[check] = outcome /\ \A c \in AllChecks \ {check} : obs'[c] = obs[c]
    BY <1>4 DEF Observes, Observe, TypeOK
  <2>2. \A b \in Coroutines : rep[b] # NoReport => obs'[rep[b].check] = obs[rep[b].check]
    BY <1>4, <2>1, Statuses DEF Observes
  <2>3. Row(outcome) \in {"successful", "failed"} /\ Row(outcome) \in RowStates
    BY Statuses
  <2>q. QED
    BY <1>2, <1>4, <2>1, <2>2, <2>3 DEF Observes
<1>5. ASSUME NEW a \in Coroutines, TakeLock(a)
      PROVE  (Current /\ Shown /\ Writers /\ Behind)'
  <2>1. rep[a] # NoReport /\ UNCHANGED <<published, obs>> /\ LockFree
        /\ Publish(a, rep[a].check, rep[a].status)
    BY <1>5, Statuses DEF TakeLock
  <2>2. rep[a].check \in AllChecks /\ rep[a].status \in RowStates /\ rep[a].status # "queued"
    BY <2>1, Statuses DEF HonestInv
  <2>3. obs[rep[a].check] # "none" => rep[a].status = Row(obs[rep[a].check])
    BY <2>1 DEF Current
  <2>4. rep[a].status = "running" => rows[rep[a].check] \in {"queued", "running"}
    BY <2>2, <2>3 DEF HonestInv, Row
  <2>q. QED
    BY <1>1, <2>1, <2>2, <2>3, <2>4
<1>6. ASSUME NEW a \in Coroutines, Land(a)
      PROVE  (Current /\ Shown /\ Writers /\ Behind)'
  <2>1. UNCHANGED <<obs, rep, rows>>
    BY <1>6 DEF Land
  <2>2. writing'[a] = NoWrite /\ \A b \in Coroutines \ {a} : writing'[b] = writing[b]
    BY <1>0, <1>6 DEF Land
  <2>3. published' = published \/ published' = rows
    BY <1>6 DEF Land, Writers
  <2>4. \A c \in AllChecks : Rank(rows[c]) <= Rank(rows[c])
    BY <1>0, Ranks DEF Progress
  <2>q. QED
    BY <2>1, <2>2, <2>3, <2>4 DEF Current, Shown, Writers, Behind
<1>7. ASSUME NEW a \in Coroutines, Reported(a)
      PROVE  (Current /\ Shown /\ Writers /\ Behind)'
  <2>1. /\ UNCHANGED <<obs, rows, writing, published>>
        /\ rep[a].stage = "publish" /\ writing[a] = NoWrite /\ rep'[a] = NoReport
        /\ \A b \in Coroutines \ {a} : rep'[b] = rep[b]
    BY <1>0, <1>7 DEF Reported, Abandon
  <2>q. QED
    BY <2>1 DEF Current, Shown, Writers, Behind
<1>8. CASE Silent
  BY <1>8 DEF Silent, reportVars, Current, Shown, Writers, Behind
<1>q. QED
  BY <1>3, <1>4, <1>5, <1>6, <1>7, <1>8 DEF ReporterMoves, Abandons, ReportStep

LEMMA ReporterHolds == Spec => [](OwnInv /\ HonestInv /\ CalmInv)
<1>1. Init => OwnInv /\ HonestInv /\ CalmInv
  <2> SUFFICES ASSUME Init PROVE OwnInv /\ HonestInv /\ CalmInv
    OBVIOUS
  <2>1. /\ \A a \in Coroutines : rep[a] = NoReport /\ writing[a] = NoWrite
        /\ \A c \in AllChecks : obs[c] = "none" /\ rows[c] = "queued" /\ published[c] = "queued"
    BY DEF Init
  <2>2. OwnInv
    BY <2>1, CoroutineNames DEF OwnInv
  <2>3. HonestInv
    BY <2>1, Statuses DEF HonestInv, Honest
  <2>4. CalmInv
    BY <2>1, Ranks DEF CalmInv, Current, Shown, Writers, Behind
  <2>q. QED
    BY <2>2, <2>3, <2>4
<1>2. /\ TypeOK /\ AnalysisInv /\ (TypeOK /\ AnalysisInv)' /\ NoReportsInv
      /\ (OwnInv /\ HonestInv /\ CalmInv) /\ [Next]_vars
      => (OwnInv /\ HonestInv /\ CalmInv)'
  <2> SUFFICES ASSUME TypeOK, AnalysisInv, AnalysisInv', NoReportsInv, OwnInv, HonestInv,
                      CalmInv, [Next]_vars
               PROVE  (OwnInv /\ HonestInv /\ CalmInv)'
    OBVIOUS
  <2>1. ReporterMoves
    BY MovesOfStep
  <2>2. \A c \in AllChecks : obs[c] # "none" => obs'[c] = obs[c]
    BY ObservedStep
  <2>3. OwnInv' /\ HonestInv'
    BY <2>1, <2>2, OwnStep, HonestStep
  <2>4. CalmInv'
    BY <2>1, <2>2, CalmStays, CalmStep, CallbackIsFixed
  <2>q. QED
    BY <2>3, <2>4
<1>q. QED
  BY <1>1, <1>2, ErrorsHold, TypeCorrect, PTL DEF Spec

\* ProgressHonest (TaskProgressReporter of tasks/domain.py): whatever order threads and
\* cancellations come in, no check is published as successful that has not succeeded.
THEOREM ProgressIsHonest == Spec => []ProgressHonest
<1>1. HonestInv => ProgressHonest
  BY DEF HonestInv, Honest, ProgressHonest
<1>q. QED
  BY <1>1, ReporterHolds, PTL

\* FinalProgress: the progress stored with a result that no deadline cut short says of
\* each check what its metadata says.
THEOREM FinalProgressIsRight == Spec => []FinalProgress
<1>1. TypeOK /\ AnalysisInv /\ OwnInv /\ CalmInv => FinalProgress
  <2> SUFFICES ASSUME TypeOK, AnalysisInv, OwnInv, CalmInv, pc = "completed", reporting, ~expired,
                      NEW c \in AllChecks
               PROVE  rows[c] = Row(obs[c])
    BY DEF FinalProgress
  <2>1. ~raising /\ obs[c] # "none"
    BY CoroutineNames DEF AnalysisInv, PhaseInv
  <2>2. \A a \in Coroutines : rep[a] = NoReport
    BY CoroutineNames DEF OwnInv, AnalysisInv, TaskInv, TaskInvOf
  <2>q. QED
    BY <2>1, <2>2, Statuses DEF CalmInv, Shown
<1>q. QED
  BY <1>1, ReporterHolds, TypeCorrect, PTL

\* PublishedMonotone: while nothing is cancelled, what a client is shown of a check
\* never goes back, although every publication writes all rows.
THEOREM PublicationsAdvance == Spec => PublishedMonotone
<1>1. TypeOK /\ AnalysisInv /\ CalmInv /\ [Next]_vars =>
        [(~expired /\ ~raising)' =>
           \A c \in AllChecks : Rank(published[c]) <= Rank(published'[c])]_vars
  <2> SUFFICES ASSUME TypeOK, AnalysisInv, CalmInv, [Next]_vars, ~expired', ~raising',
                      NEW c \in AllChecks
               PROVE  Rank(published[c]) <= Rank(published'[c])
    OBVIOUS
  <2>1. Writers /\ Behind
    BY CalmStays DEF CalmInv
  <2>2. published' = published \/ published' = rows
    <3> USE DEF mainVars, taskVars
    <3>1. CASE MainStep
      BY <3>1 DEF MainStep, Resolve, LoadRDAPContext, Bootstrap, Collect, WaitEnds, Reap,
         RecordUnstarted, Merge, GeoIP, GeoIPLookup, Finish
    <3>2. CASE CancelAnalysis \/ DeadlinePasses \/ UNCHANGED vars
      BY <3>2 DEF CancelAnalysis, DeadlinePasses, vars
    <3>3. ASSUME NEW d \in Tasks, CheckStep(d) PROVE published' = published
      BY <3>3 DEF CheckStep, StartCheck, EndCheck, CancelCheck
    <3>4. ASSUME NEW a \in Coroutines, ReportStep(a)
          PROVE  published' = published \/ published' = rows
      BY <2>1, <3>4 DEF ReportStep, TakeLock, Land, Reported, Writers
    <3>q. QED
      BY <3>1, <3>2, <3>3, <3>4 DEF Next
  <2>3. Rank(published[c]) <= Rank(published[c])
    BY Ranks DEF TypeOK, Progress
  <2>q. QED
    BY <2>1, <2>2, <2>3 DEF Behind
<1>q. QED
  BY <1>1, ReporterHolds, TypeCorrect, PTL DEF Spec, PublishedMonotone
=============================================================================
