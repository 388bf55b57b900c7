---------------------------- MODULE FrontendAppProofs ----------------------------
(* The page for any number of starts and cancels: what it shows and what it    *)
(* asks of the server belong to the run the user is in.                        *)
EXTENDS FrontendApp, TLAPS

Views == [status : {"idle", "loading", "success", "error"}, of : 0..MaxToken]
Runs == [Tokens -> [pc : {"none", "creating", "polling", "waiting", "done"},
                    reply : {"none"} \cup Active \cup Terminal]]

\* How the refs, the runs and the history hang together: a token is used once, what
\* was left or aborted is not the current run, and jobIdRef is the job of the
\* current run from the moment it is known until the run is over.
RefsInv ==
    /\ controller <= runToken
    /\ view.status = "loading" => runToken # 0
    /\ \A r \in Tokens :
           /\ r > runToken => run[r].pc = "none"
           /\ r \in left => r < runToken
           /\ r \in aborted => r < runToken
           /\ InProgress(r) /\ r # runToken => r \in left
           /\ run[r].pc \in {"polling", "waiting"} => r \in known
           /\ run[r].pc \in {"none", "creating"} => r \notin known
           /\ r = jobId => r = runToken /\ InProgress(r) /\ r \in known
           /\ r = runToken /\ run[r].pc \in {"polling", "waiting"} => jobId = r

Inv == TypeOK /\ RefsInv /\ ViewOfCurrentRun /\ SpinnerHasRun /\ CancelsWhatWasLeft

LEMMA InitInv == Init => Inv
BY PageAssumption DEF Init, Inv, TypeOK, RefsInv, ViewOfCurrentRun, SpinnerHasRun,
   CancelsWhatWasLeft, Tokens, Idle, InProgress, Active, Terminal

\* The user starts a run: the one before is left.
LEMMA StartInv == ASSUME Inv, runAnalysis PROVE Inv'
<1> USE PageAssumption DEF Tokens, Active, Terminal
<1>1. /\ runToken' = runToken + 1 /\ runToken' \in Tokens /\ jobId' = 0 /\ controller' = runToken'
      /\ run'[runToken'].pc = "creating"
      /\ \A r \in Tokens \ {runToken'} : run'[r] = run[r]
      /\ known' = known
  BY DEF runAnalysis, Inv, TypeOK
<1>2. TypeOK'
  <2>1. view' = Shows("loading", runToken') /\ view' \in Views
    BY <1>1 DEF runAnalysis, Shows, Views, Inv, TypeOK
  <2>2. run' \in Runs
    <3>1. run' = [run EXCEPT ![runToken'].pc = "creating"] /\ run \in Runs
      BY DEF runAnalysis, Inv, TypeOK, Runs
    <3>q. QED
      BY <3>1, <1>1 DEF Runs
  <2>3. asked' \subseteq Tokens /\ left' \subseteq Tokens /\ aborted' \subseteq Tokens
    BY DEF runAnalysis, Abort, CancelRef, Leaves, Inv, TypeOK
  <2>4. job' = job /\ known' = known
    BY DEF runAnalysis
  <2>q. QED
    BY <1>1, <2>1, <2>2, <2>3, <2>4 DEF Inv, TypeOK, Views, Runs
<1>3. ASSUME NEW r \in Tokens
      PROVE  /\ r \in left' <=> r \in left \/ (r = runToken /\ InProgress(r))
             /\ r \in aborted' => r \in aborted \/ r = controller
             /\ r \in asked' <=> r \in asked \/ r = jobId
  BY <1>3 DEF runAnalysis, Abort, CancelRef, Leaves
<1>4. RefsInv'
  BY <1>1, <1>3 DEF Inv, TypeOK, RefsInv, InProgress
<1>5. ViewOfCurrentRun' /\ SpinnerHasRun'
  BY <1>1 DEF runAnalysis, Shows, ViewOfCurrentRun, SpinnerHasRun, InProgress
<1>6. CancelsWhatWasLeft'
  BY <1>1, <1>2, <1>3 DEF Inv, TypeOK, RefsInv, CancelsWhatWasLeft, InProgress
<1>q. QED
  BY <1>2, <1>4, <1>5, <1>6 DEF Inv

\* The user leaves the run.
LEMMA LeaveInv == ASSUME Inv, handleCancel PROVE Inv'
<1> USE PageAssumption DEF Tokens, Active, Terminal
<1>1. /\ runToken' = runToken + 1 /\ runToken' \in Tokens /\ jobId' = 0 /\ controller' = 0
      /\ run' = run /\ known' = known /\ view' = Idle
  BY DEF handleCancel, Inv, TypeOK
<1>2. TypeOK'
  <2>1. view' \in Views
    BY <1>1 DEF Idle, Views
  <2>2. asked' \subseteq Tokens /\ left' \subseteq Tokens /\ aborted' \subseteq Tokens
    <3>1. asked' \subseteq Tokens
      BY DEF handleCancel, CancelRef, Inv, TypeOK
    <3>2. left' \subseteq Tokens
      BY DEF handleCancel, Leaves, Inv, TypeOK
    <3>3. aborted' \subseteq Tokens
      BY DEF handleCancel, Abort, Inv, TypeOK
    <3>q. QED
      BY <3>1, <3>2, <3>3
  <2>3. job' = job
    BY DEF handleCancel
  <2>q. QED
    BY <1>1, <2>1, <2>2, <2>3 DEF Inv, TypeOK, Views
<1>3. ASSUME NEW r \in Tokens
      PROVE  /\ r \in left' <=> r \in left \/ (r = runToken /\ InProgress(r))
             /\ r \in aborted' => r \in aborted \/ r = controller
             /\ r \in asked' <=> r \in asked \/ r = jobId
  BY <1>3 DEF handleCancel, Abort, CancelRef, Leaves
<1>4. RefsInv'
  BY <1>1, <1>3 DEF Inv, TypeOK, RefsInv, InProgress
<1>5. ViewOfCurrentRun' /\ SpinnerHasRun'
  BY <1>1 DEF Idle, ViewOfCurrentRun, SpinnerHasRun
<1>6. CancelsWhatWasLeft'
  BY <1>1, <1>2, <1>3 DEF Inv, TypeOK, RefsInv, CancelsWhatWasLeft, InProgress
<1>q. QED
  BY <1>2, <1>4, <1>5, <1>6 DEF Inv

\* A run is over: nothing of it stays on the page but the end of the current run.
LEMMA EndInv ==
    ASSUME Inv, NEW r \in Tokens, InProgress(r), Finally(r),
           UNCHANGED <<runToken, aborted, job, left>>,
           runToken # r => view' = view,
           runToken = r => view' \in Views /\ view'.status # "loading",
           ViewOfCurrentRun',
           \/ known' = known /\ asked' = asked
           \/ known' = known \cup {r} /\ asked' = asked \cup {r} /\ runToken # r
    PROVE  Inv'
<1> USE DEF Tokens, Active, Terminal
<1>1. /\ run'[r].pc = "done" /\ \A q \in Tokens \ {r} : run'[q] = run[q]
      /\ run' \in Runs
  <2>1. run' = [run EXCEPT ![r].pc = "done", ![r].reply = "none"] /\ run \in Runs
    BY DEF Finally, Inv, TypeOK, Runs
  <2>q. QED
    BY <2>1 DEF Runs
<1>2. /\ controller' \in {0, controller}
      /\ runToken = r => jobId' = 0
      /\ runToken # r => jobId' = jobId
  BY DEF Finally
<1>3. TypeOK'
  <2>1. view' \in Views /\ controller' \in 0..MaxToken /\ jobId' \in 0..MaxToken
    BY <1>2, PageAssumption DEF Inv, TypeOK, Views
  <2>2. asked' \subseteq Tokens /\ known' \subseteq Tokens
    BY DEF Inv, TypeOK
  <2>q. QED
    BY <1>1, <2>1, <2>2 DEF Inv, TypeOK, Views, Runs
<1>4. RefsInv'
  BY <1>1, <1>2 DEF Inv, TypeOK, RefsInv, InProgress
<1>5. SpinnerHasRun'
  BY <1>1 DEF Inv, TypeOK, RefsInv, SpinnerHasRun, InProgress
<1>6. CancelsWhatWasLeft'
  BY DEF Inv, TypeOK, RefsInv, CancelsWhatWasLeft, InProgress
<1>q. QED
  BY <1>3, <1>4, <1>5, <1>6 DEF Inv

\* A run goes on, with its job known.
LEMMA GoOnInv ==
    ASSUME Inv, NEW r \in Tokens, InProgress(r), NEW pc \in {"polling", "waiting"},
           run' \in Runs, run'[r].pc = pc, \A q \in Tokens \ {r} : run'[q] = run[q],
           UNCHANGED <<runToken, controller, aborted, job, left, asked>>,
           runToken # r => view' = view /\ jobId' = jobId,
           runToken = r => view' \in {view, Shows("loading", r)} /\ jobId' = r,
           known' = known \cup {r},
           runToken = r \/ r \in known
    PROVE  Inv'
<1> USE DEF Tokens, Active, Terminal
<1>1. view' \in Views
  BY DEF Inv, TypeOK, Shows, Views
<1>2. TypeOK'
  BY <1>1 DEF Inv, TypeOK, Views, Runs
<1>3. RefsInv'
  BY DEF Inv, TypeOK, RefsInv, InProgress
<1>4. ViewOfCurrentRun' /\ SpinnerHasRun'
  BY DEF Inv, TypeOK, RefsInv, ViewOfCurrentRun, SpinnerHasRun, InProgress, Shows
<1>5. CancelsWhatWasLeft'
  BY DEF Inv, TypeOK, RefsInv, CancelsWhatWasLeft, InProgress
<1>q. QED
  BY <1>2, <1>3, <1>4, <1>5 DEF Inv

LEMMA ThrowsInv ==
    ASSUME Inv, NEW r \in Tokens, InProgress(r), NEW error \in {"Error", "AbortError"},
           error = "AbortError" => r \in aborted,
           Throws(r, error), UNCHANGED <<aborted, job, left>>
    PROVE  Inv'
<1>1. runToken = r => error = "Error"
  BY DEF Inv, TypeOK, RefsInv, Tokens
<1>2. /\ runToken # r => view' = view
      /\ runToken = r => view' = Shows("error", r)
  BY <1>1 DEF Throws
<1>3. runToken = r => view' \in Views /\ view'.status # "loading"
  BY <1>2 DEF Shows, Views, Tokens
<1>4. ViewOfCurrentRun'
  BY <1>2 DEF Throws, Inv, ViewOfCurrentRun, Shows
<1>q. QED
  BY <1>2, <1>3, <1>4, EndInv DEF Throws

\* A run goes on after one of its calls, or ends.
LEMMA RunInv == ASSUME Inv, NEW r \in Tokens, RunStep(r) PROVE Inv'
<1>0. UNCHANGED <<aborted, job, left>>
  BY DEF RunStep
<1>1. CASE Created(r)
  <2>1. InProgress(r) /\ run[r].pc = "creating" /\ runToken' = runToken /\ known' = known \cup {r}
    BY <1>1 DEF Created, InProgress
  <2>2. CASE runToken # r
    <3>1. Finally(r) /\ asked' = asked \cup {r} /\ view' = view
      BY <1>1, <2>2 DEF Created
    <3>2. ViewOfCurrentRun'
      BY <2>1, <3>1 DEF Inv, ViewOfCurrentRun
    <3>q. QED
      BY <1>0, <2>1, <2>2, <3>1, <3>2, EndInv
  <2>3. CASE runToken = r
    <3>1. /\ run' = [run EXCEPT ![r].pc = "polling", ![r].reply = "none"] /\ run \in Runs
          /\ jobId' = r /\ view' \in {view, Shows("loading", r)}
          /\ UNCHANGED <<controller, asked>>
      BY <1>1, <2>3 DEF Created, Inv, TypeOK, Runs
    <3>2. /\ run' \in Runs /\ run'[r].pc = "polling"
          /\ \A q \in Tokens \ {r} : run'[q] = run[q]
      BY <3>1 DEF Runs
    <3>q. QED
      BY <1>0, <2>1, <2>3, <3>1, <3>2, GoOnInv
  <2>q. QED
    BY <2>2, <2>3
<1>2. CASE CreateFails(r)
  <2>1. InProgress(r) /\ Throws(r, "Error")
    BY <1>2 DEF CreateFails, InProgress
  <2>q. QED
    BY <1>0, <2>1, ThrowsInv
<1>3. CASE Polled(r)
  <2>1. /\ InProgress(r) /\ run[r].pc = "polling" /\ r \in known
        /\ UNCHANGED <<runToken, asked, known>>
    BY <1>3 DEF Polled, InProgress, Inv, RefsInv
  <2>2. CASE run[r].reply \in Terminal
    <3>1. Finally(r) /\ Ends(r, run[r].reply)
      BY <1>3, <2>2 DEF Polled, Ends
    <3>2. /\ runToken # r => view' = view
          /\ runToken = r => view' \in {Shows("success", r), Shows("error", r), Idle}
      BY <2>2, <3>1 DEF Ends, Terminal
    <3>3. runToken = r => view' \in Views /\ view'.status # "loading"
      <4>1. r \in 0..MaxToken /\ 0 \in 0..MaxToken
        BY PageAssumption DEF Tokens
      <4>2. {Shows("success", r), Shows("error", r), Idle} \subseteq Views
        BY <4>1 DEF Shows, Idle, Views
      <4>q. QED
        BY <3>2, <4>2 DEF Shows, Idle
    <3>4. ViewOfCurrentRun'
      BY <2>1, <3>2 DEF Inv, ViewOfCurrentRun, Shows, Idle
    <3>q. QED
      BY <1>0, <2>1, <3>1, <3>2, <3>3, <3>4, EndInv
  <2>3. CASE run[r].reply \notin Terminal
    <3>1. /\ run' = [run EXCEPT ![r].pc = "waiting", ![r].reply = "none"] /\ run \in Runs
          /\ view' = IF runToken = r THEN Shows("loading", r) ELSE view
          /\ UNCHANGED <<controller, jobId>>
      BY <1>3, <2>3 DEF Polled, Inv, TypeOK, Runs
    <3>2. /\ run' \in Runs /\ run'[r].pc = "waiting"
          /\ \A q \in Tokens \ {r} : run'[q] = run[q]
      BY <3>1 DEF Runs
    <3>3. runToken = r => jobId' = r
      BY <2>1, <3>1 DEF Inv, RefsInv
    <3>4. known' = known \cup {r}
      BY <2>1
    <3>q. QED
      BY <1>0, <2>1, <3>1, <3>2, <3>3, <3>4, GoOnInv
  <2>q. QED
    BY <2>2, <2>3
<1>4. CASE PollFails(r)
  <2>1. InProgress(r)
    BY <1>4 DEF PollFails, InProgress
  <2>2. Throws(r, "Error") \/ (r \in aborted /\ Throws(r, "AbortError"))
    BY <1>4 DEF PollFails
  <2>q. QED
    BY <1>0, <2>1, <2>2, ThrowsInv
<1>5. CASE waitForNextPoll(r)
  <2>1. InProgress(r) /\ run[r].pc = "waiting" /\ r \in known
    BY <1>5 DEF waitForNextPoll, InProgress, Inv, RefsInv
  <2>2. CASE r \in aborted
    <3>1. Throws(r, "AbortError")
      BY <1>5, <2>2 DEF waitForNextPoll
    <3>q. QED
      BY <1>0, <2>1, <2>2, <3>1, ThrowsInv
  <2>3. CASE r \notin aborted
    <3>1. /\ run' = [run EXCEPT ![r].pc = "polling"] /\ run \in Runs
          /\ UNCHANGED <<runToken, controller, jobId, view, asked, known>>
      BY <1>5, <2>3 DEF waitForNextPoll, Inv, TypeOK, Runs
    <3>2. /\ run' \in Runs /\ run'[r].pc = "polling"
          /\ \A q \in Tokens \ {r} : run'[q] = run[q]
      BY <3>1 DEF Runs
    <3>3. runToken = r => jobId' = r
      BY <2>1, <3>1 DEF Inv, RefsInv
    <3>4. known' = known \cup {r}
      BY <2>1, <3>1
    <3>q. QED
      BY <1>0, <2>1, <3>1, <3>2, <3>3, <3>4, GoOnInv
  <2>q. QED
    BY <2>2, <2>3
<1>q. QED
  BY <1>1, <1>2, <1>3, <1>4, <1>5 DEF RunStep, Returns

LEMMA ServerInv ==
    ASSUME Inv, NEW r \in Tokens, Answers(r) \/ Works(r) \/ Cancels(r)
    PROVE  Inv'
<1> USE DEF Tokens, Active, Terminal
<1>1. CASE Answers(r)
  <2>1. /\ run' = [run EXCEPT ![r].reply = job'[r]] /\ run \in Runs
        /\ job' = [job EXCEPT ![r] = IF run[r].pc = "creating" THEN "queued" ELSE @]
        /\ job' \in [Tokens -> {"none"} \cup Active \cup Terminal]
        /\ UNCHANGED <<runToken, controller, jobId, view, aborted, asked, left, known>>
    BY <1>1 DEF Answers, Inv, TypeOK, Runs
  <2>2. run' \in Runs /\ \A q \in Tokens : run'[q].pc = run[q].pc
    BY <2>1 DEF Runs
  <2>3. TypeOK'
    BY <2>1, <2>2 DEF Inv, TypeOK, Runs
  <2>4. RefsInv' /\ ViewOfCurrentRun' /\ SpinnerHasRun' /\ CancelsWhatWasLeft'
    BY <2>1, <2>2 DEF Inv, TypeOK, RefsInv, ViewOfCurrentRun, SpinnerHasRun,
       CancelsWhatWasLeft, InProgress
  <2>q. QED
    BY <2>3, <2>4 DEF Inv
<1>2. CASE Works(r) \/ Cancels(r)
  <2>1. UNCHANGED <<runToken, controller, jobId, view, run, aborted, asked, left, known>>
    BY <1>2 DEF Works, Cancels, pageVars
  <2>2. \E s \in Active \cup Terminal : job' = [job EXCEPT ![r] = s]
    BY <1>2 DEF Works, Cancels
  <2>3. job' \in [Tokens -> {"none"} \cup Active \cup Terminal]
    BY <2>2 DEF Inv, TypeOK
  <2>4. TypeOK'
    BY <2>1, <2>3 DEF Inv, TypeOK
  <2>5. RefsInv' /\ ViewOfCurrentRun' /\ SpinnerHasRun' /\ CancelsWhatWasLeft'
    BY <2>1 DEF Inv, RefsInv, ViewOfCurrentRun, SpinnerHasRun, CancelsWhatWasLeft, InProgress
  <2>q. QED
    BY <2>4, <2>5 DEF Inv
<1>q. QED
  BY <1>1, <1>2

LEMMA StutterInv == ASSUME Inv, UNCHANGED vars PROVE Inv'
BY DEF vars, pageVars, Inv, TypeOK, RefsInv, ViewOfCurrentRun, SpinnerHasRun, CancelsWhatWasLeft,
   InProgress

LEMMA StepInv == Inv /\ [Next]_vars => Inv'
<1> SUFFICES ASSUME Inv, [Next]_vars PROVE Inv'
  OBVIOUS
<1>1. CASE runAnalysis
  BY <1>1, StartInv
<1>2. CASE handleCancel
  BY <1>2, LeaveInv
<1>3. ASSUME NEW r \in Tokens, RunStep(r) \/ Answers(r) \/ Works(r) \/ Cancels(r)
      PROVE  Inv'
  BY <1>3, RunInv, ServerInv
<1>4. CASE UNCHANGED vars
  BY <1>4, StutterInv
<1>q. QED
  BY <1>1, <1>2, <1>3, <1>4 DEF Next

LEMMA Invariant == Spec => []Inv
BY InitInv, StepInv, PTL DEF Spec

\* Every variable keeps its type.
THEOREM TypeCorrect == Spec => []TypeOK
<1>1. Inv => TypeOK
  BY DEF Inv
<1>q. QED
  BY Invariant, <1>1, PTL

\* Whatever the order of answers, aborts and clicks, the page shows the current run.
THEOREM ViewIsCurrent == Spec => []ViewOfCurrentRun
<1>1. Inv => ViewOfCurrentRun
  BY DEF Inv
<1>q. QED
  BY Invariant, <1>1, PTL

\* The page never shows progress for a run that is over.
THEOREM SpinnerIsHonest == Spec => []SpinnerHasRun
<1>1. Inv => SpinnerHasRun
  BY DEF Inv
<1>q. QED
  BY Invariant, <1>1, PTL

\* The page asks the server to cancel exactly the jobs it knows of runs that were left.
THEOREM CancelsWhatIsLeft == Spec => []CancelsWhatWasLeft
<1>1. Inv => CancelsWhatWasLeft
  BY DEF Inv
<1>q. QED
  BY Invariant, <1>1, PTL
=============================================================================
