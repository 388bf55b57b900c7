------------------------------- MODULE FrontendApp -------------------------------
(***************************************************************************)
(* The page of front/src/App.tsx with the calls of api/client.ts: the user *)
(* starts and cancels runs; a run creates a job, polls it and shows how it *)
(* ended.  A run that was left goes on until its call in flight returns.   *)
(* The continuation of a call, up to the next one, is one step: no event   *)
(* comes between its microtasks.  A run is named by its token, its job by  *)
(* its run.                                                                *)
(***************************************************************************)
EXTENDS Naturals, FiniteSets

CONSTANT MaxToken   \* bound: starts and cancels of the user

ASSUME PageAssumption == MaxToken \in Nat

VARIABLES
    runToken, controller, jobId,    \* the three refs: 0 stands for null
    view,       \* its status, and of which run it speaks
    run,        \* each call of runAnalysis: where it waits, and its answer
    aborted,    \* the runs whose signal is aborted
    job,        \* the jobs of the server
    asked,      \* the jobs the page has asked the server to cancel
    left, known \* history: runs the user left, and those that learnt their job

pageVars == <<runToken, controller, jobId, view, run, aborted>>
vars == <<pageVars, job, asked, left, known>>

Tokens == 1..MaxToken
Active == {"queued", "running"}

\* Mutant: a failed job is polled on.
Terminal_NoFailed == {"completed", "cancelled"}

Terminal == {"completed", "failed", "cancelled"}
Idle == [status |-> "idle", of |-> 0]
Shows(status, r) == [status |-> status, of |-> r]
Calling(r) == run[r].pc \in {"creating", "polling"}
InProgress(r) == run[r].pc \in {"creating", "polling", "waiting"}

TypeOK ==
    /\ runToken \in 0..MaxToken
    /\ controller \in 0..MaxToken /\ jobId \in 0..MaxToken
    /\ view \in [status : {"idle", "loading", "success", "error"}, of : 0..MaxToken]
    /\ run \in [Tokens -> [pc : {"none", "creating", "polling", "waiting", "done"},
                           reply : {"none"} \cup Active \cup Terminal]]
    /\ job \in [Tokens -> {"none"} \cup Active \cup Terminal]
    /\ aborted \subseteq Tokens
    /\ asked \subseteq Tokens /\ left \subseteq Tokens /\ known \subseteq Tokens

Init ==
    /\ runToken = 0 /\ controller = 0 /\ jobId = 0
    /\ view = Idle
    /\ run = [r \in Tokens |-> [pc |-> "none", reply |-> "none"]]
    /\ job = [r \in Tokens |-> "none"]
    /\ aborted = {} /\ asked = {} /\ left = {} /\ known = {}

-----------------------------------------------------------------------------
\* What the user does.
Abort == aborted' = aborted \cup ({controller} \ {0})
Leaves == left' = left \cup {r \in Tokens : r = runToken /\ InProgress(r)}
CancelRef == asked' = asked \cup ({jobId} \ {0})

\* The form has its button, and "try again" its panel, while nothing loads.
runAnalysis ==
    /\ view.status # "loading" /\ runToken < MaxToken
    /\ runToken' = runToken + 1
    /\ Abort /\ CancelRef /\ Leaves
    /\ jobId' = 0 /\ controller' = runToken'
    /\ run' = [run EXCEPT ![runToken'].pc = "creating"]
    /\ view' = Shows("loading", runToken')
    /\ UNCHANGED <<job, known>>

\* Mutant: the run is aborted, its token stays the current one.
handleCancel_SameToken ==
    /\ view.status = "loading" /\ runToken < MaxToken
    /\ controller' = 0 /\ jobId' = 0 /\ view' = Idle
    /\ Abort /\ CancelRef /\ Leaves
    /\ UNCHANGED <<runToken, run, job, known>>

handleCancel ==
    /\ view.status = "loading" /\ runToken < MaxToken
    /\ runToken' = runToken + 1
    /\ controller' = 0 /\ jobId' = 0 /\ view' = Idle
    /\ Abort /\ CancelRef /\ Leaves
    /\ UNCHANGED <<run, job, known>>

-----------------------------------------------------------------------------
\* The end of a run: its finally block.
Finally(r) ==
    /\ run' = [run EXCEPT ![r].pc = "done", ![r].reply = "none"]
    /\ controller' = IF controller = r THEN 0 ELSE controller
    /\ jobId' = IF runToken = r THEN 0 ELSE jobId

\* Mutant: only an AbortError is kept from the page.
Throws_AbortOnly(r, error) ==
    /\ view' = IF error = "AbortError" THEN view ELSE Shows("error", r)
    /\ Finally(r)
    /\ UNCHANGED <<runToken, asked, known>>

Throws(r, error) ==
    /\ view' = IF runToken # r \/ error = "AbortError" THEN view ELSE Shows("error", r)
    /\ Finally(r)
    /\ UNCHANGED <<runToken, asked, known>>

\* Mutant: a run that was left forgets the job it learns of.
Created_Forget(r) ==
    /\ run[r].pc = "creating" /\ run[r].reply # "none"
    /\ known' = known \cup {r}
    /\ IF runToken # r
       THEN Finally(r) /\ UNCHANGED <<asked, view>>
       ELSE /\ jobId' = r
            /\ run' = [run EXCEPT ![r].pc = "polling", ![r].reply = "none"]
            /\ view' = Shows("loading", r)
            /\ UNCHANGED <<controller, asked>>
    /\ UNCHANGED runToken

\* createAnalysis has no signal: its answer comes even to a run that was left.
Created(r) ==
    /\ run[r].pc = "creating" /\ run[r].reply # "none"
    /\ known' = known \cup {r}
    /\ IF runToken # r
       THEN asked' = asked \cup {r} /\ Finally(r) /\ UNCHANGED view
       ELSE /\ jobId' = r
            /\ run' = [run EXCEPT ![r].pc = "polling", ![r].reply = "none"]
            /\ view' = IF run[r].reply \in Active THEN Shows("loading", r) ELSE view
            /\ UNCHANGED <<controller, asked>>
    /\ UNCHANGED runToken

\* The server refuses, or cannot be reached, or its answer is lost.
CreateFails(r) == run[r].pc = "creating" /\ Throws(r, "Error")

\* A completed job without a result is an error as well.
Ends(r, status) ==
    /\ Finally(r)
    /\ view' \in IF runToken # r THEN {view}
                 ELSE CASE status = "completed" -> {Shows("success", r), Shows("error", r)}
                        [] status = "failed"    -> {Shows("error", r)}
                        [] OTHER                -> {Idle}

Polled(r) ==
    /\ run[r].pc = "polling" /\ r \notin aborted /\ run[r].reply # "none"
    /\ IF run[r].reply \in Terminal
       THEN Ends(r, run[r].reply)
       ELSE /\ run' = [run EXCEPT ![r].pc = "waiting", ![r].reply = "none"]
            /\ view' = IF runToken = r THEN Shows("loading", r) ELSE view
            /\ UNCHANGED <<controller, jobId>>
    /\ UNCHANGED <<runToken, asked, known>>

\* A poll fails; an abort that finds the body half read is no AbortError.
PollFails(r) ==
    /\ run[r].pc = "polling"
    /\ \/ Throws(r, "Error")
       \/ r \in aborted /\ Throws(r, "AbortError")

\* The timer of 750 ms, which an abort clears.
waitForNextPoll(r) ==
    /\ run[r].pc = "waiting"
    /\ IF r \in aborted
       THEN Throws(r, "AbortError")
       ELSE run' = [run EXCEPT ![r].pc = "polling"]
            /\ UNCHANGED <<runToken, controller, jobId, view, asked, known>>

Returns(r) == Created(r) \/ CreateFails(r) \/ Polled(r) \/ PollFails(r)

RunStep(r) == (Returns(r) \/ waitForNextPoll(r)) /\ UNCHANGED <<aborted, job, left>>

-----------------------------------------------------------------------------
\* The server: a request is read once and answered with what was true then.
Answers(r) ==
    /\ Calling(r) /\ run[r].reply = "none"
    /\ job' = [job EXCEPT ![r] = IF run[r].pc = "creating" THEN "queued" ELSE @]
    /\ run' = [run EXCEPT ![r].reply = job'[r]]
    /\ UNCHANGED <<runToken, controller, jobId, view, aborted, asked, left, known>>

Works(r) ==
    /\ \/ job[r] = "queued" /\ job' = [job EXCEPT ![r] = "running"]
       \/ \E end \in {"completed", "failed"} :
              job[r] = "running" /\ job' = [job EXCEPT ![r] = end]
    /\ UNCHANGED <<pageVars, asked, left, known>>

Cancels(r) ==
    /\ r \in asked /\ job[r] \in Active
    /\ job' = [job EXCEPT ![r] = "cancelled"]
    /\ UNCHANGED <<pageVars, asked, left, known>>

Next ==
    \/ runAnalysis \/ handleCancel
    \/ \E r \in Tokens : RunStep(r) \/ Answers(r) \/ Works(r) \/ Cancels(r)

\* Calls return, timers fire, and jobs end; the user need never act.
Fairness ==
    \A r \in Tokens : WF_vars(RunStep(r)) /\ WF_vars(Answers(r)) /\ WF_vars(Works(r))

Spec == Init /\ [][Next]_vars /\ Fairness

-----------------------------------------------------------------------------
\* The page speaks of the current run only: no answer that comes late, and no
\* error of a run that was left, replaces what the user sees now.
ViewOfCurrentRun == view.status # "idle" => view.of = runToken

\* The page never shows progress for a run that is over: whatever ends a run
\* takes the spinner away, or a newer run has its own.
SpinnerHasRun == view.status = "loading" => InProgress(runToken)

\* The server is asked to cancel what the user left, and nothing else: the job of a
\* run that was left is cancelled once the page knows it, even if its id comes
\* after the user has gone on.
CancelsWhatWasLeft ==
    /\ asked \subseteq left \cap known
    /\ \A r \in left \cap known : r \in asked

\* A page that loads comes to show an end, unless the user leaves it first.
PageSettles == (view.status = "loading") ~> (view.status # "loading")
=============================================================================
