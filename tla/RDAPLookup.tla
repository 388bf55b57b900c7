------------------------------ MODULE RDAPLookup ------------------------------
(***************************************************************************)
(* RDAPClient.query of services/rdap_client.py: the analyses of one        *)
(* process look domains up at their RDAP servers, one server after the     *)
(* other, each behind its circuit and retried with run_with_retries        *)
(* (utils/http.py), and share a cache (utils/ttl_cache.py).  The deadline  *)
(* of its analysis may cancel a lookup at any await.                       *)
(***************************************************************************)
EXTENDS CircuitBreaker, Sequences

CONSTANTS
    Lookups,        \* the analyses of the process, each with one lookup at a time
    Domains,
    ServersOf,      \* the server list of each domain, from the bootstrap table
    MaxRetries      \* RDAP_MAX_RETRIES

ASSUME LookupAssumption ==
    /\ ServersOf \in [Domains -> Seq(Providers) \ {<<>>}]
    /\ MaxRetries \in Nat

VARIABLES
    pc,         \* where each lookup is
    domain,     \* what it looks up
    next,       \* the position of the server it is at
    attempt,    \* the attempts at that server so far
    cache,      \* rdap_cache, what it would answer for each domain
    probing,    \* history: the call of this lookup was admitted as the probe
    stray       \* history: a call admitted before an opening ended after it

lookupVars == <<pc, domain, next, attempt>>
vars == <<circuit, lookupVars, cache, probing, stray>>

Calling(q) == pc[q] \in {"attempt", "backoff"}
Server(q) == ServersOf[domain[q]][next[q]]

TypeOK ==
    /\ circuit \in [Providers -> Circuits]
    /\ pc \in [Lookups -> {"idle", "resolve", "attempt", "backoff"}]
    /\ domain \in [Lookups -> Domains]
    /\ next \in [Lookups -> Nat]
    /\ \A q \in Lookups : pc[q] # "idle" => next[q] \in 1..Len(ServersOf[domain[q]])
    /\ attempt \in [Lookups -> 0..MaxRetries]
    /\ cache \in [Domains -> {"record", "none"}]
    /\ probing \in [Lookups -> BOOLEAN]
    /\ stray \in [Providers -> BOOLEAN]

Init ==
    /\ circuit = [s \in Providers |-> Closed]
    /\ pc = [q \in Lookups |-> "idle"]
    /\ domain \in [Lookups -> Domains]
    /\ next = [q \in Lookups |-> 1]
    /\ attempt = [q \in Lookups |-> 0]
    /\ cache = [d \in Domains |-> "none"]
    /\ probing = [q \in Lookups |-> FALSE]
    /\ stray = [s \in Providers |-> FALSE]

-----------------------------------------------------------------------------
Goto(q, place) == pc' = [pc EXCEPT ![q] = place]

\* On to server i of the list, or the end of the lookup: found, or RDAPError.
GotoServer(q, i) ==
    /\ next' = [next EXCEPT ![q] = i]
    /\ attempt' = [attempt EXCEPT ![q] = 0]
    /\ Goto(q, IF i \in 1..Len(ServersOf[domain[q]]) THEN "resolve" ELSE "idle")

\* A cached domain is answered at once; otherwise the first server is resolved.
Query(q, d) ==
    /\ pc[q] = "idle"
    /\ cache[d] = "none"
    /\ domain' = [domain EXCEPT ![q] = d]
    /\ next' = [next EXCEPT ![q] = 1]
    /\ Goto(q, "resolve")
    /\ UNCHANGED <<circuit, attempt, cache, probing, stray>>

\* _query_server up to the call: an unusable address, a name without a public
\* address or a circuit that rejects makes it None; else the first request.
QueryServer(q) ==
    /\ pc[q] = "resolve"
    /\ \/ GotoServer(q, next[q] + 1) /\ UNCHANGED <<circuit, probing>>
       \/ /\ BeforeCall(Server(q))
          /\ Goto(q, "attempt")
          /\ probing' = [probing EXCEPT ![q] = HalfOpen(Server(q))]
          /\ UNCHANGED <<next, attempt>>
    /\ UNCHANGED <<domain, cache, stray>>

\* The call of q at its server is over.
CallEnds(q) ==
    /\ probing' = [probing EXCEPT ![q] = FALSE]
    /\ stray' = [stray EXCEPT ![Server(q)] =
                    @ \/ (~probing[q] /\ circuit[Server(q)].phase # "closed")]
    /\ UNCHANGED domain

\* The server answers. A record is cached and ends the lookup.
Succeeds(q) ==
    /\ pc[q] = "attempt"
    /\ RecordSuccess(Server(q))
    /\ \/ cache' = [cache EXCEPT ![domain[q]] = "record"] /\ GotoServer(q, 0)
       \/ GotoServer(q, next[q] + 1) /\ UNCHANGED cache
    /\ CallEnds(q)

\* An error that is not retried (a client error, too large, no JSON) does not
\* trip the circuit: the provider is there.
FailsForGood(q) ==
    /\ pc[q] = "attempt"
    /\ RecordSuccess(Server(q))
    /\ GotoServer(q, next[q] + 1)
    /\ CallEnds(q)
    /\ UNCHANGED cache

\* Network error, timeout, 429 or 5xx: retried; the last one counts as the
\* failure of the call.
FailsTransiently(q) ==
    /\ pc[q] = "attempt"
    /\ IF attempt[q] < MaxRetries
       THEN /\ Goto(q, "backoff")
            /\ attempt' = [attempt EXCEPT ![q] = @ + 1]
            /\ UNCHANGED <<circuit, domain, next, probing, stray>>
       ELSE RecordFailure(Server(q)) /\ GotoServer(q, next[q] + 1) /\ CallEnds(q)
    /\ UNCHANGED cache

Retry(q) ==
    /\ pc[q] = "backoff"
    /\ Goto(q, "attempt")
    /\ UNCHANGED <<circuit, domain, next, attempt, cache, probing, stray>>

\* The deadline of the analysis, or its cancellation.
Cancel(q) ==
    /\ pc[q] # "idle"
    /\ IF Calling(q) THEN ReleaseProbe(Server(q)) /\ CallEnds(q)
                     ELSE UNCHANGED <<circuit, domain, probing, stray>>
    /\ GotoServer(q, 0)
    /\ UNCHANGED cache

\* RDAP_CACHE_TTL_SECONDS have passed, or other domains crowd this one out.
Forget(d) ==
    /\ cache[d] # "none"
    /\ cache' = [cache EXCEPT ![d] = "none"]
    /\ UNCHANGED <<circuit, lookupVars, probing, stray>>

Cools(s) == CoolDown(s) /\ UNCHANGED <<lookupVars, cache, probing, stray>>

Answer(q) == Succeeds(q) \/ FailsForGood(q) \/ FailsTransiently(q)
LookupStep(q) == QueryServer(q) \/ Answer(q) \/ Retry(q) \/ Cancel(q)

Next ==
    \/ \E q \in Lookups : LookupStep(q) \/ \E d \in Domains : Query(q, d)
    \/ \E d \in Domains : Forget(d)
    \/ \E s \in Providers : Cools(s)

Spec == Init /\ [][Next]_vars

(***************************************************************************)
(* Fairness.  A lookup that is under way goes on or is cancelled: the      *)
(* deadline sees to it, whatever the server does.  The clock runs.  No     *)
(* server need ever answer.                                                *)
(***************************************************************************)
FairSpec ==
    /\ Spec
    /\ \A q \in Lookups : WF_vars(LookupStep(q))
    /\ \A s \in Providers : WF_vars(Cools(s))

-----------------------------------------------------------------------------
\* The flag of the probe is never left behind: while it is set, and the provider
\* rejects every other call, a probe is under way, cancelled lookups included.
ProbeFlagHonest ==
    \A s \in Providers : circuit[s].probe =>
        \E q \in Lookups : Calling(q) /\ probing[q] /\ Server(q) = s

\* A provider that is cooling off is tried by one call at a time, as long as no
\* call from before the opening ends after it. Such a call clears the flag of a
\* probe that is not its own, whichever way it ends.
OneProbe ==
    \A q1, q2 \in Lookups :
        /\ q1 # q2
        /\ Calling(q1) /\ probing[q1]
        /\ Calling(q2) /\ probing[q2]
        => Server(q1) # Server(q2) \/ stray[Server(q1)]

\* No provider is skipped for ever: however calls fail, are cancelled or overlap
\* with the wait, the circuit comes to admit a call again.
Recovers == \A s \in Providers : []<>~Rejects(s)
=============================================================================
