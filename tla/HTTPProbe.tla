------------------------------- MODULE HTTPProbe -------------------------------
(***************************************************************************)
(* One of the two probes of services/http_headers.py, behind the guard of  *)
(* services/network_guard.py: a HEAD request, a GET where HEAD is not      *)
(* allowed, retries, and redirects followed by hand, every hop at an       *)
(* address the guard has seen.  The names it meets may resolve to          *)
(* something else each time, and its deadline may cancel it at any await.  *)
(***************************************************************************)
EXTENDS Naturals, Sequences, FiniteSets

CONSTANTS
    Urls, Hosts, HostOf,    \* the URLs a probe may be sent to, and their hosts
    Addresses, Public,      \* what a name may resolve to; those that are global
    MaxRedirects, MaxRetries    \* HTTP_MAX_REDIRECTS, HTTP_MAX_RETRIES

ASSUME ProbeAssumption ==
    /\ HostOf \in [Urls -> Hosts]
    /\ Public \subseteq Addresses
    /\ MaxRedirects \in Nat /\ MaxRetries \in Nat

VARIABLES
    pc,             \* where the probe is: at a request, at the guard, or over
    url, ip,        \* current_url, current_ip
    next,           \* next_url, while its host is resolved
    attempt,        \* of request_once at this hop
    chain,          \* redirect_chain
    seen,           \* history: what the guard let pass for each host, last
    trail,          \* history: the first URL, and all the servers redirected to, in order
    requests        \* history: the requests sent so far

vars == <<pc, url, ip, next, attempt, chain, seen, trail, requests>>

Over == {"answered", "unreachable", "cancelled"}
Requesting == pc \in {"head", "get"}

TypeOK ==
    /\ pc \in {"guard", "head", "get", "backoff"} \cup Over
    /\ url \in Urls /\ next \in Urls /\ ip \in Addresses
    /\ attempt \in 0..MaxRetries
    /\ chain \in Seq(Urls) /\ trail \in Seq(Urls)
    /\ seen \in [Hosts -> SUBSET Addresses]
    /\ requests \in Nat

\* resolve_public_ips: a name that resolves to anything that is not public is refused.
Allowed(addresses) == addresses # {} /\ addresses \subseteq Public

Sends(method) == pc' = method /\ requests' = requests + 1

\* The analysis has resolved its domain once, for all its checks.
Init ==
    /\ url \in Urls /\ next = url
    /\ \E addresses \in SUBSET Addresses :
          /\ Allowed(addresses)
          /\ ip \in addresses
          /\ seen = [h \in Hosts |-> IF h = HostOf[url] THEN addresses ELSE {}]
    /\ pc = "head" /\ requests = 1
    /\ attempt = 0 /\ chain = <<>> /\ trail = <<url>>

-----------------------------------------------------------------------------
\* Mutant: the fallback to GET has its own retries.
HeadNotAllowed_Afresh ==
    /\ pc = "head"
    /\ Sends("get")
    /\ attempt' = 0
    /\ UNCHANGED <<url, ip, next, chain, seen, trail>>

\* 405 to the HEAD request
HeadNotAllowed ==
    /\ pc = "head"
    /\ Sends("get")
    /\ UNCHANGED <<url, ip, next, attempt, chain, seen, trail>>

\* Mutant: a retry too many.
RequestFails_More ==
    /\ Requesting
    /\ IF attempt <= MaxRetries
       THEN pc' = "backoff" /\ attempt' = attempt + 1
       ELSE pc' = "unreachable" /\ UNCHANGED attempt
    /\ UNCHANGED <<url, ip, next, chain, seen, trail, requests>>

\* A network error or a timeout: request_once starts again, with a HEAD.
RequestFails ==
    /\ Requesting
    /\ IF attempt < MaxRetries
       THEN pc' = "backoff" /\ attempt' = attempt + 1
       ELSE pc' = "unreachable" /\ UNCHANGED attempt
    /\ UNCHANGED <<url, ip, next, chain, seen, trail, requests>>

Retry ==
    /\ pc = "backoff"
    /\ Sends("head")
    /\ UNCHANGED <<url, ip, next, attempt, chain, seen, trail>>

Becomes(end) == pc' = end /\ UNCHANGED <<url, ip, next, attempt, chain, seen, trail, requests>>

\* No redirect, or one without a location.
Answered == Requesting /\ Becomes("answered")

\* A redirect to `to`; the last one allowed is the answer of the probe.
Redirected(to) ==
    /\ Requesting
    /\ trail' = Append(trail, to)
    /\ IF Len(chain) = MaxRedirects
       THEN pc' = "answered" /\ UNCHANGED next
       ELSE pc' = "guard" /\ next' = to
    /\ UNCHANGED <<url, ip, attempt, chain, seen, requests>>

\* A redirect to what is no plain web address, or an answer that is too large.
Refused == Requesting /\ Becomes("unreachable")

\* Mutant: the chain says where the probe went, not where it came from.
Follow_ChainNext(addresses) ==
    /\ ip' \in addresses
    /\ seen' = [seen EXCEPT ![HostOf[next]] = addresses]
    /\ chain' = Append(chain, next)
    /\ url' = next
    /\ attempt' = 0 /\ Sends("head")

\* Mutant: the next host is checked, and then asked for at the address of the first.
Follow_KeepsAddress(addresses) ==
    /\ seen' = [seen EXCEPT ![HostOf[next]] = addresses]
    /\ chain' = Append(chain, url)
    /\ url' = next
    /\ attempt' = 0 /\ Sends("head")
    /\ UNCHANGED ip

Follow(addresses) ==
    /\ ip' \in addresses
    /\ seen' = [seen EXCEPT ![HostOf[next]] = addresses]
    /\ chain' = Append(chain, url)
    /\ url' = next
    /\ attempt' = 0 /\ Sends("head")

\* The guard resolves the host of the redirect, whatever it may be now.
Guarded ==
    /\ pc = "guard"
    /\ \E addresses \in SUBSET Addresses :
          IF Allowed(addresses)
          THEN Follow(addresses)
          ELSE pc' = "unreachable" /\ UNCHANGED <<url, ip, attempt, chain, seen, requests>>
    /\ UNCHANGED <<next, trail>>

\* The check runs out of time, or the analysis is cancelled.
Cancelled == pc \notin Over /\ Becomes("cancelled")

Next ==
    \/ HeadNotAllowed \/ RequestFails \/ Retry
    \/ Answered \/ Refused \/ \E to \in Urls : Redirected(to)
    \/ Guarded \/ Cancelled

Spec == Init /\ [][Next]_vars

-----------------------------------------------------------------------------
\* Whatever the servers and the names do, a request goes only to a public address
\* at which the guard has seen the host it is for, retries and the GET included.
PinnedToGuarded == ip \in Public /\ (pc \in {"head", "get", "backoff"} => ip \in seen[HostOf[url]])

\* The chain a probe reports leads from the URL it began with to its final one, by
\* every redirect the servers sent it and by no other, in their order: only the last
\* may be missing, when the guard has yet to allow it or never will, or when it is one
\* too many.
ChainExplains ==
    LET path == Append(chain, url)
    IN  /\ trail \in {path} \cup {Append(path, to) : to \in Urls}
        /\ pc \in {"head", "get", "backoff"} => trail = path
        /\ pc = "answered" /\ Len(chain) < MaxRedirects => trail = path

\* Redirects, retries and fallbacks multiply to no more than this.
RequestBudget == requests <= 2 * (MaxRedirects + 1) * (MaxRetries + 1)
=============================================================================
