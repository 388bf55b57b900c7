------------------------------ MODULE GeoIPLookup ------------------------------
(***************************************************************************)
(* GeoIPService.lookup of services/geoip.py: what the cache does not have  *)
(* is asked of the provider in one batch, through run_with_retries of      *)
(* utils/http.py.  The value of a record is the time it was fetched.       *)
(***************************************************************************)
EXTENDS TTLCache, FiniteSetsExt

CONSTANTS
    Analyses,
    MaxIPs,         \* MAX_GEOIP_IPS
    MaxRetries, Backoff, Jitter, MaxDelay,  \* GEOIP_MAX_RETRIES, RETRY_*
    RetryAfter      \* what a provider may ask for, 0 for nothing

ASSUME RetryAssumption ==
    /\ {MaxIPs, MaxRetries, Backoff, Jitter, MaxDelay} \subseteq Nat
    /\ RetryAfter \subseteq Nat

\* A fact of arithmetic, stated for the proofs: no prover knows of powers.
ASSUME PowerAssumption == \A n \in 0..MaxRetries : 2^n \in Nat

\* The cache takes what is fetched at any time.
ASSUME RecordAssumption == 0..MaxTime \subseteq Values

VARIABLE geo        \* the lookup of each analysis

Nothing == [ip \in {} |-> 0]
NotLooking == [pc |-> "idle", wanted |-> {}, result |-> Nothing, unstored |-> {},
               attempt |-> 0, wake |-> 0, owed |-> 0]

Looks(a) == geo[a].pc \in {"fetching", "backoff"}

Results == UNION {[found -> 0..MaxTime] : found \in SUBSET Keys}
LookupStates == [pc : {"idle", "fetching", "backoff", "storing", "done"},
                 wanted : SUBSET Keys, result : Results, unstored : SUBSET Keys,
                 attempt : 0..MaxRetries, wake : Nat, owed : Nat]

GeoTypeOK ==
    /\ geo \in [Analyses -> LookupStates]
    /\ \A a \in Analyses :
          DOMAIN geo[a].result \subseteq geo[a].wanted /\ geo[a].unstored \subseteq DOMAIN geo[a].result

GeoInit == geo = [a \in Analyses |-> NotLooking]

-----------------------------------------------------------------------------
\* _load_cached: every requested address that is cached has its record already.
lookup(a, ips) ==
    /\ geo[a].pc = "idle"
    /\ Get(ips)
    /\ geo' = [geo EXCEPT ![a] =
                  [@ EXCEPT !.pc = IF Found(ips) = ips THEN "done" ELSE "fetching",
                            !.wanted = ips,
                            !.result = [ip \in Found(ips) |-> entries[ip].value]]]
    /\ UNCHANGED now

\* _parse: what the caller asked for, the addresses it found in the cache included.
Parse(a, answer) == answer \cap geo[a].wanted

\* The answer holds a record for some addresses, not only for those of the batch.
Fetched(a) ==
    /\ geo[a].pc = "fetching"
    /\ \E answer \in SUBSET Keys :
          LET parsed == Parse(a, answer)
              old    == geo[a].result
          IN  geo' = [geo EXCEPT ![a] =
                  [@ EXCEPT !.pc = IF parsed = {} THEN "done" ELSE "storing",
                            !.result = [ip \in DOMAIN old \cup parsed |->
                                           IF ip \in parsed THEN now ELSE old[ip]],
                            !.unstored = parsed]]
    /\ UNCHANGED cacheVars

\* One record of the answer is cached.
Store(a) ==
    /\ geo[a].pc = "storing"
    /\ \E ip \in geo[a].unstored :
          /\ Set(ip, geo[a].result[ip])
          /\ geo' = [geo EXCEPT ![a].unstored = @ \ {ip},
                                ![a].pc = IF geo[a].unstored = {ip} THEN "done" ELSE "storing"]
    /\ UNCHANGED now

\* Mutant: the cap is applied before the jitter and what the provider asks for.
Delays_CapFirst(attempt, asked) ==
    LET backoff == Min({Backoff * 2^attempt, MaxDelay})
    IN  {Max({backoff, asked}) + jitter : jitter \in 0..Jitter}

\* The wait before the next attempt, with its random jitter.
Delays(attempt, asked) ==
    {Min({Max({Backoff * 2^attempt, asked}) + jitter, MaxDelay}) : jitter \in 0..Jitter}

\* An error that is worth a retry, with what its Retry-After asks for.
FailsTransiently(a) ==
    /\ geo[a].pc = "fetching"
    /\ IF geo[a].attempt < MaxRetries
       THEN \E asked \in RetryAfter : \E delay \in Delays(geo[a].attempt, asked) :
               geo' = [geo EXCEPT ![a] =
                          [@ EXCEPT !.pc = "backoff", !.attempt = geo[a].attempt + 1,
                                    !.wake = now + delay, !.owed = now + Min({asked, MaxDelay})]]
       ELSE geo' = [geo EXCEPT ![a] = [NotLooking EXCEPT !.pc = "done"]]
    /\ UNCHANGED cacheVars

\* Another error, an open circuit, the deadline or a cancellation: what was found
\* in the cache goes with it.
LookupEnds(a) ==
    /\ Looks(a)
    /\ geo' = [geo EXCEPT ![a] = [NotLooking EXCEPT !.pc = "done"]]
    /\ UNCHANGED cacheVars

Retry(a) ==
    /\ geo[a].pc = "backoff" /\ now >= geo[a].wake
    /\ geo' = [geo EXCEPT ![a].pc = "fetching", ![a].wake = 0, ![a].owed = 0]
    /\ UNCHANGED cacheVars

GeoStep(a) == Fetched(a) \/ FailsTransiently(a) \/ LookupEnds(a) \/ Retry(a)

-----------------------------------------------------------------------------
\* A lookup takes up no record that is older than its time, whether from the cache
\* or from the provider, and none of an address it was not asked about.
FreshRecords ==
    [][\A a \in Analyses : \A ip \in DOMAIN geo'[a].result :
          \/ ip \in DOMAIN geo[a].result /\ geo'[a].result[ip] = geo[a].result[ip]
          \/ ip \in geo'[a].wanted /\ geo'[a].result[ip] > now - TTL]_geo

\* A provider that asks for a pause gets it, up to the cap, and no pause is longer
\* than the cap, whatever the backoff has grown to and the jitter adds.
PauseInBounds ==
    \A a \in Analyses : geo[a].pc = "backoff" =>
        geo[a].owed <= geo[a].wake /\ geo[a].wake <= now + MaxDelay
=============================================================================
