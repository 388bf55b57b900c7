------------------------------- MODULE RateLimiter -------------------------------
(***************************************************************************)
(* The sliding-window limit of core/rate_limit.py behind the middleware of *)
(* main.py: one log of requests per client in Redis, shared by the API     *)
(* processes, and one in each process that takes over when Redis fails.    *)
(* The script is atomic in Redis, and the lock of the in-process limiter   *)
(* is never held across an await: a check is one step.                     *)
(***************************************************************************)
EXTENDS Integers, FiniteSets

CONSTANTS
    Clients, Processes,
    MaxRequests,    \* RATE_LIMIT_REQUESTS
    Window,         \* RATE_LIMIT_WINDOW_SECONDS, in ticks
    Second,         \* ticks in a second: Retry-After and EXPIRE are in seconds
    MaxTime, MaxAsked   \* bounds of the clock and of the requests

ASSUME RateAssumption ==
    /\ MaxRequests \in Nat \ {0} /\ Window \in Nat \ {0} /\ Second \in Nat \ {0}
    /\ MaxTime \in Nat /\ MaxAsked \in Nat
    /\ "redis" \notin Processes

VARIABLES
    mode,       \* the settings: Redis alone, Redis with a fallback, or no Redis
    now,
    shared,     \* the sorted set of each client, in Redis
    lapses,     \* when Redis drops the key of a client
    local,      \* _requests of each process
    asked,      \* requests so far: each has its own uuid
    admitted,   \* history: what each limiter admitted of a client in the last window
    told,       \* history: what the headers promised a client and it has not used
    answer      \* history: the last answer

vars == <<mode, now, shared, lapses, local, asked, admitted, told, answer>>

Limiters == Processes \cup {"redis"}
Entries == [id : 0..MaxAsked, at : 0..MaxTime]
NoPromise == [left |-> 0, from |-> {}]

TypeOK ==
    /\ mode \in {"redis", "fallback", "local"}
    /\ now \in 0..MaxTime /\ asked \in 0..MaxAsked
    /\ shared \in [Clients -> SUBSET Entries] /\ lapses \in [Clients -> Nat]
    /\ local \in [Processes -> [Clients -> SUBSET Entries]]
    /\ admitted \in [Clients -> [Limiters -> SUBSET Entries]]
    /\ told \in [Clients -> [Limiters -> [left : Nat, from : SUBSET Nat]]]
    /\ answer \in [client : Clients, by : Limiters,
                   verdict : {"admitted", "rejected", "unavailable"}]

Init ==
    /\ mode \in {"redis", "fallback", "local"}
    /\ now = 0 /\ asked = 0
    /\ admitted = [c \in Clients |-> [l \in Limiters |-> {}]]
    /\ shared = [c \in Clients |-> {}] /\ lapses = [c \in Clients |-> 0]
    /\ local = [p \in Processes |-> [c \in Clients |-> {}]]
    /\ told = [c \in Clients |-> [l \in Limiters |-> NoPromise]]
    /\ answer \in [client : Clients, by : {"redis"}, verdict : {"unavailable"}]

-----------------------------------------------------------------------------
Request == [id |-> asked, at |-> now]

\* Mutant: the cutoff itself stays in the window.
Kept_Inclusive(log) == {e \in log : e.at + Window >= now}

Kept(log) == {e \in log : e.at + Window > now}

Full(log) == Cardinality(log) >= MaxRequests

Least(S) == CHOOSE x \in S : \A y \in S : x <= y

\* math.ceil to seconds, and at least one
Seconds(ticks) == Least({s \in 1..Window : Second * s >= ticks})

RetryAfter(log) == Seconds(Least({e.at : e \in log}) + Window - now)

\* An answer, and what the client knows of limiter l from now on.
Admits(c, l, log, known) ==
    /\ admitted' = [admitted EXCEPT ![c][l] = @ \cup {Request}]
    /\ told' = [known EXCEPT ![c][l] = [left |-> MaxRequests - Cardinality(log) - 1, from |-> {}]]
    /\ answer' = [client |-> c, by |-> l, verdict |-> "admitted"]

Rejects(c, l, log, known) ==
    /\ told' = [known EXCEPT ![c][l] =
                   [left |-> 0,
                    from |-> IF @.from = {} THEN {now + Second * RetryAfter(log)} ELSE @.from]]
    /\ answer' = [client |-> c, by |-> l, verdict |-> "rejected"]
    /\ UNCHANGED admitted

\* A process cleans the queues of all clients, then looks at the one that asks.
LocalCheck(p, c, known) ==
    LET kept == [d \in Clients |-> Kept(local[p][d])]
        full == Full(kept[c])
    IN  /\ local' = [local EXCEPT ![p] =
                        IF full THEN kept ELSE [kept EXCEPT ![c] = @ \cup {Request}]]
        /\ IF full THEN Rejects(c, p, kept[c], known) ELSE Admits(c, p, kept[c], known)

\* What the script finds: a key that lapsed is gone.
Log(c) == Kept(IF lapses[c] <= now THEN {} ELSE shared[c])

\* Mutant: the script leaves the key the rest of the window it had.
Script_NoExpire(c) ==
    IF Full(Log(c))
    THEN shared' = [shared EXCEPT ![c] = Log(c)] /\ UNCHANGED lapses
    ELSE /\ shared' = [shared EXCEPT ![c] = Log(c) \cup {Request}]
         /\ lapses' = [lapses EXCEPT ![c] =
                           IF @ > now THEN @ ELSE now + Second * Seconds(Window)]

Script(c) ==
    IF Full(Log(c))
    THEN shared' = [shared EXCEPT ![c] = Log(c)] /\ UNCHANGED lapses
    ELSE /\ shared' = [shared EXCEPT ![c] = Log(c) \cup {Request}]
         /\ lapses' = [lapses EXCEPT ![c] = now + Second * Seconds(Window)]

RedisCheck(c) ==
    /\ mode # "local"
    /\ Script(c)
    /\ IF Full(Log(c)) THEN Rejects(c, "redis", Log(c), told) ELSE Admits(c, "redis", Log(c), told)
    /\ UNCHANGED local

\* Without an answer of Redis, the fallback decides, or nobody does.
Falls(p, c, known) ==
    IF mode = "fallback"
    THEN LocalCheck(p, c, known)
    ELSE /\ answer' = [client |-> c, by |-> "redis", verdict |-> "unavailable"]
         /\ told' = known
         /\ UNCHANGED <<local, admitted>>

RedisFails(p, c) ==
    /\ mode # "local"
    /\ Falls(p, c, told)
    /\ UNCHANGED <<shared, lapses>>

\* The script ran, but its reply is lost: if it admitted the request, one of
\* those it had promised is used up.
ReplyLost(p, c) ==
    /\ mode # "local"
    /\ Script(c)
    /\ Falls(p, c, IF Full(Log(c)) THEN told
                   ELSE [told EXCEPT ![c]["redis"] =
                            [left |-> IF @.left = 0 THEN 0 ELSE @.left - 1, from |-> {}]])

WithoutRedis(p, c) ==
    /\ mode = "local"
    /\ LocalCheck(p, c, told)
    /\ UNCHANGED <<shared, lapses>>

Check(p, c) ==
    /\ asked < MaxAsked /\ asked' = asked + 1
    /\ RedisCheck(c) \/ RedisFails(p, c) \/ ReplyLost(p, c) \/ WithoutRedis(p, c)
    /\ UNCHANGED <<mode, now>>

\* A process starts anew, and forgets: what it admitted is of another life.
Restart(p) ==
    /\ \E c \in Clients : local[p][c] # {}
    /\ local' = [local EXCEPT ![p] = [c \in Clients |-> {}]]
    /\ admitted' = [c \in Clients |-> [admitted[c] EXCEPT ![p] = {}]]
    /\ told' = [c \in Clients |-> [told[c] EXCEPT ![p] = NoPromise]]
    /\ UNCHANGED <<mode, now, shared, lapses, asked, answer>>

Tick ==
    /\ now < MaxTime /\ now' = now + 1
    /\ admitted' = [c \in Clients |-> [l \in Limiters |->
                       {e \in admitted[c][l] : e.at + Window > now'}]]
    /\ UNCHANGED <<mode, shared, lapses, local, asked, told, answer>>

Next ==
    \/ \E p \in Processes, c \in Clients : Check(p, c)
    \/ \E p \in Processes : Restart(p)
    \/ Tick

Spec == Init /\ [][Next]_vars

-----------------------------------------------------------------------------
\* README 128: no limiter admits more than the configured number of requests of a
\* client in any window: not Redis for all processes together, however many, nor
\* the fallback of one of them, whatever comes and goes in between. In all, a
\* client gets the number once for every limiter that had to decide.
WindowBound ==
    \A c \in Clients, l \in Limiters : Cardinality(admitted[c][l]) <= MaxRequests

\* The headers are kept: a limiter does not reject a client that uses what
\* X-RateLimit-Remaining left it, nor one that comes back after Retry-After and
\* was not admitted meanwhile, even if it kept asking.
RejectedBy(c, l) ==
    asked' # asked /\ answer' = [client |-> c, by |-> l, verdict |-> "rejected"]

HonestHeaders ==
    [][\A c \in Clients, l \in Limiters :
           RejectedBy(c, l) => told[c][l].left = 0 /\ \A t \in told[c][l].from : now < t]_vars

=============================================================================
