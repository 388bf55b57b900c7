-------------------------------- MODULE TTLCache --------------------------------
(***************************************************************************)
(* AsyncTTLCache of utils/ttl_cache.py: a dictionary of values with the    *)
(* times at which they expire.  Nothing removes an expired entry before    *)
(* the next get of its key or the next set.  The lock is never held across *)
(* an await, so each method is one step, and so are calls in a row.        *)
(***************************************************************************)
EXTENDS Integers, FiniteSets

CONSTANTS
    Keys, Values, MaxEntries,
    TTL,        \* GEOIP_CACHE_TTL_SECONDS or RDAP_CACHE_TTL_SECONDS: one per cache
    MaxTime     \* bound of the clock

ASSUME CacheAssumption == MaxEntries \in Nat \ {0} /\ TTL \in Nat \ {0} /\ MaxTime \in Nat

VARIABLES
    entries,    \* _entries
    now         \* time.monotonic()

cacheVars == <<entries, now>>

Stored == DOMAIN entries

\* Mutant: an entry is good for the instant at which it expires, too.
Expired_Late(k) == entries[k].expires < now

Expired(k) == entries[k].expires <= now

\* The bound holds for everything the dictionary keeps, expired or not.
CacheTypeOK ==
    /\ Stored \subseteq Keys /\ Cardinality(Stored) <= MaxEntries
    /\ \A k \in Stored : entries[k].value \in Values /\ entries[k].expires \in TTL..now + TTL
    /\ now \in 0..MaxTime

CacheInit == entries = <<>> /\ now = 0

-----------------------------------------------------------------------------
Keep(kept) == entries' = [k \in kept |-> entries[k]]

\* What a get of each key of a set finds, and drops.
Found(keys) == {k \in keys \cap Stored : ~Expired(k)}
Get(keys) == Keep({k \in Stored : k \in keys => ~Expired(k)})

Oldest(among) == {k \in among : \A other \in among : entries[k].expires <= entries[other].expires}

Put(kept, k, v) ==
    entries' = [other \in kept \cup {k} |->
                   IF other = k THEN [value |-> v, expires |-> now + TTL] ELSE entries[other]]

Alive == {k \in Stored : ~Expired(k)}

\* Mutant: room is made one entry too late.
Set_OneMore(k, v) ==
    IF k \in Alive \/ Cardinality(Alive) <= MaxEntries
    THEN Put(Alive, k, v)
    ELSE \E old \in Oldest(Alive) : Put(Alive \ {old}, k, v)

\* Mutant: a key that is there already makes room for itself.
Set_Displaces(k, v) ==
    IF Cardinality(Alive) < MaxEntries
    THEN Put(Alive, k, v)
    ELSE \E old \in Oldest(Alive) : Put(Alive \ {old}, k, v)

\* Of entries that expire at the same instant, any may be the oldest.
Set(k, v) ==
    IF k \in Alive \/ Cardinality(Alive) < MaxEntries
    THEN Put(Alive, k, v)
    ELSE \E old \in Oldest(Alive) : Put(Alive \ {old}, k, v)

\* delete, and set with a TTL that is not positive
Delete(k) == Keep(Stored \ {k})

Clear == Keep({})

Tick == now < MaxTime /\ now' = now + 1 /\ UNCHANGED entries

-----------------------------------------------------------------------------
\* What can be read, and for how long.
Live == [k \in Alive |-> [value |-> entries[k].value, left |-> entries[k].expires - now]]

Promise == INSTANCE LiveCache WITH live <- Live

\* The dictionary with its lazy removals keeps the promise of a cache that drops
\* each value on time: no value is kept from its readers early, and room is never
\* made at the expense of a live entry while an expired one is kept.
KeepsPromise == Promise!Spec
=============================================================================
