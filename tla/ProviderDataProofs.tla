-------------------------- MODULE ProviderDataProofs --------------------------
(* The theorems of ProviderData: the table of RDAP servers and its lock, the  *)
(* cache of GeoIP records as a refinement of LiveCache, and the lookups.      *)
EXTENDS ProviderData, FiniteSetTheorems, SequenceTheorems, TLAPS

-----------------------------------------------------------------------------
(* The queue of the lock *)

\* A sequence without its i-th element.
LEMMA Removal ==
    ASSUME NEW S, NEW s \in Seq(S), NEW i \in DOMAIN s
    PROVE  LET r == Boot!RemoveAt(s, i)
           IN  /\ r \in Seq(S)
               /\ Len(r) = Len(s) - 1
               /\ \A j \in 1..Len(r) : r[j] = IF j < i THEN s[j] ELSE s[j + 1]
<1> DEFINE front == SubSeq(s, 1, i - 1)
           back  == SubSeq(s, i + 1, Len(s))
<1>1. Len(s) \in Nat /\ i \in 1..Len(s) /\ \A j \in 1..Len(s) : s[j] \in S
  BY LenProperties
<1>2. front \in Seq(S) /\ Len(front) = i - 1 /\ \A j \in 1..(i - 1) : front[j] = s[j]
  BY <1>1, SubSeqProperties
<1>3. back \in Seq(S) /\ Len(back) = Len(s) - i
      /\ \A j \in 1..(Len(s) - i) : back[j] = s[j + i]
  BY <1>1, SubSeqProperties
<1>4. Boot!RemoveAt(s, i) = front \o back
  BY DEF Boot!RemoveAt
<1> HIDE DEF front, back
<1>5. /\ front \o back \in Seq(S)
      /\ Len(front \o back) = Len(s) - 1
      /\ \A j \in 1..(Len(s) - 1) :
            (front \o back)[j] = IF j <= i - 1 THEN front[j] ELSE back[j - (i - 1)]
  <2>1. /\ front \o back \in Seq(S)
        /\ Len(front \o back) = Len(front) + Len(back)
        /\ \A j \in 1..(Len(front) + Len(back)) :
              (front \o back)[j] = IF j <= Len(front) THEN front[j] ELSE back[j - Len(front)]
    BY <1>2, <1>3, ConcatProperties
  <2>2. Len(front) = i - 1 /\ Len(back) = Len(s) - i /\ Len(front) + Len(back) = Len(s) - 1
    BY <1>1, <1>2, <1>3
  <2>q. QED
    BY <2>1, <2>2
<1>6. ASSUME NEW j \in 1..(Len(s) - 1)
      PROVE  (front \o back)[j] = IF j < i THEN s[j] ELSE s[j + 1]
  <2>1. CASE j < i
    BY <1>1, <1>2, <1>5, <2>1
  <2>2. CASE ~(j < i)
    <3>1. j - (i - 1) \in 1..(Len(s) - i) /\ (j - (i - 1)) + i = j + 1
      BY <1>1, <2>2
    <3>2. back[j - (i - 1)] = s[j + 1]
      BY <1>3, <3>1
    <3>3. (front \o back)[j] = back[j - (i - 1)]
      BY <1>1, <1>5, <2>2
    <3>q. QED
      BY <2>2, <3>2, <3>3
  <2>q. QED
    BY <2>1, <2>2
<1>q. QED
  BY <1>4, <1>5, <1>6

LEMMA RemovalKeepsOrder ==
    ASSUME NEW S, NEW s \in Seq(S), Boot!IsInjective(s), NEW i \in DOMAIN s
    PROVE  LET r == Boot!RemoveAt(s, i)
           IN  /\ Boot!IsInjective(r)
               /\ Boot!ToSet(r) = Boot!ToSet(s) \ {s[i]}
               /\ i # 1 => Head(r) = Head(s)
<1> DEFINE r == Boot!RemoveAt(s, i)
<1>1. /\ Len(s) \in Nat /\ i \in 1..Len(s) /\ DOMAIN s = 1..Len(s)
      /\ DOMAIN r = 1..Len(r) /\ Len(r) = Len(s) - 1
      /\ r \in Seq(S)
      /\ \A j \in 1..Len(r) : r[j] = IF j < i THEN s[j] ELSE s[j + 1]
  BY LenProperties, Removal
<1> HIDE DEF r
<1>2. Boot!IsInjective(r)
  <2>1. ASSUME NEW j \in 1..Len(r), NEW k \in 1..Len(r), r[j] = r[k] PROVE j = k
    <3>1. \A m, n \in 1..Len(s) : s[m] = s[n] => m = n
      BY <1>1 DEF Boot!IsInjective
    <3>2. \E m, n \in 1..Len(s) : /\ r[j] = s[m] /\ m = (IF j < i THEN j ELSE j + 1)
                                  /\ r[k] = s[n] /\ n = (IF k < i THEN k ELSE k + 1)
      <4>1. ASSUME NEW h \in 1..Len(r)
            PROVE  \E m \in 1..Len(s) : r[h] = s[m] /\ m = (IF h < i THEN h ELSE h + 1)
        BY <1>1
      <4>q. QED
        BY <4>1
    <3>q. QED
      <4>1. PICK m \in 1..Len(s), n \in 1..Len(s) :
               /\ r[j] = s[m] /\ m = (IF j < i THEN j ELSE j + 1)
               /\ r[k] = s[n] /\ n = (IF k < i THEN k ELSE k + 1)
        BY <3>2
      <4>2. m = n
        BY <2>1, <3>1, <4>1
      <4>3. j \in Nat /\ k \in Nat /\ i \in Nat
        BY <1>1
      <4>q. QED
        BY <4>1, <4>2, <4>3
  <2>q. QED
    BY <1>1, <2>1 DEF Boot!IsInjective
<1>3. ASSUME NEW x \in Boot!ToSet(r) PROVE x \in Boot!ToSet(s) \ {s[i]}
  <2>1. PICK j \in 1..Len(r) : x = r[j]
    BY <1>1, <1>3 DEF Boot!ToSet
  <2>2. PICK k \in 1..Len(s) : x = s[k] /\ k # i
    BY <1>1, <2>1
  <2>q. QED
    BY <1>1, <2>2 DEF Boot!ToSet, Boot!IsInjective
<1>4. ASSUME NEW x \in Boot!ToSet(s) \ {s[i]} PROVE x \in Boot!ToSet(r)
  <2>1. PICK k \in 1..Len(s) : x = s[k] /\ k # i
    BY <1>1, <1>4 DEF Boot!ToSet
  <2>2. CASE k < i
    BY <1>1, <2>1, <2>2 DEF Boot!ToSet
  <2>3. CASE k > i
    <3>1. k - 1 \in 1..Len(r) /\ r[k - 1] = x
      BY <1>1, <2>1, <2>3
    <3>q. QED
      BY <1>1, <3>1 DEF Boot!ToSet
  <2>q. QED
    BY <1>1, <2>1, <2>2, <2>3
<1>5. i # 1 => Head(r) = Head(s)
  BY <1>1
<1>q. QED
  BY <1>2, <1>3, <1>4, <1>5 DEF r

-----------------------------------------------------------------------------
(* The table of RDAP servers *)

BootInv == Boot!TypeOK /\ LockHasHolder /\ NoNeedlessDownload

\* What a call does to the queue, seen from the places of the analyses.
LEMMA Unlocking ==
    ASSUME Boot!TypeOK, LockHasHolder, NEW a \in Analyses, Boot!Asks(a), Boot!Unlock(a)
    PROVE  /\ waiters' \in Seq(Analyses)
           /\ Boot!IsInjective(waiters')
           /\ Boot!ToSet(waiters') = {b \in Analyses : Boot!Asks(b)} \ {a}
           /\ Head(waiters) # a => Head(waiters') = Head(waiters)
<1>1. PICK i \in DOMAIN waiters : waiters[i] = a /\ waiters' = Boot!RemoveAt(waiters, i)
  BY DEF Boot!Unlock
<1>2. waiters \in Seq(Analyses) /\ Boot!IsInjective(waiters)
      /\ Boot!ToSet(waiters) = {b \in Analyses : Boot!Asks(b)}
  BY DEF Boot!TypeOK, LockHasHolder, Boot!LockHasHolder
<1>3. waiters[1] = Head(waiters)
  BY <1>1, <1>2
<1>q. QED
  BY <1>1, <1>2, <1>3, Removal, RemovalKeepsOrder

\* An analysis leaves the queue: with the table, or without it.
LEMMA LeavesQueue ==
    ASSUME BootInv, NEW a \in Analyses, Boot!Asks(a), Boot!Unlock(a),
           NEW place \in {"table", "failed"}, Boot!Goto(a, place),
           \/ table' = table
           \/ Head(waiters) = a /\ boot[a] = "loading" /\ table' = "valid"
    PROVE  BootInv'
<1>1. /\ boot' \in [Analyses -> {"idle", "waiting", "loading", "table", "failed"}]
      /\ boot'[a] = place
      /\ \A b \in Analyses \ {a} : boot'[b] = boot[b]
      /\ table' \in {"absent", "valid", "expired"}
  BY DEF BootInv, Boot!TypeOK, Boot!Goto
<1>2. \A b \in Analyses : Boot!Asks(b)' <=> Boot!Asks(b) /\ b # a
  BY <1>1 DEF Boot!Asks
<1>3. /\ waiters' \in Seq(Analyses)
      /\ Boot!IsInjective(waiters')
      /\ Boot!ToSet(waiters') = {b \in Analyses : Boot!Asks(b)'}
      /\ Head(waiters) # a => Head(waiters') = Head(waiters)
  BY <1>2, Unlocking DEF BootInv
<1>4. ASSUME NEW b \in Analyses, boot'[b] = "loading"
      PROVE  b # a /\ boot[b] = "loading" /\ Head(waiters) = b
  BY <1>1, <1>4 DEF BootInv, LockHasHolder, Boot!LockHasHolder
<1>5. LockHasHolder'
  BY <1>3, <1>4 DEF LockHasHolder, Boot!LockHasHolder
<1>6. NoNeedlessDownload'
  BY <1>4 DEF BootInv, NoNeedlessDownload, Boot!NoNeedlessDownload
<1>q. QED
  BY <1>1, <1>3, <1>5, <1>6 DEF BootInv, Boot!TypeOK

LEMMA BootGet ==
    ASSUME BootInv, NEW a \in Analyses, Boot!get_instance(a)
    PROVE  BootInv'
<1>1. /\ boot \in [Analyses -> {"idle", "waiting", "loading", "table", "failed"}]
      /\ waiters \in Seq(Analyses) /\ table' = table /\ boot[a] = "idle"
  BY DEF BootInv, Boot!TypeOK, Boot!get_instance
<1>2. CASE table = "valid"
  <2>1. boot'[a] = "table" /\ \A b \in Analyses \ {a} : boot'[b] = boot[b]
    BY <1>1, <1>2 DEF Boot!get_instance, Boot!Goto
  <2>2. \A b \in Analyses : Boot!Asks(b)' <=> Boot!Asks(b)
    BY <1>1, <2>1 DEF Boot!Asks
  <2>3. waiters' = waiters /\ boot' \in [Analyses -> {"idle", "waiting", "loading", "table", "failed"}]
    BY <1>1, <1>2 DEF Boot!get_instance, Boot!Goto
  <2>q. QED
    BY <1>1, <2>1, <2>2, <2>3 DEF BootInv, Boot!TypeOK, LockHasHolder, Boot!LockHasHolder,
       NoNeedlessDownload, Boot!NoNeedlessDownload
<1>3. CASE table # "valid"
  <2> DEFINE place == IF waiters = <<>> THEN "loading" ELSE "waiting"
  <2>1. /\ boot' = [boot EXCEPT ![a] = place]
        /\ waiters' = Append(waiters, a)
    BY <1>3 DEF Boot!get_instance, Boot!Goto
  <2>2. boot'[a] = place /\ \A b \in Analyses \ {a} : boot'[b] = boot[b]
    BY <1>1, <2>1
  <2>3. \A b \in Analyses : Boot!Asks(b)' <=> Boot!Asks(b) \/ b = a
    BY <2>2 DEF Boot!Asks
  <2>4. /\ waiters' \in Seq(Analyses) /\ Len(waiters) \in Nat
        /\ DOMAIN waiters = 1..Len(waiters) /\ DOMAIN waiters' = 1..(Len(waiters) + 1)
        /\ \A i \in 1..Len(waiters) : waiters'[i] = waiters[i]
        /\ waiters'[Len(waiters) + 1] = a
        /\ Head(waiters') = IF waiters = <<>> THEN a ELSE Head(waiters)
    BY <1>1, <2>1, AppendProperties, LenProperties, HeadTailAppend
  <2>5. /\ Boot!IsInjective(waiters) /\ Boot!ToSet(waiters) = {b \in Analyses : Boot!Asks(b)}
        /\ ~Boot!Asks(a)
    BY <1>1 DEF BootInv, LockHasHolder, Boot!LockHasHolder, Boot!Asks
  <2>6. \A i \in 1..Len(waiters) : waiters[i] # a
    BY <2>4, <2>5 DEF Boot!ToSet
  <2>7. Boot!IsInjective(waiters')
    BY <2>4, <2>5, <2>6 DEF Boot!IsInjective
  <2>8. Boot!ToSet(waiters') = {b \in Analyses : Boot!Asks(b)'}
    <3>1. Boot!ToSet(waiters') = Boot!ToSet(waiters) \cup {a}
      BY <2>4 DEF Boot!ToSet
    <3>q. QED
      BY <2>3, <2>5, <3>1
  <2>9. waiters = <<>> => \A b \in Analyses : ~Boot!Asks(b)
    BY <2>4, <2>5 DEF Boot!ToSet
  <2>10. ASSUME NEW b \in Analyses, boot'[b] = "loading" PROVE Head(waiters') = b
    BY <2>2, <2>4, <2>9, <2>10 DEF BootInv, LockHasHolder, Boot!LockHasHolder, Boot!Asks
  <2>11. NoNeedlessDownload'
    BY <1>1, <1>3, <2>10 DEF NoNeedlessDownload, Boot!NoNeedlessDownload
  <2>q. QED
    BY <1>1, <2>1, <2>4, <2>7, <2>8, <2>10, <2>11 DEF BootInv, Boot!TypeOK, LockHasHolder,
       Boot!LockHasHolder
<1>q. QED
  BY <1>2, <1>3

LEMMA BootStep ==
    ASSUME BootInv, NEW a \in Analyses, Boot!Step(a)
    PROVE  BootInv'
<1>1. boot \in [Analyses -> {"idle", "waiting", "loading", "table", "failed"}]
  BY DEF BootInv, Boot!TypeOK
<1>2. CASE Boot!Locked(a) /\ table = "valid"
  BY <1>2, LeavesQueue DEF Boot!Locked, Boot!Asks
<1>3. CASE Boot!Locked(a) /\ table # "valid"
  <2>1. /\ boot[a] = "waiting" /\ Head(waiters) = a
        /\ boot' = [boot EXCEPT ![a] = "loading"] /\ UNCHANGED <<table, waiters>>
    BY <1>3 DEF Boot!Locked, Boot!Goto
  <2>2. boot'[a] = "loading" /\ \A b \in Analyses \ {a} : boot'[b] = boot[b]
    BY <1>1, <2>1
  <2>3. \A b \in Analyses : Boot!Asks(b)' <=> Boot!Asks(b)
    BY <2>1, <2>2 DEF Boot!Asks
  <2>4. \A b \in Analyses : boot'[b] = "loading" => b = a
    BY <2>1, <2>2 DEF BootInv, LockHasHolder, Boot!LockHasHolder
  <2>q. QED
    BY <1>1, <1>3, <2>1, <2>3, <2>4 DEF BootInv, Boot!TypeOK, LockHasHolder, Boot!LockHasHolder,
       NoNeedlessDownload, Boot!NoNeedlessDownload
<1>4. CASE Boot!Loaded(a)
  <2>1. Head(waiters) = a
    BY <1>4 DEF Boot!Loaded, BootInv, LockHasHolder, Boot!LockHasHolder
  <2>q. QED
    BY <1>4, <2>1, LeavesQueue DEF Boot!Loaded, Boot!Asks
<1>5. CASE Boot!LoadFails(a) \/ Boot!GivesUp(a)
  BY <1>5, LeavesQueue DEF Boot!LoadFails, Boot!GivesUp, Boot!Asks
<1>q. QED
  BY <1>2, <1>3, <1>4, <1>5 DEF Boot!Step

\* Every step of ProviderData keeps the table and its lock in order.
LEMMA BootInvStep == BootInv /\ [Next]_vars => BootInv'
<1> SUFFICES ASSUME BootInv, [Next]_vars PROVE BootInv'
  OBVIOUS
<1>1. CASE UNCHANGED bootVars
  BY <1>1 DEF bootVars, BootInv, Boot!TypeOK, LockHasHolder, Boot!LockHasHolder, Boot!Asks,
     NoNeedlessDownload, Boot!NoNeedlessDownload
<1>2. ASSUME NEW a \in Analyses, LookUpAddresses(a) PROVE BootInv'
  <2>1. /\ boot' = [boot EXCEPT ![a] = "idle"] /\ boot[a] \in {"table", "failed"}
        /\ UNCHANGED <<table, waiters>>
    BY <1>2 DEF LookUpAddresses, Boot!Goto
  <2>2. boot'[a] = "idle" /\ \A b \in Analyses \ {a} : boot'[b] = boot[b]
    BY <2>1 DEF BootInv, Boot!TypeOK
  <2>3. \A b \in Analyses : Boot!Asks(b)' <=> Boot!Asks(b)
    BY <2>1, <2>2 DEF Boot!Asks
  <2>q. QED
    BY <2>1, <2>2, <2>3 DEF BootInv, Boot!TypeOK, LockHasHolder, Boot!LockHasHolder,
       NoNeedlessDownload, Boot!NoNeedlessDownload
<1>3. CASE Boot!Expires
  BY <1>3 DEF Boot!Expires, BootInv, Boot!TypeOK, LockHasHolder, Boot!LockHasHolder, Boot!Asks,
     NoNeedlessDownload, Boot!NoNeedlessDownload
<1>q. QED
  BY <1>1, <1>2, <1>3, BootGet, BootStep DEF Next, LoadContext, Downloads, Works, Ends, Cleared,
     Passes, vars

LEMMA BootInvHolds == Spec => []BootInv
<1>1. Init => BootInv
  <2> SUFFICES ASSUME Init PROVE BootInv
    OBVIOUS
  <2>1. boot = [a \in Analyses |-> "idle"] /\ table = "absent" /\ waiters = <<>>
    BY DEF Init, Boot!Init
  <2>2. waiters \in Seq(Analyses) /\ DOMAIN waiters = {}
    BY <2>1, EmptySeq, LenProperties
  <2>q. QED
    BY <2>1, <2>2 DEF BootInv, Boot!TypeOK, LockHasHolder, Boot!LockHasHolder, Boot!Asks,
       NoNeedlessDownload, Boot!NoNeedlessDownload, Boot!ToSet, Boot!IsInjective
<1>q. QED
  BY <1>1, BootInvStep, PTL DEF Spec

\* LockHasHolder (get_instance of rdap_bootstrap.py): whoever asks for the table is in
\* the queue of the lock, once, and only the first of it downloads.
THEOREM LockIsHeld == Spec => []LockHasHolder
<1>1. BootInv => LockHasHolder
  BY DEF BootInv
<1>q. QED
  BY <1>1, BootInvHolds, PTL

\* NoNeedlessDownload: no table is downloaded while a valid one is there, however
\* many analyses asked for it at the same time.
THEOREM DownloadsAreNeeded == Spec => []NoNeedlessDownload
<1>1. BootInv => NoNeedlessDownload
  BY DEF BootInv
<1>q. QED
  BY <1>1, BootInvHolds, PTL

-----------------------------------------------------------------------------
(* The cache of GeoIP records *)

\* What the numbers of the cache are.
LEMMA CacheNumbers ==
    ASSUME CacheTypeOK
    PROVE  /\ now \in Nat /\ TTL \in Nat \ {0} /\ MaxEntries \in Nat \ {0}
           /\ \A k \in Stored : entries[k].expires \in Nat /\ entries[k].expires <= now + TTL
BY CacheAssumption DEF CacheTypeOK

\* The two modules count alike.
LEMMA SameCardinality == \A S : Promise!Cardinality(S) = Cardinality(S)
BY DEF Promise!Cardinality, Cardinality

\* A value that is put lives; of the others those that are kept do.
LEMMA PutIsPromised ==
    ASSUME CacheTypeOK, NEW kept \in SUBSET Alive, NEW k, NEW v, Put(kept, k, v), now' = now
    PROVE  Promise!Put(kept, k, v)
<1>1. /\ Stored' = kept \cup {k}
      /\ \A other \in kept \cup {k} : entries'[other] =
            IF other = k THEN [value |-> v, expires |-> now + TTL] ELSE entries[other]
  BY DEF Put, Stored
<1>2. \A other \in kept \cup {k} : ~Expired(other)'
  BY <1>1, CacheNumbers DEF Alive, Expired
<1>3. Alive' = kept \cup {k}
  BY <1>1, <1>2 DEF Alive
<1>4. ASSUME NEW other \in kept \cup {k}
      PROVE  [value |-> entries'[other].value, left |-> entries'[other].expires - now'] =
                 IF other = k THEN [value |-> v, left |-> TTL] ELSE Live[other]
  <2>1. CASE other = k
    BY <1>1, <2>1, CacheNumbers
  <2>2. CASE other # k
    BY <1>1, <2>2 DEF Live
  <2>q. QED
    BY <2>1, <2>2
<1>5. Live' = [other \in kept \cup {k} |->
                  IF other = k THEN [value |-> v, left |-> TTL] ELSE Live[other]]
  BY <1>3, <1>4 DEF Live
<1>q. QED
  BY <1>5 DEF Promise!Put

\* set of the dictionary is set of the promised cache.
LEMMA SetIsPromised ==
    ASSUME CacheTypeOK, NEW k, NEW v, Set(k, v), now' = now
    PROVE  Promise!Set(k, v)
<1>1. DOMAIN Live = Alive
  BY DEF Live
<1>2. CASE k \in Alive \/ Cardinality(Alive) < MaxEntries
  <2>1. Put(Alive, k, v)
    BY <1>2 DEF Set
  <2>2. Promise!Put(Alive, k, v)
    BY <2>1, PutIsPromised
  <2>3. Promise!Put(DOMAIN Live, k, v)
    BY <1>1, <2>2
  <2>q. QED
    BY <1>1, <1>2, <2>3, SameCardinality DEF Promise!Set
<1>3. CASE ~(k \in Alive \/ Cardinality(Alive) < MaxEntries)
  <2>1. PICK old \in Oldest(Alive) : Put(Alive \ {old}, k, v)
    BY <1>3 DEF Set
  <2>2. old \in Alive /\ \A other \in Alive : entries[old].expires <= entries[other].expires
    BY <2>1 DEF Oldest
  <2>3. \A other \in Alive : Live[other].left = entries[other].expires - now
    BY DEF Live
  <2>4. Promise!FirstToGo(old)
    BY <1>1, <2>2, <2>3, CacheNumbers DEF Promise!FirstToGo, Alive
  <2>5. Promise!Put(Alive \ {old}, k, v)
    BY <2>1, PutIsPromised
  <2>q. QED
    <3>1. /\ old \in DOMAIN Live
          /\ Promise!FirstToGo(old)
          /\ Promise!Put(DOMAIN Live \ {old}, k, v)
      BY <1>1, <2>2, <2>4, <2>5
    <3>2. ~(k \in DOMAIN Live \/ Cardinality(DOMAIN Live) < MaxEntries)
      BY <1>1, <1>3
    <3>q. QED
      BY <3>1, <3>2, SameCardinality DEF Promise!Set
<1>q. QED
  BY <1>2, <1>3

\* What is kept of the entries is what is kept of the promised ones.
LEMMA KeepIsPromised ==
    ASSUME NEW kept \in SUBSET Stored, Keep(kept), now' = now
    PROVE  Live' = [k \in kept \cap Alive |-> Live[k]]
<1>1. Stored' = kept /\ \A k \in kept : entries'[k] = entries[k]
  BY DEF Keep, Stored
<1>2. Alive' = kept \cap Alive
  BY <1>1 DEF Alive, Expired
<1>q. QED
  BY <1>1, <1>2 DEF Live

\* A get finds the entries on time, and only drops those that no one can read.
LEMMA GetIsPromised ==
    ASSUME NEW keys, Get(keys), now' = now
    PROVE  Live' = Live
<1> DEFINE kept == {k \in Stored : k \in keys => ~Expired(k)}
<1>1. kept \cap Alive = Alive
  BY DEF Alive
<1>2. Live' = [k \in kept \cap Alive |-> Live[k]]
  BY KeepIsPromised DEF Get
<1>q. QED
  BY <1>1, <1>2 DEF Live

LEMMA TickIsPromised ==
    ASSUME CacheTypeOK, Tick
    PROVE  Promise!Tick
<1>1. now' = now + 1 /\ Stored' = Stored /\ entries' = entries
  BY DEF Tick, Stored
<1>2. Alive' = {k \in DOMAIN Live : Live[k].left > 1}
  BY <1>1, CacheNumbers DEF Alive, Live, Expired
<1>3. ASSUME NEW k \in Alive'
      PROVE  [value |-> entries[k].value, left |-> entries[k].expires - now'] =
                 [Live[k] EXCEPT !.left = @ - 1]
  <2>1. k \in Alive /\ entries[k].expires \in Nat /\ now \in Nat
    BY <1>2, <1>3, CacheNumbers DEF Live, Alive
  <2>2. Live[k] = [value |-> entries[k].value, left |-> entries[k].expires - now]
    BY <2>1 DEF Live
  <2>3. entries[k].expires - now' = (entries[k].expires - now) - 1
    BY <1>1, <2>1
  <2>q. QED
    BY <2>2, <2>3
<1>4. Live' = [k \in {k \in DOMAIN Live : Live[k].left > 1} |-> [Live[k] EXCEPT !.left = @ - 1]]
  BY <1>1, <1>2, <1>3 DEF Live
<1>q. QED
  BY <1>1, <1>4 DEF Promise!Tick

-----------------------------------------------------------------------------
(* What is in the cache *)

\* An entry expires its time after its record was fetched: nothing is stored later
\* than it was fetched.
CacheInv ==
    /\ CacheTypeOK /\ IsFiniteSet(Stored)
    /\ \A k \in Stored : entries[k].value \in 0..now /\ entries[k].expires = entries[k].value + TTL

LEMMA KeepTypes ==
    ASSUME CacheInv, NEW kept \in SUBSET Stored, Keep(kept), now' = now
    PROVE  CacheInv'
<1>1. Stored' = kept /\ \A k \in kept : entries'[k] = entries[k]
  BY DEF Keep, Stored
<1>2. IsFiniteSet(kept) /\ Cardinality(kept) <= Cardinality(Stored)
      /\ Cardinality(kept) \in Nat /\ Cardinality(Stored) \in Nat
  BY FS_Subset, FS_CardinalityType DEF CacheInv
<1>q. QED
  BY <1>1, <1>2, CacheAssumption DEF CacheInv, CacheTypeOK

LEMMA PutTypes ==
    ASSUME CacheInv, NEW kept \in SUBSET Alive, NEW k \in Keys, Put(kept, k, now), now' = now,
           Cardinality(kept \cup {k}) <= MaxEntries
    PROVE  CacheInv'
<1>1. /\ Stored' = kept \cup {k}
      /\ \A other \in kept \cup {k} : entries'[other] =
            IF other = k THEN [value |-> now, expires |-> now + TTL] ELSE entries[other]
  BY DEF Put, Stored
<1>2. IsFiniteSet(kept \cup {k})
  <2>1. kept \in SUBSET Stored
    BY DEF Alive
  <2>q. QED
    BY <2>1, FS_Subset, FS_AddElement DEF CacheInv
<1>3. kept \cup {k} \subseteq Keys
  BY DEF Alive, CacheInv, CacheTypeOK
<1>4. ASSUME NEW other \in kept \cup {k}
      PROVE  /\ entries'[other].value \in Values /\ entries'[other].value \in 0..now
             /\ entries'[other].expires = entries'[other].value + TTL
             /\ entries'[other].expires \in TTL..now + TTL
  <2>1. now \in 0..MaxTime /\ TTL \in Nat
    BY CacheAssumption DEF CacheInv, CacheTypeOK
  <2>2. CASE other = k
    BY <1>1, <2>1, <2>2, CacheAssumption, RecordAssumption
  <2>3. CASE other # k
    <3>1. other \in Stored
      BY <2>3 DEF Alive
    <3>q. QED
      BY <1>1, <2>1, <2>3, <3>1 DEF CacheInv, CacheTypeOK
  <2>q. QED
    BY <2>2, <2>3
<1>q. QED
  BY <1>1, <1>2, <1>3, <1>4 DEF CacheInv, CacheTypeOK

LEMMA OneMore ==
    ASSUME NEW S, IsFiniteSet(S), NEW k
    PROVE  Cardinality(S) \in Nat /\ Cardinality(S \cup {k}) \in Nat
           /\ Cardinality(S \cup {k}) = IF k \in S THEN Cardinality(S) ELSE Cardinality(S) + 1
<1>1. Cardinality(S \cup {k}) = IF k \in S THEN Cardinality(S) ELSE Cardinality(S) + 1
  BY FS_AddElement
<1>2. Cardinality(S) \in Nat
  BY FS_CardinalityType
<1>q. QED
  BY <1>1, <1>2

LEMMA SetTypes ==
    ASSUME CacheInv, NEW k \in Keys, Set(k, now), now' = now
    PROVE  CacheInv'
<1>1. /\ IsFiniteSet(Alive) /\ Cardinality(Alive) \in Nat /\ Cardinality(Alive) <= MaxEntries
      /\ MaxEntries \in Nat
  <2>1. Alive \in SUBSET Stored
    BY DEF Alive
  <2>q. QED
    BY <2>1, FS_Subset, FS_CardinalityType, CacheAssumption DEF CacheInv, CacheTypeOK
<1>2. CASE k \in Alive \/ Cardinality(Alive) < MaxEntries
  <2>1. Cardinality(Alive \cup {k}) <= MaxEntries
    BY <1>1, <1>2, OneMore
  <2>2. Put(Alive, k, now)
    BY <1>2 DEF Set
  <2>q. QED
    BY <2>1, <2>2, PutTypes
<1>3. CASE ~(k \in Alive \/ Cardinality(Alive) < MaxEntries)
  <2>1. PICK old \in Alive : Put(Alive \ {old}, k, now)
    BY <1>3 DEF Set, Oldest
  <2>2. IsFiniteSet(Alive \ {old}) /\ Cardinality(Alive \ {old}) = Cardinality(Alive) - 1
    BY <1>1, <2>1, FS_RemoveElement
  <2>3. Cardinality((Alive \ {old}) \cup {k}) <= MaxEntries
    BY <1>1, <2>2, OneMore
  <2>q. QED
    BY <2>1, <2>3, PutTypes
<1>q. QED
  BY <1>2, <1>3

LEMMA TickTypes == CacheInv /\ Tick => CacheInv'
BY CacheAssumption DEF CacheInv, CacheTypeOK, Tick, Stored

-----------------------------------------------------------------------------
(* The lookups *)

LEMMA MinOfTwo ==
    ASSUME NEW x \in Nat, NEW y \in Nat
    PROVE  Min({x, y}) = IF x <= y THEN x ELSE y
BY DEF Min

LEMMA MaxOfTwo ==
    ASSUME NEW x \in Nat, NEW y \in Nat
    PROVE  Max({x, y}) = IF x >= y THEN x ELSE y
BY DEF Max

\* A wait is at least what was asked for, if that is within the cap, and at most
\* the cap.
LEMMA DelayBounds ==
    ASSUME NEW attempt \in 0..MaxRetries, NEW asked \in RetryAfter,
           NEW delay \in Delays(attempt, asked)
    PROVE  /\ delay \in Nat /\ Min({asked, MaxDelay}) \in Nat
           /\ Min({asked, MaxDelay}) <= delay /\ delay <= MaxDelay
<1> DEFINE growth == Backoff * 2^attempt
           base == Max({growth, asked})
<1>1. growth \in Nat
  <2>1. 2^attempt \in Nat /\ Backoff \in Nat
    BY PowerAssumption, RetryAssumption
  <2> DEFINE power == 2^attempt
  <2> HIDE DEF power
  <2>2. Backoff * power \in Nat
    BY <2>1 DEF power
  <2>q. QED
    BY <2>2 DEF power
<1>2. asked \in Nat /\ MaxDelay \in Nat /\ Jitter \in Nat
  BY RetryAssumption
<1>3. PICK jitter \in 0..Jitter : delay = Min({base + jitter, MaxDelay})
  BY DEF Delays
<1> HIDE DEF growth
<1>4. base \in Nat /\ base >= asked
  BY <1>1, <1>2, MaxOfTwo
<1> HIDE DEF base
<1>5. base + jitter \in Nat /\ base + jitter >= asked
  BY <1>2, <1>4
<1>6. delay = (IF base + jitter <= MaxDelay THEN base + jitter ELSE MaxDelay)
  BY <1>2, <1>3, <1>5, MinOfTwo
<1>7. Min({asked, MaxDelay}) = IF asked <= MaxDelay THEN asked ELSE MaxDelay
  BY <1>2, MinOfTwo
<1>q. QED
  BY <1>2, <1>5, <1>6, <1>7

\* What is known of one lookup: the records it took up are of times past, those it
\* has yet to store of this instant, and its pause is within bounds.
LookupOK(g) ==
    /\ g \in LookupStates
    /\ DOMAIN g.result \subseteq g.wanted /\ g.unstored \subseteq DOMAIN g.result
    /\ \A ip \in DOMAIN g.result : g.result[ip] <= now
    /\ g.pc # "storing" => g.unstored = {}
    /\ \A ip \in g.unstored : g.result[ip] = now
    /\ g.pc = "backoff" => g.owed <= g.wake /\ g.wake <= now + MaxDelay

GeoInv == geo \in [Analyses -> LookupStates] /\ \A a \in Analyses : LookupOK(geo[a])

LEMMA ResultType ==
    /\ \A found \in SUBSET Keys : \A r \in [found -> 0..MaxTime] : r \in Results
    /\ \A r \in Results : /\ DOMAIN r \subseteq Keys /\ r \in [DOMAIN r -> 0..MaxTime]
                            /\ \A ip \in DOMAIN r : r[ip] \in 0..MaxTime
BY DEF Results

LEMMA NotLookingOK == LookupOK(NotLooking) /\ LookupOK([NotLooking EXCEPT !.pc = "done"])
<1>1. Nothing \in Results /\ DOMAIN Nothing = {}
  <2>1. Nothing \in [{} -> 0..MaxTime]
    BY DEF Nothing
  <2>q. QED
    BY <2>1, ResultType
<1>2. 0 \in 0..MaxRetries
  BY RetryAssumption
<1>q. QED
  BY <1>1, <1>2 DEF LookupOK, NotLooking, LookupStates

LEMMA LookupMoves ==
    ASSUME GeoInv, NEW a \in Analyses, NEW g, LookupOK(g), geo' = [geo EXCEPT ![a] = g], now' = now
    PROVE  GeoInv'
<1>1. g \in LookupStates
  BY DEF LookupOK
<1>2. geo'[a] = g /\ \A b \in Analyses \ {a} : geo'[b] = geo[b]
  BY DEF GeoInv
<1>3. \A b \in Analyses : LookupOK(geo'[b])
  BY <1>2 DEF GeoInv
<1>4. \A b \in Analyses : LookupOK(geo[b])'
  BY <1>3 DEF LookupOK
<1>q. QED
  BY <1>1, <1>4 DEF GeoInv

\* The other lookups are where they were; this one is as described.
LEMMA LookupEndsWell ==
    ASSUME GeoInv, NEW a \in Analyses, now' = now,
           geo' = [geo EXCEPT ![a] = [NotLooking EXCEPT !.pc = "done"]]
    PROVE  GeoInv'
BY LookupMoves, NotLookingOK

LEMMA StartsWell ==
    ASSUME CacheInv, GeoInv, NEW a \in Analyses, NEW ips \in SUBSET Keys, lookup(a, ips)
    PROVE  CacheInv' /\ GeoInv'
<1> DEFINE found == [ip \in Found(ips) |-> entries[ip].value]
           g == [geo[a] EXCEPT !.pc = IF Found(ips) = ips THEN "done" ELSE "fetching",
                               !.wanted = ips, !.result = found]
<1>1. geo' = [geo EXCEPT ![a] = g] /\ now' = now /\ Get(ips)
  BY DEF lookup
<1>2. CacheInv'
  BY <1>1, KeepTypes DEF Get
<1>3. LookupOK(geo[a]) /\ geo[a].pc = "idle" /\ geo[a] \in LookupStates
  BY DEF GeoInv, lookup
<1>4. Found(ips) \subseteq ips /\ \A ip \in Found(ips) : entries[ip].value \in 0..now
  BY DEF CacheInv, Found
<1>5. now \in 0..MaxTime /\ MaxTime \in Nat
  BY CacheAssumption DEF CacheInv, CacheTypeOK
<1>6. found \in [Found(ips) -> 0..MaxTime] /\ Found(ips) \in SUBSET Keys
  BY <1>4, <1>5
<1>7. found \in Results /\ DOMAIN found = Found(ips)
      /\ \A ip \in DOMAIN found : found[ip] \in 0..now
  BY <1>4, <1>6, ResultType
<1> HIDE DEF found
<1>8. /\ g \in LookupStates /\ g.pc \in {"done", "fetching"}
      /\ g.wanted = ips /\ g.result = found /\ g.unstored = geo[a].unstored
  BY <1>3, <1>7 DEF LookupStates
<1>9. geo[a].unstored = {}
  BY <1>3 DEF LookupOK
<1>10. LookupOK(g)
  BY <1>4, <1>5, <1>7, <1>8, <1>9 DEF LookupOK
<1>q. QED
  BY <1>1, <1>2, <1>10, LookupMoves

LEMMA FetchedWell ==
    ASSUME CacheInv, GeoInv, NEW a \in Analyses, Fetched(a)
    PROVE  GeoInv'
<1>1. PICK answer \in SUBSET Keys :
          LET parsed == Parse(a, answer)
              old    == geo[a].result
          IN  geo' = [geo EXCEPT ![a] =
                  [@ EXCEPT !.pc = IF parsed = {} THEN "done" ELSE "storing",
                            !.result = [ip \in DOMAIN old \cup parsed |->
                                           IF ip \in parsed THEN now ELSE old[ip]],
                            !.unstored = parsed]]
  BY DEF Fetched
<1> DEFINE parsed == Parse(a, answer)
           old    == geo[a].result
           new    == [ip \in DOMAIN old \cup parsed |-> IF ip \in parsed THEN now ELSE old[ip]]
           g == [geo[a] EXCEPT !.pc = IF parsed = {} THEN "done" ELSE "storing",
                               !.result = new, !.unstored = parsed]
<1>2. geo' = [geo EXCEPT ![a] = g] /\ now' = now
  BY <1>1 DEF Fetched, cacheVars
<1>3. LookupOK(geo[a]) /\ geo[a] \in LookupStates /\ old \in Results
      /\ geo[a].wanted \in SUBSET Keys
  BY DEF GeoInv, LookupStates
<1>4. now \in 0..MaxTime /\ MaxTime \in Nat
  BY CacheAssumption DEF CacheInv, CacheTypeOK
<1>5. parsed \in SUBSET Keys /\ parsed \subseteq geo[a].wanted
  BY <1>3 DEF Parse
<1> HIDE DEF parsed
<1>6. DOMAIN old \subseteq geo[a].wanted /\ DOMAIN old \subseteq Keys
      /\ \A ip \in DOMAIN old : old[ip] \in 0..MaxTime /\ old[ip] <= now
  BY <1>3, ResultType DEF LookupOK
<1> HIDE DEF old
<1>7. new \in [DOMAIN old \cup parsed -> 0..MaxTime] /\ DOMAIN old \cup parsed \in SUBSET Keys
  BY <1>4, <1>5, <1>6
<1>8. new \in Results
  BY <1>7, ResultType
<1>9. /\ DOMAIN new = DOMAIN old \cup parsed
      /\ \A ip \in DOMAIN new : new[ip] <= now
      /\ \A ip \in parsed : new[ip] = now
  BY <1>4, <1>6
<1> HIDE DEF new
<1>10. /\ g \in LookupStates /\ g.pc = (IF parsed = {} THEN "done" ELSE "storing")
       /\ g.wanted = geo[a].wanted /\ g.result = new /\ g.unstored = parsed
  BY <1>3, <1>5, <1>8 DEF LookupStates
<1>11. LookupOK(g)
  BY <1>5, <1>6, <1>9, <1>10 DEF LookupOK
<1>q. QED
  BY <1>2, <1>11, LookupMoves

LEMMA StoreWell ==
    ASSUME CacheInv, GeoInv, NEW a \in Analyses, Store(a)
    PROVE  /\ CacheInv' /\ GeoInv'
           /\ \E ip \in Keys : Set(ip, now)
           /\ geo'[a].result = geo[a].result
<1>1. PICK ip \in geo[a].unstored :
          /\ Set(ip, geo[a].result[ip])
          /\ geo' = [geo EXCEPT ![a].unstored = @ \ {ip},
                                ![a].pc = IF geo[a].unstored = {ip} THEN "done" ELSE "storing"]
  BY DEF Store
<1> DEFINE g == [geo[a] EXCEPT !.unstored = @ \ {ip},
                               !.pc = IF geo[a].unstored = {ip} THEN "done" ELSE "storing"]
<1>2. LookupOK(geo[a]) /\ geo[a] \in LookupStates /\ now' = now /\ geo \in [Analyses -> LookupStates]
  BY DEF GeoInv, Store
<1>3. geo' = [geo EXCEPT ![a] = g]
  BY <1>1, <1>2
<1>4. ip \in Keys /\ geo[a].result[ip] = now
  BY <1>2 DEF LookupOK, LookupStates
<1>5. CacheInv'
  BY <1>1, <1>2, <1>4, SetTypes
<1>6. /\ g \in LookupStates /\ g.pc = (IF geo[a].unstored = {ip} THEN "done" ELSE "storing")
      /\ g.wanted = geo[a].wanted /\ g.result = geo[a].result
      /\ g.unstored = geo[a].unstored \ {ip}
  BY <1>2 DEF LookupStates
<1>7. LookupOK(g)
  BY <1>2, <1>6 DEF LookupOK
<1>8. GeoInv'
  BY <1>2, <1>3, <1>7, LookupMoves
<1>q. QED
  BY <1>1, <1>2, <1>3, <1>4, <1>5, <1>6, <1>8

LEMMA FailsWell ==
    ASSUME CacheInv, GeoInv, NEW a \in Analyses, FailsTransiently(a)
    PROVE  GeoInv'
<1>1. now' = now /\ LookupOK(geo[a]) /\ geo[a] \in LookupStates /\ geo[a].pc = "fetching"
  BY DEF FailsTransiently, cacheVars, GeoInv
<1>2. CASE geo[a].attempt < MaxRetries
  <2>1. PICK asked \in RetryAfter : \E delay \in Delays(geo[a].attempt, asked) :
            geo' = [geo EXCEPT ![a] =
                       [@ EXCEPT !.pc = "backoff", !.attempt = geo[a].attempt + 1,
                                 !.wake = now + delay, !.owed = now + Min({asked, MaxDelay})]]
    BY <1>2 DEF FailsTransiently
  <2>2. geo[a].attempt \in 0..MaxRetries /\ MaxRetries \in Nat /\ MaxDelay \in Nat
    BY <1>1, RetryAssumption DEF LookupStates
  <2> DEFINE least == Min({asked, MaxDelay})
  <2>3. PICK delay \in Delays(geo[a].attempt, asked) :
            geo' = [geo EXCEPT ![a] =
                       [@ EXCEPT !.pc = "backoff", !.attempt = geo[a].attempt + 1,
                                 !.wake = now + delay, !.owed = now + least]]
    BY <2>1
  <2> DEFINE new == [geo[a] EXCEPT !.pc = "backoff", !.attempt = geo[a].attempt + 1,
                                   !.wake = now + delay, !.owed = now + least]
  <2>4. delay \in Nat /\ least \in Nat /\ least <= delay /\ delay <= MaxDelay
    BY <2>2, DelayBounds
  <2> HIDE DEF least
  <2>5. now \in Nat
    BY CacheAssumption DEF CacheInv, CacheTypeOK
  <2>6. /\ geo[a].attempt + 1 \in 0..MaxRetries /\ now + delay \in Nat /\ now + least \in Nat
        /\ now + least <= now + delay /\ now + delay <= now + MaxDelay
    BY <1>2, <2>2, <2>4, <2>5
  <2>7. /\ new \in LookupStates /\ new.pc = "backoff" /\ new.wanted = geo[a].wanted
        /\ new.result = geo[a].result /\ new.unstored = geo[a].unstored
        /\ new.wake = now + delay /\ new.owed = now + least
    BY <1>1, <2>6 DEF LookupStates
  <2>8. LookupOK(new)
    BY <1>1, <2>6, <2>7 DEF LookupOK
  <2>q. QED
    BY <1>1, <2>3, <2>8, LookupMoves
<1>3. CASE ~(geo[a].attempt < MaxRetries)
  BY <1>1, <1>3, LookupEndsWell DEF FailsTransiently
<1>q. QED
  BY <1>2, <1>3

LEMMA RetryWell ==
    ASSUME GeoInv, NEW a \in Analyses, Retry(a)
    PROVE  GeoInv' /\ geo'[a].result = geo[a].result
<1> DEFINE g == [geo[a] EXCEPT !.pc = "fetching", !.wake = 0, !.owed = 0]
<1>1. /\ geo' = [geo EXCEPT ![a] = g] /\ now' = now /\ LookupOK(geo[a])
      /\ geo[a] \in LookupStates /\ geo[a].pc = "backoff" /\ geo \in [Analyses -> LookupStates]
  BY DEF Retry, cacheVars, GeoInv
<1>2. /\ g \in LookupStates /\ g.pc = "fetching" /\ g.wanted = geo[a].wanted
      /\ g.result = geo[a].result /\ g.unstored = geo[a].unstored
  BY <1>1 DEF LookupStates
<1>3. LookupOK(g)
  BY <1>1, <1>2 DEF LookupOK
<1>q. QED
  BY <1>1, <1>2, <1>3, LookupMoves

LEMMA TimePasses ==
    ASSUME CacheInv, GeoInv, Quiet, Tick, geo' = geo
    PROVE  CacheInv' /\ GeoInv'
<1>1. now \in Nat /\ now' = now + 1 /\ MaxDelay \in Nat
  BY CacheAssumption, RetryAssumption DEF Tick, CacheInv, CacheTypeOK
<1>2. ASSUME NEW a \in Analyses PROVE LookupOK(geo[a])'
  <2>1. LookupOK(geo[a]) /\ geo[a] \in LookupStates /\ geo[a].result \in Results
        /\ geo[a].wake \in Nat /\ geo[a].unstored = {}
    BY DEF GeoInv, Quiet, LookupOK, LookupStates
  <2>2. \A ip \in DOMAIN geo[a].result : geo[a].result[ip] \in Nat /\ geo[a].result[ip] <= now
    <3>1. MaxTime \in Nat /\ \A ip \in DOMAIN geo[a].result : geo[a].result[ip] \in 0..MaxTime
      BY <2>1, ResultType, CacheAssumption
    <3>q. QED
      BY <2>1, <3>1 DEF LookupOK
  <2>3. \A ip \in DOMAIN geo[a].result : geo[a].result[ip] <= now'
    BY <1>1, <2>2
  <2>4. geo[a].pc = "backoff" => geo[a].owed <= geo[a].wake /\ geo[a].wake <= now' + MaxDelay
    BY <1>1, <2>1 DEF LookupOK
  <2>q. QED
    BY <2>1, <2>3, <2>4 DEF LookupOK
<1>q. QED
  BY <1>2, TickTypes DEF GeoInv

LEMMA Settled ==
    ASSUME GeoInv, geo' = geo, now' = now
    PROVE  GeoInv'
BY DEF GeoInv, LookupOK

DataInv == CacheInv /\ GeoInv

\* Every step of ProviderData keeps the records and the lookups in order.
LEMMA DataInvStep == DataInv /\ [Next]_vars => DataInv'
<1> SUFFICES ASSUME CacheInv, GeoInv, [Next]_vars PROVE CacheInv' /\ GeoInv'
  BY DEF DataInv
<1>1. CacheInv /\ UNCHANGED cacheVars => CacheInv'
  BY DEF CacheInv, CacheTypeOK, cacheVars, Stored
<1>2. CASE UNCHANGED <<cacheVars, geo>>
  BY <1>1, <1>2, Settled DEF cacheVars
<1>3. ASSUME NEW a \in Analyses, LookUpAddresses(a) PROVE CacheInv' /\ GeoInv'
  BY <1>3, StartsWell DEF LookUpAddresses
<1>4. ASSUME NEW a \in Analyses, Works(a) PROVE CacheInv' /\ GeoInv'
  <2>1. UNCHANGED cacheVars
    BY <1>4 DEF Works, GeoStep, Fetched, FailsTransiently, LookupEnds, Retry
  <2>2. LookupEnds(a) => GeoInv'
    BY LookupEndsWell DEF LookupEnds, cacheVars
  <2>q. QED
    BY <1>1, <1>4, <2>1, <2>2, FetchedWell, FailsWell, RetryWell DEF Works, GeoStep
<1>5. ASSUME NEW a \in Analyses, Ends(a) PROVE CacheInv' /\ GeoInv'
  BY <1>1, <1>5, LookupMoves, NotLookingOK DEF Ends, cacheVars
<1>6. CASE Cleared
  <2>1. now' = now /\ geo' = geo /\ \E kept \in SUBSET Stored : Keep(kept)
    BY <1>6 DEF Cleared, Clear, Delete
  <2>q. QED
    BY <2>1, KeepTypes, Settled
<1>7. CASE Quiet /\ Passes
  BY <1>7, TimePasses DEF Passes
<1>8. ASSUME NEW a \in Analyses, Store(a) PROVE CacheInv' /\ GeoInv'
  BY <1>8, StoreWell
<1>q. QED
  BY <1>2, <1>3, <1>4, <1>5, <1>6, <1>7, <1>8 DEF Next, LoadContext, Downloads, vars

LEMMA DataInvHolds == Spec => []DataInv
<1>1. Init => DataInv
  <2> SUFFICES ASSUME Init PROVE CacheInv /\ GeoInv
    BY DEF DataInv
  <2>1. entries = <<>> /\ now = 0 /\ geo = [a \in Analyses |-> NotLooking]
    BY DEF Init, CacheInit, GeoInit
  <2>2. Stored = {}
    BY <2>1 DEF Stored
  <2>3. CacheInv
    BY <2>1, <2>2, FS_EmptySet, CacheAssumption DEF CacheInv, CacheTypeOK
  <2>4. GeoInv
    BY <2>1, NotLookingOK DEF GeoInv, LookupOK
  <2>q. QED
    BY <2>3, <2>4
<1>q. QED
  BY <1>1, DataInvStep, PTL DEF Spec

-----------------------------------------------------------------------------
(* The theorems of the records *)

\* TypeOK: the table and its queue, the bound of the cache and its times, and
\* lookups that store no more than they found and find no more than they want
\* (rdap_bootstrap.py, ttl_cache.py, geoip.py).
THEOREM TypeCorrect == Spec => []TypeOK
<1>1. BootInv /\ DataInv => TypeOK
  BY DEF BootInv, DataInv, CacheInv, GeoInv, LookupOK, TypeOK, GeoTypeOK
<1>q. QED
  BY <1>1, BootInvHolds, DataInvHolds, PTL

\* PauseInBounds (run_with_retries of http.py): a provider gets the pause it asks
\* for, up to the cap, and no pause is longer than the cap.
THEOREM PausesAreInBounds == Spec => []PauseInBounds
<1>1. DataInv => PauseInBounds
  BY DEF DataInv, GeoInv, LookupOK, PauseInBounds
<1>q. QED
  BY <1>1, DataInvHolds, PTL

\* A record that a lookup takes up is within its time.
LEMMA TakesFreshRecords ==
    ASSUME DataInv, [Next]_vars, NEW a \in Analyses, NEW ip \in DOMAIN geo'[a].result
    PROVE  \/ ip \in DOMAIN geo[a].result /\ geo'[a].result[ip] = geo[a].result[ip]
           \/ ip \in geo'[a].wanted /\ geo'[a].result[ip] > now - TTL
<1>1. now \in Nat /\ TTL \in Nat \ {0} /\ geo \in [Analyses -> LookupStates]
  BY CacheAssumption DEF DataInv, CacheInv, CacheTypeOK, GeoInv
<1>2. CASE geo'[a].result = geo[a].result
  BY <1>2
<1>3. DOMAIN Nothing = {} /\ \A g \in {NotLooking, [NotLooking EXCEPT !.pc = "done"]} : g.result = Nothing
  BY DEF Nothing, NotLooking
<1>4. ASSUME NEW b \in Analyses, NEW g \in {NotLooking, [NotLooking EXCEPT !.pc = "done"]},
             geo' = [geo EXCEPT ![b] = g]
      PROVE  geo'[a].result = geo[a].result
  <2>1. CASE a = b
    BY <1>1, <1>3, <1>4, <2>1
  <2>2. CASE a # b
    BY <1>1, <1>4, <2>2
  <2>q. QED
    BY <2>1, <2>2
<1>5. ASSUME NEW b \in Analyses, NEW ips \in SUBSET Keys, lookup(b, ips), b = a
      PROVE  ip \in geo'[a].wanted /\ geo'[a].result[ip] > now - TTL
  <2>1. /\ geo'[a].wanted = ips
        /\ geo'[a].result = [k \in Found(ips) |-> entries[k].value]
    BY <1>1, <1>5 DEF lookup, LookupStates
  <2>2. ip \in ips /\ ip \in Stored /\ ~Expired(ip) /\ geo'[a].result[ip] = entries[ip].value
    BY <2>1 DEF Found
  <2>3. entries[ip].value \in 0..now /\ entries[ip].expires = entries[ip].value + TTL
    BY <2>2 DEF DataInv, CacheInv
  <2>q. QED
    BY <1>1, <2>1, <2>2, <2>3 DEF Expired
<1>6. ASSUME NEW b \in Analyses, Fetched(b), b = a
      PROVE  \/ ip \in DOMAIN geo[a].result /\ geo'[a].result[ip] = geo[a].result[ip]
             \/ ip \in geo'[a].wanted /\ geo'[a].result[ip] > now - TTL
  <2>0. Fetched(a)
    BY <1>6
  <2>1. PICK answer \in SUBSET Keys :
            LET parsed == Parse(a, answer)
                old    == geo[a].result
            IN  geo' = [geo EXCEPT ![a] =
                    [@ EXCEPT !.pc = IF parsed = {} THEN "done" ELSE "storing",
                              !.result = [k \in DOMAIN old \cup parsed |->
                                             IF k \in parsed THEN now ELSE old[k]],
                              !.unstored = parsed]]
    BY <2>0 DEF Fetched
  <2> DEFINE parsed == Parse(a, answer)
  <2>2. /\ geo'[a].wanted = geo[a].wanted
        /\ geo'[a].result = [k \in DOMAIN geo[a].result \cup parsed |->
                                 IF k \in parsed THEN now ELSE geo[a].result[k]]
    BY <1>1, <2>1 DEF LookupStates
  <2>3. parsed \subseteq geo[a].wanted
    BY DEF Parse
  <2> HIDE DEF parsed
  <2>4. CASE ip \in parsed
    BY <1>1, <2>2, <2>3, <2>4
  <2>5. CASE ip \notin parsed
    BY <2>2, <2>5
  <2>q. QED
    BY <2>4, <2>5
<1>7. ASSUME NEW b \in Analyses, Store(b) PROVE geo'[a].result = geo[a].result
  <2>1. CASE a = b
    BY <1>7, <2>1, StoreWell DEF DataInv
  <2>2. CASE a # b
    BY <1>1, <1>7, <2>2 DEF Store
  <2>q. QED
    BY <2>1, <2>2
<1>8. ASSUME NEW b \in Analyses, b # a,
             Fetched(b) \/ FailsTransiently(b) \/ Retry(b) \/ \E ips \in SUBSET Keys : lookup(b, ips)
      PROVE  geo'[a].result = geo[a].result
  BY <1>1, <1>8 DEF Fetched, FailsTransiently, Retry, lookup
<1>9. ASSUME FailsTransiently(a) PROVE geo'[a].result = geo[a].result
  <2>1. CASE geo[a].attempt < MaxRetries
    BY <1>1, <1>9, <2>1 DEF FailsTransiently, LookupStates
  <2>2. CASE ~(geo[a].attempt < MaxRetries)
    BY <1>4, <1>9, <2>2 DEF FailsTransiently
  <2>q. QED
    BY <2>1, <2>2
<1>10. Retry(a) => geo'[a].result = geo[a].result
  BY RetryWell DEF DataInv
<1>11. ASSUME NEW b \in Analyses, LookupEnds(b) \/ Ends(b) PROVE geo'[a].result = geo[a].result
  BY <1>4, <1>11 DEF LookupEnds, Ends
<1>12. ASSUME NEW b \in Analyses, LookUpAddresses(b)
       PROVE \E ips \in SUBSET Keys : lookup(b, ips)
  BY <1>12 DEF LookUpAddresses
<1>13. CASE geo' = geo
  BY <1>13
<1>q. QED
  BY <1>2, <1>5, <1>6, <1>7, <1>8, <1>9, <1>10, <1>11, <1>12, <1>13
     DEF Next, LoadContext, Downloads, Works, GeoStep, Cleared, Passes, vars

\* FreshRecords (lookup of geoip.py over ttl_cache.py): a lookup takes up no record
\* that is older than its time, and none of an address it was not asked about.
THEOREM RecordsAreFresh == Spec => FreshRecords
<1>1. DataInv /\ [Next]_vars =>
        [\A a \in Analyses : \A ip \in DOMAIN geo'[a].result :
          \/ ip \in DOMAIN geo[a].result /\ geo'[a].result[ip] = geo[a].result[ip]
          \/ ip \in geo'[a].wanted /\ geo'[a].result[ip] > now - TTL]_geo
  BY TakesFreshRecords
<1>q. QED
  BY <1>1, DataInvHolds, PTL DEF Spec, FreshRecords

\* KeepsPromise: the dictionary of AsyncTTLCache, with its lazy removals, implements
\* a cache that drops every value on time.
THEOREM CacheKeepsPromise == Spec => KeepsPromise
<1>1. Init => Promise!Init
  <2> SUFFICES ASSUME Init PROVE Live = <<>> /\ now = 0
    BY DEF Promise!Init
  <2>1. entries = <<>> /\ now = 0
    BY DEF Init, CacheInit
  <2>2. Alive = {}
    BY <2>1 DEF Alive, Stored
  <2>q. QED
    BY <2>1, <2>2 DEF Live
<1>2. DataInv /\ [Next]_vars => [Promise!Next]_(Promise!vars)
  <2> SUFFICES ASSUME CacheInv, GeoInv, [Next]_vars
               PROVE  Promise!Next \/ (Live' = Live /\ now' = now)
    BY DEF DataInv, Promise!vars
  <2>1. CacheTypeOK
    BY DEF CacheInv
  <2>2. CASE UNCHANGED cacheVars
    BY <2>2 DEF cacheVars, Live, Alive, Stored, Expired
  <2>3. ASSUME NEW a \in Analyses, LookUpAddresses(a) PROVE Live' = Live /\ now' = now
    BY <2>3, GetIsPromised DEF LookUpAddresses, lookup
  <2>4. ASSUME NEW a \in Analyses, Store(a) PROVE Promise!Next
    <3>1. PICK ip \in Keys : Set(ip, now)
      BY <2>4, StoreWell
    <3>2. now \in Values /\ now' = now
      BY <2>1, <2>4, RecordAssumption DEF CacheTypeOK, Store
    <3>3. Promise!Set(ip, now)
      BY <2>1, <3>1, <3>2, SetIsPromised
    <3>q. QED
      BY <3>2, <3>3 DEF Promise!Next
  <2>5. ASSUME NEW a \in Analyses, Works(a) PROVE UNCHANGED cacheVars
    BY <2>5 DEF Works, GeoStep, Fetched, FailsTransiently, LookupEnds, Retry
  <2>6. CASE Cleared
    <3>1. now' = now /\ DOMAIN Live = Alive /\ Alive \subseteq Keys
      BY <2>1, <2>6 DEF Cleared, Live, Alive, CacheTypeOK
    <3>2. CASE Clear
      <4>1. Live' = [k \in {} \cap Alive |-> Live[k]]
        BY <3>1, <3>2, KeepIsPromised DEF Clear
      <4>2. {} \cap Alive = Alive \ Keys
        BY <3>1
      <4>q. QED
        BY <3>1, <4>1, <4>2 DEF Promise!Next, Promise!Delete
    <3>3. ASSUME NEW k \in Keys, Delete(k) PROVE Promise!Next
      <4>1. Live' = [other \in (Stored \ {k}) \cap Alive |-> Live[other]]
        BY <3>1, <3>3, KeepIsPromised DEF Delete
      <4>2. (Stored \ {k}) \cap Alive = Alive \ {k}
        BY DEF Alive
      <4>3. Promise!Delete({k})
        BY <3>1, <4>1, <4>2 DEF Promise!Delete
      <4>q. QED
        BY <4>3 DEF Promise!Next
    <3>q. QED
      BY <2>6, <3>2, <3>3 DEF Cleared
  <2>7. CASE Passes
    BY <2>1, <2>7, TickIsPromised DEF Passes, Promise!Next
  <2>q. QED
    BY <2>2, <2>3, <2>4, <2>5, <2>6, <2>7 DEF Next, LoadContext, Downloads, Ends, vars, cacheVars
<1>q. QED
  BY <1>1, <1>2, DataInvHolds, PTL DEF Spec, KeepsPromise, Promise!Spec
=============================================================================
