--------------------------- MODULE HTTPProbeProofs ---------------------------
(* The theorems of HTTPProbe: type correctness, and the three promises of a  *)
(* probe, each from an inductive invariant about the hop it is at.           *)
EXTENDS HTTPProbe, TLAPS

-----------------------------------------------------------------------------
\* TypeOK: a probe is only ever at a known URL and address, and counts its
\* attempts to at most HTTP_MAX_RETRIES (http_headers.py).
LEMMA InitTypes == Init => TypeOK
<1> SUFFICES ASSUME Init PROVE TypeOK
  OBVIOUS
<1>1. PICK addresses \in SUBSET Addresses :
          /\ ip \in addresses
          /\ seen = [h \in Hosts |-> IF h = HostOf[url] THEN addresses ELSE {}]
  BY DEF Init
<1>2. seen \in [Hosts -> SUBSET Addresses]
  BY <1>1
<1>3. chain \in Seq(Urls) /\ trail \in Seq(Urls)
  BY DEF Init
<1>q. QED
  BY <1>1, <1>2, <1>3, ProbeAssumption DEF Init, TypeOK

LEMMA FollowTypes ==
    ASSUME TypeOK, NEW addresses \in SUBSET Addresses, Follow(addresses), UNCHANGED <<next, trail>>
    PROVE  TypeOK'
<1>1. seen' \in [Hosts -> SUBSET Addresses]
  BY DEF Follow, TypeOK
<1>2. chain' \in Seq(Urls)
  BY DEF Follow, TypeOK
<1>3. trail' \in Seq(Urls)
  BY DEF TypeOK
<1>q. QED
  BY <1>1, <1>2, <1>3, ProbeAssumption DEF Follow, Sends, TypeOK

LEMMA StepTypes == TypeOK /\ [Next]_vars => TypeOK'
<1> SUFFICES ASSUME TypeOK, [Next]_vars PROVE TypeOK'
  OBVIOUS
<1> USE ProbeAssumption
<1>1. CASE HeadNotAllowed
  BY <1>1 DEF HeadNotAllowed, Sends, TypeOK
<1>2. CASE RequestFails
  BY <1>2 DEF RequestFails, Over, TypeOK
<1>3. CASE Retry
  BY <1>3 DEF Retry, Sends, TypeOK
<1>4. CASE Answered \/ Refused \/ Cancelled
  BY <1>4 DEF Answered, Refused, Cancelled, Becomes, Over, TypeOK
<1>5. ASSUME NEW to \in Urls, Redirected(to) PROVE TypeOK'
  <2>1. trail' \in Seq(Urls)
    BY <1>5 DEF Redirected, TypeOK
  <2>q. QED
    BY <1>5, <2>1 DEF Redirected, Over, TypeOK
<1>6. CASE Guarded
  <2>1. PICK addresses \in SUBSET Addresses :
            \/ Follow(addresses)
            \/ pc' = "unreachable" /\ UNCHANGED <<url, ip, attempt, chain, seen, requests>>
    BY <1>6 DEF Guarded
  <2>2. UNCHANGED <<next, trail>>
    BY <1>6 DEF Guarded
  <2>3. CASE pc' = "unreachable" /\ UNCHANGED <<url, ip, attempt, chain, seen, requests>>
    BY <2>2, <2>3 DEF Over, TypeOK
  <2>q. QED
    BY <2>1, <2>2, <2>3, FollowTypes
<1>7. CASE UNCHANGED vars
  BY <1>7 DEF vars, TypeOK
<1>q. QED
  BY <1>1, <1>2, <1>3, <1>4, <1>5, <1>6, <1>7 DEF Next

THEOREM TypeCorrect == Spec => []TypeOK
<1>q. QED
  BY InitTypes, StepTypes, PTL DEF Spec

-----------------------------------------------------------------------------
\* PinnedToGuarded: every request goes to a public address at which the guard
\* has seen its host, whatever names resolve to (network_guard.py).
LEMMA PinnedStep == TypeOK /\ PinnedToGuarded /\ [Next]_vars => PinnedToGuarded'
<1> SUFFICES ASSUME TypeOK, PinnedToGuarded, [Next]_vars PROVE PinnedToGuarded'
  OBVIOUS
<1>1. CASE UNCHANGED <<url, ip, seen>> /\ (pc' \in {"head", "get", "backoff"}
                                             => pc \in {"head", "get", "backoff"})
  BY <1>1 DEF PinnedToGuarded
<1>2. ASSUME NEW addresses \in SUBSET Addresses, Allowed(addresses), Follow(addresses)
      PROVE  PinnedToGuarded'
  <2>1. HostOf[url'] \in Hosts /\ url' = next
    BY <1>2, ProbeAssumption DEF Follow, TypeOK
  <2>2. seen'[HostOf[url']] = addresses
    BY <1>2, <2>1 DEF Follow, TypeOK
  <2>q. QED
    BY <1>2, <2>2 DEF Follow, Allowed, PinnedToGuarded
<1>3. CASE Guarded
  BY <1>1, <1>2, <1>3 DEF Guarded
<1>4. CASE ~Guarded
  BY <1>1, <1>4 DEF Next, HeadNotAllowed, RequestFails, Retry, Answered, Refused, Redirected,
     Cancelled, Requesting, Becomes, Over, Sends, vars
<1>q. QED
  BY <1>3, <1>4

THEOREM RequestsArePinned == Spec => []PinnedToGuarded
<1>1. Init => PinnedToGuarded
  BY ProbeAssumption DEF Init, Allowed, PinnedToGuarded
<1>q. QED
  BY <1>1, PinnedStep, TypeCorrect, PTL DEF Spec

-----------------------------------------------------------------------------
\* The strengthening of ChainExplains: while the guard looks at the next host,
\* the last redirect is the one that led there, and there is room for it.
Path == Append(chain, url)
ChainInv ==
    /\ ChainExplains
    /\ Len(chain) <= MaxRedirects
    /\ pc = "guard" => trail = Append(Path, next) /\ Len(chain) < MaxRedirects

LEMMA ChainStep == TypeOK /\ ChainInv /\ [Next]_vars => ChainInv'
<1> SUFFICES ASSUME TypeOK, ChainInv, [Next]_vars PROVE ChainInv'
  OBVIOUS
<1>1. Len(chain) \in Nat /\ MaxRedirects \in Nat /\ Len(chain) <= MaxRedirects
  BY ProbeAssumption DEF TypeOK, ChainInv
<1>2. /\ trail \in {Path} \cup {Append(Path, to) : to \in Urls}
      /\ pc \in {"head", "get", "backoff"} => trail = Path
      /\ pc = "answered" /\ Len(chain) < MaxRedirects => trail = Path
      /\ pc = "guard" => trail = Append(Path, next) /\ Len(chain) < MaxRedirects
  BY DEF ChainInv, ChainExplains, Path
<1>3. ASSUME trail' \in {Path'} \cup {Append(Path', to) : to \in Urls},
             pc' \in {"head", "get", "backoff"} => trail' = Path',
             pc' = "answered" /\ Len(chain') < MaxRedirects => trail' = Path',
             pc' = "guard" => trail' = Append(Path', next') /\ Len(chain') < MaxRedirects,
             Len(chain') <= MaxRedirects
      PROVE  ChainInv'
  BY <1>3 DEF ChainInv, ChainExplains, Path
<1>4. ASSUME UNCHANGED <<url, chain>> PROVE Path' = Path
  BY <1>4 DEF Path
<1>5. CASE /\ UNCHANGED <<url, chain, trail>> /\ pc' \in {"head", "get", "backoff"} \cup Over
           /\ pc' \in {"head", "get", "backoff", "answered"} => pc \in {"head", "get", "backoff"}
  BY <1>1, <1>2, <1>3, <1>4, <1>5 DEF Over
<1>6. ASSUME NEW to \in Urls, Redirected(to) PROVE ChainInv'
  <2>1. trail = Path /\ Path' = Path /\ trail' = Append(Path', to) /\ chain' = chain
    BY <1>2, <1>4, <1>6 DEF Redirected, Requesting
  <2>2. CASE Len(chain) = MaxRedirects
    BY <1>1, <1>3, <1>6, <2>1, <2>2 DEF Redirected
  <2>3. CASE Len(chain) # MaxRedirects
    BY <1>1, <1>3, <1>6, <2>1, <2>3 DEF Redirected
  <2>q. QED
    BY <2>2, <2>3
<1>7. ASSUME NEW addresses, pc = "guard", Follow(addresses), trail' = trail PROVE ChainInv'
  <2>1. chain' = Path /\ url' = next /\ pc' = "head"
    BY <1>7 DEF Follow, Sends, Path
  <2>2. Len(chain') = Len(chain) + 1
    BY <2>1 DEF TypeOK, Path
  <2>3. trail' = Path'
    BY <1>2, <1>7, <2>1 DEF Path
  <2>q. QED
    BY <1>1, <1>2, <1>3, <1>7, <2>1, <2>2, <2>3
<1>8. CASE Guarded
  <2>1. CASE pc' = "unreachable" /\ UNCHANGED <<url, ip, attempt, chain, seen, requests>>
    BY <1>1, <1>2, <1>3, <1>4, <1>8, <2>1 DEF Guarded, TypeOK
  <2>q. QED
    BY <1>7, <1>8, <2>1 DEF Guarded
<1>9. CASE Cancelled
  BY <1>1, <1>2, <1>3, <1>4, <1>9 DEF Cancelled, Becomes, TypeOK
<1>10. CASE UNCHANGED vars
  BY <1>1, <1>2, <1>3, <1>4, <1>10 DEF vars
<1>11. CASE HeadNotAllowed \/ RequestFails \/ Retry \/ Answered \/ Refused
  BY <1>5, <1>11 DEF HeadNotAllowed, RequestFails, Retry, Answered, Refused, Requesting,
     Becomes, Over, Sends
<1>q. QED
  BY <1>6, <1>8, <1>9, <1>10, <1>11 DEF Next

LEMMA ChainInvariant == Spec => []ChainInv
<1>1. Init => ChainInv
  BY ProbeAssumption DEF Init, ChainInv, ChainExplains, Path
<1>q. QED
  BY <1>1, ChainStep, TypeCorrect, PTL DEF Spec

\* ChainExplains: the reported chain leads from the URL the probe began with to its
\* final one by the redirects that were sent, all of them and in their order, but for
\* a last one the guard refused or HTTP_MAX_REDIRECTS forbade to follow.
THEOREM ChainIsExplained == Spec => []ChainExplains
<1>1. ChainInv => ChainExplains
  BY DEF ChainInv
<1>q. QED
  BY <1>1, ChainInvariant, PTL

-----------------------------------------------------------------------------
\* The requests of one hop, and those of the attempt the probe is at.
PerHop == 2 * (MaxRetries + 1)
InAttempt == IF pc = "backoff" THEN 0 ELSE IF pc = "head" THEN 1 ELSE 2

\* The strengthening of RequestBudget: every hop left behind has cost PerHop at
\* most, every attempt left behind at this hop two requests.
BudgetInv == requests <= PerHop * Len(chain) + 2 * attempt + InAttempt

LEMMA BudgetStep == TypeOK /\ BudgetInv /\ [Next]_vars => BudgetInv'
<1> SUFFICES ASSUME TypeOK, BudgetInv, [Next]_vars PROVE BudgetInv'
  OBVIOUS
<1> DEFINE past == PerHop * Len(chain)
<1>1. PerHop \in Nat /\ Len(chain) \in Nat /\ requests \in Nat /\ attempt \in Nat
      /\ attempt <= MaxRetries /\ MaxRetries \in Nat
  BY ProbeAssumption DEF TypeOK, PerHop
<1>2. past \in Nat
  BY <1>1
<1>3. requests <= past + 2 * attempt + InAttempt /\ InAttempt \in 0..2
  BY DEF BudgetInv, InAttempt
<1>4. ASSUME NEW addresses, Follow(addresses) PROVE BudgetInv'
  <2>1. Len(chain') = Len(chain) + 1
    BY <1>4 DEF Follow, TypeOK
  <2>2. PerHop * Len(chain') = past + PerHop
    BY <1>1, <2>1
  <2>3. requests + 1 <= past + PerHop + 1
    BY <1>1, <1>2, <1>3 DEF PerHop
  <2>q. QED
    BY <1>1, <1>2, <1>4, <2>2, <2>3 DEF Follow, Sends, BudgetInv, InAttempt
<1>5. ASSUME UNCHANGED chain, requests' <= past + 2 * attempt' + InAttempt' PROVE BudgetInv'
  BY <1>5 DEF BudgetInv, PerHop
<1> HIDE DEF past
<1>6. CASE HeadNotAllowed
  BY <1>1, <1>2, <1>3, <1>5, <1>6 DEF HeadNotAllowed, Sends, InAttempt
<1>7. CASE RequestFails
  BY <1>1, <1>2, <1>3, <1>5, <1>7 DEF RequestFails, Requesting, InAttempt
<1>8. CASE Retry
  BY <1>1, <1>2, <1>3, <1>5, <1>8 DEF Retry, Sends, InAttempt
<1>9. CASE Answered \/ Refused \/ Cancelled \/ \E to \in Urls : Redirected(to)
  BY <1>1, <1>2, <1>3, <1>5, <1>9 DEF Answered, Refused, Cancelled, Redirected, Becomes, Over, InAttempt
<1>10. CASE Guarded
  BY <1>1, <1>2, <1>3, <1>4, <1>5, <1>10 DEF Guarded, InAttempt
<1>11. CASE UNCHANGED vars
  BY <1>3, <1>5, <1>11 DEF vars, InAttempt
<1>q. QED
  BY <1>6, <1>7, <1>8, <1>9, <1>10, <1>11 DEF Next

\* RequestBudget: redirects, retries and the GET after a refused HEAD multiply to
\* no more than 2 * (HTTP_MAX_REDIRECTS + 1) * (HTTP_MAX_RETRIES + 1) requests.
THEOREM RequestsAreBounded == Spec => []RequestBudget
<1>1. Init => BudgetInv
  BY ProbeAssumption DEF Init, BudgetInv, InAttempt, PerHop
<1>2. TypeOK /\ ChainInv /\ BudgetInv => RequestBudget
  <2> SUFFICES ASSUME TypeOK, ChainInv, BudgetInv PROVE RequestBudget
    OBVIOUS
  <2>1. PerHop \in Nat /\ Len(chain) \in Nat /\ requests \in Nat /\ attempt \in Nat
        /\ attempt <= MaxRetries /\ MaxRetries \in Nat /\ Len(chain) <= MaxRedirects
        /\ MaxRedirects \in Nat /\ InAttempt \in 0..2
    BY ProbeAssumption DEF TypeOK, PerHop, ChainInv, InAttempt
  <2>2. requests <= PerHop * Len(chain) + PerHop
    BY <2>1 DEF BudgetInv, PerHop
  <2>3. PerHop * Len(chain) <= PerHop * MaxRedirects
    BY <2>1
  <2>4. 2 * (MaxRedirects + 1) * (MaxRetries + 1) = PerHop * MaxRedirects + PerHop
    BY <2>1 DEF PerHop
  <2>q. QED
    BY <2>1, <2>2, <2>3, <2>4 DEF RequestBudget
<1>q. QED
  BY <1>1, <1>2, BudgetStep, ChainInvariant, TypeCorrect, PTL DEF Spec
=============================================================================
