--------------------------- MODULE RDAPLookupProofs ---------------------------
(* The flag of the probe, for any number of lookups, domains and providers. *)
EXTENDS RDAPLookup, TLAPS

\* A lookup that is under way is at one of its servers.
LEMMA AtServer ==
    ASSUME TypeOK, NEW q \in Lookups, pc[q] # "idle"
    PROVE  Server(q) \in Providers
<1>1. /\ domain[q] \in Domains /\ ServersOf[domain[q]] \in Seq(Providers)
      /\ next[q] \in 1..Len(ServersOf[domain[q]])
  BY LookupAssumption DEF TypeOK
<1>q. QED
  BY <1>1 DEF Server

\* The methods of the breaker keep the type of the circuits.
LEMMA CircuitTypes ==
    ASSUME circuit \in [Providers -> Circuits], NEW s \in Providers,
           BeforeCall(s) \/ RecordSuccess(s) \/ RecordFailure(s) \/ ReleaseProbe(s) \/ CoolDown(s)
    PROVE  /\ circuit' \in [Providers -> Circuits]
           /\ \A t \in Providers \ {s} : circuit'[t] = circuit[t]
<1> USE ThresholdAssumption
<1>1. Failures(s) \in 0..FailureThreshold
  BY DEF Failures, Circuits
<1>2. CASE BeforeCall(s)
  <2>1. HalfOpen(s) \in BOOLEAN
    BY DEF HalfOpen
  <2>q. QED
    BY <1>2, <2>1 DEF BeforeCall, Circuits
<1>3. CASE RecordSuccess(s)
  BY <1>3 DEF RecordSuccess, Closed, Circuits
<1>4. CASE RecordFailure(s)
  BY <1>1, <1>4 DEF RecordFailure, Circuits
<1>5. CASE ReleaseProbe(s)
  BY <1>5 DEF ReleaseProbe, Circuits
<1>6. CASE CoolDown(s)
  BY <1>6 DEF CoolDown, Circuits
<1>q. QED
  BY <1>2, <1>3, <1>4, <1>5, <1>6

\* The end of a call keeps the types, and touches its own server and lookup only.
LEMMA EndTypes ==
    ASSUME TypeOK, NEW q \in Lookups, Calling(q), NEW i \in Nat, CallEnds(q), GotoServer(q, i),
           \/ RecordSuccess(Server(q)) \/ RecordFailure(Server(q)) \/ ReleaseProbe(Server(q)),
           cache' \in [Domains -> {"record", "none"}]
    PROVE  TypeOK'
<1>1. Server(q) \in Providers
  BY AtServer DEF Calling
<1>2. circuit' \in [Providers -> Circuits]
  BY <1>1, CircuitTypes DEF TypeOK
<1>3. \A p \in Lookups : pc'[p] # "idle" => next'[p] \in 1..Len(ServersOf[domain'[p]])
  BY DEF GotoServer, Goto, CallEnds, TypeOK
<1>4. stray' \in [Providers -> BOOLEAN]
  BY <1>1 DEF CallEnds, TypeOK
<1>5. /\ pc' \in [Lookups -> {"idle", "resolve", "attempt", "backoff"}]
      /\ next' \in [Lookups -> Nat]
      /\ attempt' \in [Lookups -> 0..MaxRetries]
  BY LookupAssumption DEF GotoServer, Goto, TypeOK
<1>q. QED
  BY <1>2, <1>3, <1>4, <1>5 DEF CallEnds, TypeOK

\* Every step keeps the types.
LEMMA StepTypes == TypeOK /\ [Next]_vars => TypeOK'
<1> SUFFICES ASSUME TypeOK, [Next]_vars PROVE TypeOK'
  OBVIOUS
<1> USE LookupAssumption DEF lookupVars
<1>1. ASSUME NEW q \in Lookups, NEW d \in Domains, Query(q, d) PROVE TypeOK'
  <2>1. 1 \in 1..Len(ServersOf[d])
    BY DEF TypeOK
  <2>q. QED
    BY <1>1, <2>1 DEF Query, Goto, TypeOK
<1>2. ASSUME NEW q \in Lookups, QueryServer(q) PROVE TypeOK'
  <2>1. CASE GotoServer(q, next[q] + 1) /\ UNCHANGED <<circuit, probing>>
    BY <1>2, <2>1 DEF QueryServer, GotoServer, Goto, TypeOK
  <2>2. CASE /\ BeforeCall(Server(q)) /\ Goto(q, "attempt")
             /\ probing' = [probing EXCEPT ![q] = HalfOpen(Server(q))]
             /\ UNCHANGED <<next, attempt>>
    <3>1. Server(q) \in Providers /\ HalfOpen(Server(q)) \in BOOLEAN
      BY <1>2, AtServer DEF QueryServer, HalfOpen
    <3>2. circuit' \in [Providers -> Circuits]
      BY <2>2, <3>1, CircuitTypes DEF TypeOK
    <3>q. QED
      BY <1>2, <2>2, <3>1, <3>2 DEF QueryServer, Goto, TypeOK
  <2>q. QED
    BY <1>2, <2>1, <2>2 DEF QueryServer
<1>3. ASSUME NEW q \in Lookups, Succeeds(q) PROVE TypeOK'
  <2>1. cache' \in [Domains -> {"record", "none"}]
    BY <1>3 DEF Succeeds, TypeOK
  <2>2. \E i \in Nat : GotoServer(q, i)
    BY <1>3 DEF Succeeds, TypeOK
  <2>q. QED
    BY <1>3, <2>1, <2>2, EndTypes DEF Succeeds, Calling
<1>4. ASSUME NEW q \in Lookups, FailsForGood(q) PROVE TypeOK'
  <2>1. cache' \in [Domains -> {"record", "none"}]
    BY <1>4 DEF FailsForGood, TypeOK
  <2>2. \E i \in Nat : GotoServer(q, i)
    BY <1>4 DEF FailsForGood, TypeOK
  <2>q. QED
    BY <1>4, <2>1, <2>2, EndTypes DEF FailsForGood, Calling
<1>5. ASSUME NEW q \in Lookups, FailsTransiently(q) PROVE TypeOK'
  <2>1. CASE attempt[q] < MaxRetries
    <3>1. attempt' \in [Lookups -> 0..MaxRetries]
      <4>1. MaxRetries \in Nat /\ attempt[q] \in 0..MaxRetries
        BY DEF TypeOK
      <4>2. attempt[q] + 1 \in 0..MaxRetries
        BY <2>1, <4>1
      <4>q. QED
        BY <1>5, <2>1, <4>2 DEF FailsTransiently, TypeOK
    <3>2. \A p \in Lookups : pc'[p] # "idle" => pc[p] # "idle"
      BY <1>5, <2>1 DEF FailsTransiently, Goto, TypeOK
    <3>q. QED
      BY <1>5, <2>1, <3>1, <3>2 DEF FailsTransiently, Goto, TypeOK
  <2>2. CASE ~(attempt[q] < MaxRetries)
    <3>1. cache' \in [Domains -> {"record", "none"}]
      BY <1>5 DEF FailsTransiently, TypeOK
    <3>2. \E i \in Nat : GotoServer(q, i)
      BY <1>5, <2>2 DEF FailsTransiently, TypeOK
    <3>q. QED
      BY <1>5, <2>2, <3>1, <3>2, EndTypes DEF FailsTransiently, Calling
  <2>q. QED
    BY <2>1, <2>2
<1>6. ASSUME NEW q \in Lookups, Retry(q) PROVE TypeOK'
  BY <1>6 DEF Retry, Goto, TypeOK
<1>7. ASSUME NEW q \in Lookups, Cancel(q) PROVE TypeOK'
  <2>1. CASE Calling(q)
    BY <1>7, <2>1, EndTypes DEF Cancel, TypeOK
  <2>2. CASE ~Calling(q)
    BY <1>7, <2>2 DEF Cancel, GotoServer, Goto, TypeOK
  <2>q. QED
    BY <2>1, <2>2
<1>8. ASSUME NEW d \in Domains, Forget(d) PROVE TypeOK'
  BY <1>8 DEF Forget, TypeOK
<1>9. ASSUME NEW s \in Providers, Cools(s) PROVE TypeOK'
  BY <1>9, CircuitTypes DEF Cools, TypeOK
<1>10. CASE UNCHANGED vars
  BY <1>10 DEF vars, TypeOK
<1>q. QED
  BY <1>1, <1>2, <1>3, <1>4, <1>5, <1>6, <1>7, <1>8, <1>9, <1>10 DEF Next, LookupStep, Answer

-----------------------------------------------------------------------------
\* The lookup whose call is a probe of s.
Probes(q, s) == Calling(q) /\ probing[q] /\ Server(q) = s

\* While no call from before an opening has ended after it, a probe holds the flag
\* of a circuit that is cooling off, and holds it alone.
ProbeInv ==
    \A s \in Providers : ~stray[s] =>
        /\ \A q \in Lookups : Probes(q, s) => circuit[s].phase = "cooled" /\ circuit[s].probe
        /\ \A q1, q2 \in Lookups : Probes(q1, s) /\ Probes(q2, s) => q1 = q2

FlagInv == ProbeFlagHonest /\ ProbeInv

\* A step in which no call begins or ends leaves the probes and the flags alone.
LEMMA QuietStep ==
    ASSUME TypeOK, FlagInv, UNCHANGED <<circuit, probing, stray>>,
           \A q \in Lookups : Calling(q)' = Calling(q),
           \A q \in Lookups : Calling(q) => UNCHANGED <<domain[q], next[q]>>
    PROVE  FlagInv'
<1>1. \A q \in Lookups, s \in Providers : Probes(q, s)' = Probes(q, s)
  BY DEF Probes, Server
<1>q. QED
  BY <1>1 DEF FlagInv, ProbeFlagHonest, ProbeInv, Probes

\* The end of a call clears its circuit's flag, or closes the circuit: nobody else
\* was probing, or a stray call has ended.
LEMMA EndStep ==
    ASSUME TypeOK, TypeOK', FlagInv, NEW q \in Lookups, Calling(q), NEW i \in Nat, CallEnds(q),
           GotoServer(q, i),
           \/ RecordSuccess(Server(q)) \/ RecordFailure(Server(q)) \/ ReleaseProbe(Server(q))
    PROVE  FlagInv'
<1>1. PICK s \in Providers : s = Server(q)
  BY AtServer DEF Calling
<1>2. /\ ~circuit'[s].probe
      /\ \A t \in Providers \ {s} : circuit'[t] = circuit[t] /\ stray'[t] = stray[t]
  <2>1. ~circuit'[s].probe
    BY <1>1 DEF RecordSuccess, RecordFailure, ReleaseProbe, Closed, TypeOK, Circuits
  <2>q. QED
    BY <1>1, <2>1, CircuitTypes DEF CallEnds, TypeOK
<1>3. /\ \A t \in Providers : ~Probes(q, t)'
      /\ \A p \in Lookups \ {q}, t \in Providers : Probes(p, t)' = Probes(p, t)
  BY DEF Probes, Calling, Server, CallEnds, GotoServer, Goto, TypeOK
<1>4. ProbeFlagHonest'
  <2> SUFFICES ASSUME NEW t \in Providers, circuit'[t].probe
               PROVE  \E p \in Lookups : Probes(p, t)'
    BY DEF ProbeFlagHonest, Probes
  <2>1. t # s /\ circuit[t].probe
    BY <1>2
  <2>2. PICK p \in Lookups : Probes(p, t)
    BY <2>1 DEF FlagInv, ProbeFlagHonest, Probes
  <2>q. QED
    BY <1>1, <1>3, <2>1, <2>2 DEF Probes
<1>5. ASSUME ~stray'[s], NEW p \in Lookups PROVE ~Probes(p, s)'
  <2>1. ~stray[s] /\ (probing[q] \/ circuit[s].phase = "closed")
    BY <1>1, <1>5 DEF CallEnds, TypeOK
  <2>2. CASE probing[q]
    <3>1. Probes(q, s)
      BY <1>1, <2>2 DEF Probes
    <3>q. QED
      BY <1>3, <2>1, <3>1 DEF FlagInv, ProbeInv
  <2>3. CASE circuit[s].phase = "closed"
    BY <1>1, <1>3, <2>1, <2>3 DEF FlagInv, ProbeInv
  <2>q. QED
    BY <2>1, <2>2, <2>3
<1>6. ProbeInv'
  BY <1>2, <1>3, <1>5 DEF FlagInv, ProbeInv
<1>q. QED
  BY <1>4, <1>6 DEF FlagInv

\* Every step keeps the invariant.
LEMMA FlagStep == TypeOK /\ TypeOK' /\ FlagInv /\ [Next]_vars => FlagInv'
<1> SUFFICES ASSUME TypeOK, TypeOK', FlagInv, [Next]_vars PROVE FlagInv'
  OBVIOUS
<1> USE DEF lookupVars
<1>1. ASSUME NEW q \in Lookups, NEW d \in Domains, Query(q, d) PROVE FlagInv'
  <2>1. ~Calling(q) /\ \A p \in Lookups : Calling(p)' = Calling(p)
    BY <1>1 DEF Query, Goto, Calling, TypeOK
  <2>2. \A p \in Lookups : Calling(p) => UNCHANGED <<domain[p], next[p]>>
    BY <1>1, <2>1 DEF Query, TypeOK
  <2>q. QED
    BY <1>1, <2>1, <2>2, QuietStep DEF Query
<1>2. ASSUME NEW q \in Lookups, QueryServer(q) PROVE FlagInv'
  <2>0. ~Calling(q) /\ Server(q) \in Providers
    BY <1>2, AtServer DEF QueryServer, Calling
  <2>1. CASE GotoServer(q, next[q] + 1) /\ UNCHANGED <<circuit, probing>>
    <3>1. \A p \in Lookups : Calling(p)' = Calling(p)
      BY <2>0, <2>1 DEF GotoServer, Goto, Calling, TypeOK
    <3>2. \A p \in Lookups : Calling(p) => UNCHANGED <<domain[p], next[p]>>
      BY <1>2, <2>0, <2>1 DEF QueryServer, GotoServer, TypeOK
    <3>q. QED
      BY <1>2, <2>1, <3>1, <3>2, QuietStep DEF QueryServer
  <2>2. CASE /\ BeforeCall(Server(q)) /\ Goto(q, "attempt")
             /\ probing' = [probing EXCEPT ![q] = HalfOpen(Server(q))]
             /\ UNCHANGED <<next, attempt>>
    <3>0. PICK s \in Providers : s = Server(q)
      BY <2>0
    <3>1. \A t \in Providers \ {s} : circuit'[t] = circuit[t]
      BY <2>2, <3>0, CircuitTypes DEF TypeOK
    <3>2. /\ circuit'[s].phase = circuit[s].phase
          /\ circuit'[s].probe = HalfOpen(s)
          /\ HalfOpen(s) => ~circuit[s].probe
      BY <2>2, <3>0 DEF BeforeCall, Rejects, HalfOpen, TypeOK, Circuits
    <3>3. /\ \A t \in Providers : Probes(q, t)' <=> HalfOpen(s) /\ t = s
          /\ \A p \in Lookups \ {q}, t \in Providers : Probes(p, t)' = Probes(p, t)
      BY <1>2, <2>2, <3>0 DEF Probes, Calling, Server, QueryServer, Goto, TypeOK
    <3>4. ProbeFlagHonest'
      <4> SUFFICES ASSUME NEW t \in Providers, circuit'[t].probe
                   PROVE  \E p \in Lookups : Probes(p, t)'
        BY DEF ProbeFlagHonest, Probes
      <4>1. CASE t = s
        BY <3>2, <3>3, <4>1
      <4>2. CASE t # s
        <5>1. PICK p \in Lookups : Probes(p, t)
          BY <3>1, <4>2 DEF FlagInv, ProbeFlagHonest, Probes
        <5>2. p # q
          BY <2>0, <5>1 DEF Probes
        <5>q. QED
          BY <3>3, <5>1, <5>2
      <4>q. QED
        BY <4>1, <4>2
    <3>5. stray' = stray
      BY <1>2 DEF QueryServer
    <3>6. ~Probes(q, s) /\ \A t \in Providers : ~Probes(q, t)
      BY <2>0 DEF Probes
    <3>7. ASSUME NEW t \in Providers, ~stray[t]
          PROVE  /\ \A p \in Lookups : Probes(p, t)' => /\ circuit'[t].phase = "cooled"
                                                        /\ circuit'[t].probe
                 /\ \A p1, p2 \in Lookups : Probes(p1, t)' /\ Probes(p2, t)' => p1 = p2
      <4>1. /\ \A p \in Lookups : Probes(p, t) => circuit[t].phase = "cooled" /\ circuit[t].probe
            /\ \A p1, p2 \in Lookups : Probes(p1, t) /\ Probes(p2, t) => p1 = p2
        BY <3>7 DEF FlagInv, ProbeInv
      <4>2. CASE t # s
        BY <3>1, <3>3, <4>1, <4>2
      <4>3. CASE t = s
        <5>1. ASSUME HalfOpen(s), NEW p \in Lookups \ {q} PROVE ~Probes(p, s)'
          BY <3>2, <3>3, <4>1, <4>3, <5>1
        <5>2. CASE HalfOpen(s)
          BY <3>2, <3>3, <4>3, <5>1, <5>2 DEF HalfOpen
        <5>3. CASE ~HalfOpen(s)
          BY <3>3, <4>1, <4>3, <5>3 DEF HalfOpen
        <5>q. QED
          BY <5>2, <5>3
      <4>q. QED
        BY <4>2, <4>3
    <3>8. ProbeInv'
      BY <3>5, <3>7 DEF ProbeInv
    <3>q. QED
      BY <3>4, <3>8 DEF FlagInv
  <2>q. QED
    BY <1>2, <2>1, <2>2 DEF QueryServer
<1>3. ASSUME NEW q \in Lookups, Succeeds(q) PROVE FlagInv'
  BY <1>3, EndStep DEF Succeeds, Calling, TypeOK
<1>4. ASSUME NEW q \in Lookups, FailsForGood(q) PROVE FlagInv'
  BY <1>4, EndStep DEF FailsForGood, Calling, TypeOK
<1>5. ASSUME NEW q \in Lookups, FailsTransiently(q) PROVE FlagInv'
  <2>1. CASE attempt[q] < MaxRetries
    <3>1. \A p \in Lookups : Calling(p)' = Calling(p)
      BY <1>5, <2>1 DEF FailsTransiently, Goto, Calling, TypeOK
    <3>q. QED
      BY <1>5, <2>1, <3>1, QuietStep DEF FailsTransiently
  <2>2. CASE ~(attempt[q] < MaxRetries)
    BY <1>5, <2>2, EndStep DEF FailsTransiently, Calling, TypeOK
  <2>q. QED
    BY <2>1, <2>2
<1>6. ASSUME NEW q \in Lookups, Retry(q) PROVE FlagInv'
  <2>1. \A p \in Lookups : Calling(p)' = Calling(p)
    BY <1>6 DEF Retry, Goto, Calling, TypeOK
  <2>q. QED
    BY <1>6, <2>1, QuietStep DEF Retry
<1>7. ASSUME NEW q \in Lookups, Cancel(q) PROVE FlagInv'
  <2>1. CASE Calling(q)
    BY <1>7, <2>1, EndStep DEF Cancel
  <2>2. CASE ~Calling(q)
    <3>1. \A p \in Lookups : Calling(p)' = Calling(p)
      BY <1>7, <2>2 DEF Cancel, GotoServer, Goto, Calling, TypeOK
    <3>2. \A p \in Lookups : Calling(p) => UNCHANGED <<domain[p], next[p]>>
      BY <1>7, <2>2 DEF Cancel, GotoServer, TypeOK
    <3>q. QED
      BY <1>7, <2>2, <3>1, <3>2, QuietStep DEF Cancel
  <2>q. QED
    BY <2>1, <2>2
<1>8. ASSUME NEW d \in Domains, Forget(d) PROVE FlagInv'
  BY <1>8, QuietStep DEF Forget, Calling
<1>9. ASSUME NEW s \in Providers, Cools(s) PROVE FlagInv'
  <2>1. \A q \in Lookups, t \in Providers : Probes(q, t)' = Probes(q, t)
    BY <1>9 DEF Cools, Probes, Calling, Server
  <2>2. /\ \A t \in Providers : circuit'[t].probe = circuit[t].probe
        /\ \A t \in Providers : circuit[t].phase = "cooled" => circuit'[t].phase = "cooled"
    BY <1>9 DEF Cools, CoolDown, TypeOK, Circuits
  <2>q. QED
    BY <1>9, <2>1, <2>2 DEF Cools, FlagInv, ProbeFlagHonest, ProbeInv, Probes
<1>10. CASE UNCHANGED vars
  BY <1>10, QuietStep DEF vars, Calling
<1>q. QED
  BY <1>1, <1>2, <1>3, <1>4, <1>5, <1>6, <1>7, <1>8, <1>9, <1>10 DEF Next, LookupStep, Answer

\* Every variable keeps its type; the number of attempts stays within its bound
\* (run_with_retries).
THEOREM TypeCorrect == Spec => []TypeOK
<1>1. Init => TypeOK
  BY ThresholdAssumption, LookupAssumption DEF Init, TypeOK, Closed, Circuits
<1>q. QED
  BY <1>1, StepTypes, PTL DEF Spec

\* The inductive invariant of the flags.
LEMMA FlagsHold == Spec => []FlagInv
<1>1. Init => FlagInv
  BY DEF Init, FlagInv, ProbeFlagHonest, ProbeInv, Probes, Calling, Closed
<1>q. QED
  BY <1>1, FlagStep, TypeCorrect, PTL DEF Spec

\* The flag of a probe is never left behind, also not by a cancelled lookup
\* (CircuitBreaker.call releases it).
THEOREM ProbeFlagIsHonest == Spec => []ProbeFlagHonest
BY FlagsHold, PTL DEF FlagInv

\* Two probes of a provider never overlap while no call from before an opening
\* ends after it (_before_call).
THEOREM OneProbeAtATime == Spec => []OneProbe
<1>1. TypeOK /\ FlagInv => OneProbe
  BY AtServer DEF FlagInv, ProbeInv, Probes, OneProbe, Calling
<1>q. QED
  BY <1>1, FlagsHold, TypeCorrect, PTL
=============================================================================
