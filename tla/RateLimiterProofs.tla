---------------------------- MODULE RateLimiterProofs ----------------------------
(* The bound of the rate limit and the honesty of its headers, for any number  *)
(* of clients, processes and requests, any window and any clock.  Both follow  *)
(* from what a limiter has in view of a client: its requests still in the      *)
(* window.                                                                     *)
EXTENDS RateLimiter, FiniteSetTheorems, WellFoundedInduction, TLAPS

\* What limiter l has in view of client c.
View(c, l) == Kept(IF l = "redis" THEN shared[c] ELSE local[l][c])

\* After the instant t, a limiter has room for the client.
RoomAfter(c, l, t) == Cardinality({e \in View(c, l) : e.at + Window > t}) < MaxRequests

\* Redis drops a key only when nothing of it is left in the window.
LapseInv == \A c \in Clients : \A e \in shared[c] : e.at + Window <= lapses[c]

\* A limiter sees all it admitted in the window, never more than it may admit, and
\* has the room it promised.
ViewInv ==
    \A c \in Clients, l \in Limiters :
        /\ IsFiniteSet(View(c, l)) /\ Cardinality(View(c, l)) <= MaxRequests
        /\ \A e \in View(c, l) : e.at <= now
        /\ admitted[c][l] \subseteq View(c, l)
        /\ told[c][l].left + Cardinality(View(c, l)) <= MaxRequests
        /\ \A t \in told[c][l].from : RoomAfter(c, l, t)

Inv == TypeOK /\ LapseInv /\ ViewInv

-----------------------------------------------------------------------------
\* A set of naturals has a least member: the intervals below them are ordered by
\* inclusion, and that order is well-founded.
LEMMA LeastNatural ==
    ASSUME NEW S, S \subseteq Nat, S # {}
    PROVE  Least(S) \in S /\ \A y \in S : Least(S) <= y
<1> DEFINE R == StrictSubsetOrdering(Nat)
           Below == {0..x : x \in S}
<1>1. \A x \in S : 0..x \in FiniteSubsetsOf(Nat)
  BY FS_Interval DEF FiniteSubsetsOf
<1>2. PICK b \in Below : \A c \in Below : <<c, b>> \notin R
  <2>1. IsWellFoundedOn(R, FiniteSubsetsOf(Nat)) /\ Below \subseteq FiniteSubsetsOf(Nat) /\ Below # {}
    BY <1>1, FS_StrictSubsetOrderingWellFounded
  <2> HIDE DEF R, Below
  <2>q. QED
    BY <2>1, WFMin
<1>3. PICK x \in S : b = 0..x
  OBVIOUS
<1>4. ASSUME NEW y \in S PROVE x <= y
  <2>1. <<0..y, 0..x>> \notin R
    BY <1>2, <1>3
  <2>2. ASSUME y < x PROVE <<0..y, 0..x>> \in R
    <3>1. 0..y \subseteq 0..x /\ x \in 0..x /\ x \notin 0..y
      BY <2>2
    <3>2. 0..y \in SUBSET Nat /\ 0..x \in SUBSET Nat
      OBVIOUS
    <3>q. QED
      BY <3>1, <3>2 DEF StrictSubsetOrdering
  <2>q. QED
    BY <2>1, <2>2
<1>q. QED
  BY <1>4 DEF Least

\* Rounded up, the seconds cover any part of the window.
LEMMA SecondsCover ==
    ASSUME NEW ticks \in Int, ticks <= Window
    PROVE  /\ Seconds(ticks) \in Nat \ {0}
           /\ Second * Seconds(ticks) >= ticks
<1> DEFINE S == {s \in 1..Window : Second * s >= ticks}
<1>1. Second * Window >= Window
  BY RateAssumption
<1>2. S \subseteq Nat /\ Window \in S
  BY <1>1, RateAssumption
<1> HIDE DEF S
<1>3. Least(S) \in S
  BY <1>2, LeastNatural
<1>q. QED
  BY <1>3 DEF Seconds, S

\* Fewer entries leave more room.
LEMMA Fewer ==
    ASSUME NEW small, NEW large, IsFiniteSet(large), small \subseteq large
    PROVE  IsFiniteSet(small) /\ Cardinality(small) \in Nat
           /\ Cardinality(small) <= Cardinality(large)
BY FS_Subset, FS_CardinalityType

\* What the script finds is what Redis has in view: a key that lapsed had nothing
\* in the window.
LEMMA LogIsView == ASSUME Inv, NEW c \in Clients PROVE Log(c) = View(c, "redis")
<1>1. shared[c] \subseteq Entries /\ lapses[c] \in Nat /\ now \in Nat /\ Window \in Nat
  BY RateAssumption DEF Inv, TypeOK
<1>2. ASSUME lapses[c] <= now PROVE View(c, "redis") = {}
  BY <1>1, <1>2 DEF Inv, LapseInv, View, Kept, Entries
<1>q. QED
  BY <1>2 DEF Log, View, Kept

\* When a limiter is full, Retry-After is a time at which it has room: the earliest
\* request in view has left the window.
LEMMA RetryFrees ==
    ASSUME Inv, NEW c \in Clients, NEW l \in Limiters, Full(View(c, l))
    PROVE  LET t == now + Second * RetryAfter(View(c, l))
           IN  t \in Nat /\ RoomAfter(c, l, t)
<1> DEFINE log == View(c, l)
           ats == {e.at : e \in log}
           t == now + Second * RetryAfter(log)
           left == {e \in log : e.at + Window > t}
<1>1. log \subseteq Entries /\ \A e \in log : e.at + Window > now
  BY DEF Inv, TypeOK, View, Kept, Limiters, Entries
<1>2. IsFiniteSet(log) /\ Cardinality(log) <= MaxRequests /\ Cardinality(log) >= MaxRequests
      /\ MaxRequests \in Nat \ {0} /\ now \in 0..MaxTime /\ Window \in Nat /\ Second \in Nat
  BY RateAssumption DEF Inv, TypeOK, ViewInv, Full
<1>3. log # {}
  BY <1>2, FS_EmptySet
<1>4. ats \subseteq Nat /\ ats # {}
  BY <1>1, <1>3 DEF Entries
<1> DEFINE first == Least(ats)
<1>5. first \in ats
  <2> HIDE DEF ats
  <2>q. QED BY <1>4, LeastNatural
<1>6. PICK e \in log : e.at = first
  BY <1>5
<1>7. first \in Nat /\ first <= now
  BY <1>1, <1>6 DEF Entries, Inv, ViewInv
<1>8. RetryAfter(log) \in Nat /\ Second * RetryAfter(log) >= first + Window - now
  BY <1>2, <1>7, SecondsCover DEF RetryAfter
<1>9. t \in Nat /\ t >= first + Window
  <2>1. Second * RetryAfter(log) \in Nat
    BY <1>2, <1>8
  <2>q. QED
    BY <1>2, <1>7, <1>8, <2>1
<1>10. left \subseteq log \ {e}
  BY <1>2, <1>6, <1>7, <1>9
<1>11. IsFiniteSet(log \ {e}) /\ Cardinality(log \ {e}) = Cardinality(log) - 1
  BY <1>2, <1>6, FS_RemoveElement
<1>12. Cardinality(left) <= Cardinality(log \ {e}) /\ Cardinality(left) \in Nat
  BY <1>10, <1>11, Fewer
<1>q. QED
  BY <1>2, <1>9, <1>11, <1>12, FS_CardinalityType DEF RoomAfter

-----------------------------------------------------------------------------
\* What a check does to the view of limiter l of client c: nothing, or it admits
\* the request and tells so, or it is full and says when it is not, or, in Redis,
\* it admits a request and cannot say so.
Quiet(c, l) ==
    View(c, l)' = View(c, l) /\ admitted'[c][l] = admitted[c][l] /\ told'[c][l] = told[c][l]

Admitted(c, l) ==
    /\ ~Full(View(c, l))
    /\ View(c, l)' = View(c, l) \cup {Request}
    /\ admitted'[c][l] = admitted[c][l] \cup {Request}
    /\ told'[c][l] = [left |-> MaxRequests - Cardinality(View(c, l)) - 1, from |-> {}]

Rejected(c, l) ==
    /\ Full(View(c, l))
    /\ View(c, l)' = View(c, l) /\ admitted'[c][l] = admitted[c][l]
    /\ told'[c][l].left = 0
    /\ told'[c][l].from \subseteq
           told[c][l].from \cup {now + Second * RetryAfter(View(c, l))}

Silent(c, l) ==
    /\ ~Full(View(c, l))
    /\ View(c, l)' = View(c, l) \cup {Request} /\ admitted'[c][l] = admitted[c][l]
    /\ told'[c][l] = [left |-> IF told[c][l].left = 0 THEN 0 ELSE told[c][l].left - 1,
                      from |-> {}]

\* Each of these keeps the invariant of one client at one limiter.
ViewOf(c, l) ==
    /\ IsFiniteSet(View(c, l)) /\ Cardinality(View(c, l)) <= MaxRequests
    /\ \A e \in View(c, l) : e.at <= now
    /\ admitted[c][l] \subseteq View(c, l)
    /\ told[c][l].left + Cardinality(View(c, l)) <= MaxRequests
    /\ \A t \in told[c][l].from : RoomAfter(c, l, t)

LEMMA CheckKeepsView ==
    ASSUME Inv, NEW c \in Clients, NEW l \in Limiters, now' = now,
           Quiet(c, l) \/ Admitted(c, l) \/ Rejected(c, l) \/ Silent(c, l)
    PROVE  ViewOf(c, l)' /\ told'[c][l].left \in Nat /\ told'[c][l].from \subseteq Nat
<1>1. ViewOf(c, l) /\ told[c][l].left \in Nat /\ told[c][l].from \subseteq Nat
      /\ Cardinality(View(c, l)) \in Nat /\ MaxRequests \in Nat \ {0} /\ now \in Nat
  <2>1. ViewOf(c, l)
    BY DEF Inv, ViewInv, ViewOf
  <2>2. told[c][l] \in [left : Nat, from : SUBSET Nat] /\ now \in Nat
    BY RateAssumption DEF Inv, TypeOK
  <2>3. Cardinality(View(c, l)) \in Nat /\ MaxRequests \in Nat \ {0}
    BY <2>1, RateAssumption, FS_CardinalityType DEF ViewOf
  <2>q. QED
    BY <2>1, <2>2, <2>3
<1>2. View(c, l)' = View(c, l) => \A t : RoomAfter(c, l, t)' = RoomAfter(c, l, t)
  BY DEF RoomAfter
<1>3. CASE Quiet(c, l)
  BY <1>1, <1>2, <1>3 DEF Quiet, ViewOf
<1>4. CASE Rejected(c, l)
  <2>1. LET t == now + Second * RetryAfter(View(c, l)) IN t \in Nat /\ RoomAfter(c, l, t)
    BY <1>4, RetryFrees DEF Rejected
  <2>q. QED
    BY <1>1, <1>2, <1>4, <2>1 DEF Rejected, ViewOf
<1>5. ASSUME ~Full(View(c, l)), View(c, l)' = View(c, l) \cup {Request}
      PROVE  /\ IsFiniteSet(View(c, l))'
             /\ Cardinality(View(c, l))' \in Nat
             /\ Cardinality(View(c, l))' <= Cardinality(View(c, l)) + 1
             /\ Cardinality(View(c, l)) < MaxRequests
             /\ \A e \in View(c, l)' : e.at <= now
  <2> DEFINE log == View(c, l)
             more == log \cup {Request}
  <2>1. IsFiniteSet(log) /\ Cardinality(log) < MaxRequests
    BY <1>1, <1>5 DEF ViewOf, Full
  <2>2. IsFiniteSet(more) /\ Cardinality(more) \in Nat /\ Cardinality(more) <= Cardinality(log) + 1
    <3> HIDE DEF log
    <3>1. Cardinality(log) \in Nat
      BY <2>1, FS_CardinalityType
    <3>2. IsFiniteSet(more) /\ Cardinality(more) \in {Cardinality(log), Cardinality(log) + 1}
      BY <2>1, FS_AddElement
    <3>q. QED
      BY <3>1, <3>2
  <2>3. \A e \in more : e.at <= now
    BY <1>1 DEF ViewOf, Request
  <2>4. View(c, l)' = more
    BY <1>5
  <2> HIDE DEF more
  <2>q. QED
    BY <2>1, <2>2, <2>3, <2>4
<1>6. CASE Admitted(c, l)
  BY <1>1, <1>5, <1>6 DEF Admitted, ViewOf
<1>7. CASE Silent(c, l)
  BY <1>1, <1>5, <1>7 DEF Silent, ViewOf
<1>q. QED
  BY <1>3, <1>4, <1>6, <1>7

-----------------------------------------------------------------------------
\* Membership of the window does not change during a check.
LEMMA KeptTwice ==
    ASSUME NEW log
    PROVE  Kept(Kept(log)) = Kept(log)
BY DEF Kept

LEMMA KeptRequest ==
    ASSUME Inv, NEW log
    PROVE  Kept(Kept(log) \cup {Request}) = Kept(log) \cup {Request}
BY RateAssumption DEF Kept, Request, Inv, TypeOK

\* An answer of limiter l to client c is nothing to another limiter or client.
LEMMA OthersKeep ==
    ASSUME Inv, NEW c \in Clients, NEW l \in Limiters, NEW log, NEW known,
           known \in [Clients -> [Limiters -> [left : Nat, from : SUBSET Nat]]],
           Admits(c, l, log, known) \/ Rejects(c, l, log, known),
           NEW d \in Clients, NEW k \in Limiters, d # c \/ k # l
    PROVE  admitted'[d][k] = admitted[d][k] /\ told'[d][k] = known[d][k]
<1>1. CASE Admits(c, l, log, known)
  BY <1>1 DEF Admits, Inv, TypeOK
<1>2. CASE Rejects(c, l, log, known)
  BY <1>2 DEF Rejects, Inv, TypeOK
<1>q. QED
  BY <1>1, <1>2

\* The in-process check of process p, seen from every limiter but Redis.
LEMMA LocalCheckViews ==
    ASSUME Inv, now' = now, NEW p \in Processes, NEW c \in Clients, NEW known,
           known \in [Clients -> [Limiters -> [left : Nat, from : SUBSET Nat]]],
           \A d \in Clients, q \in Processes : known[d][q] = told[d][q],
           LocalCheck(p, c, known)
    PROVE  /\ \A d \in Clients, q \in Processes :
                  Quiet(d, q) \/ Admitted(d, q) \/ Rejected(d, q)
           /\ \A d \in Clients : /\ admitted'[d]["redis"] = admitted[d]["redis"]
                                 /\ told'[d]["redis"] = known[d]["redis"]
<1> DEFINE kept == [d \in Clients |-> Kept(local[p][d])]
<1>1. p \in Limiters /\ p # "redis" /\ "redis" \in Limiters /\ "redis" \notin Processes
  BY RateAssumption DEF Limiters
<1>2. \A d \in Clients, q \in Processes : View(d, q) = Kept(local[q][d]) /\ q \in Limiters
  BY <1>1 DEF View, Limiters
<1>3. \A d \in Clients, q \in Processes : View(d, q)' = Kept(local'[q][d])
  BY <1>1 DEF View, Kept
<1> PICK log : Admits(c, p, log, known) \/ Rejects(c, p, log, known)
  BY DEF LocalCheck
<1>0. ASSUME NEW d \in Clients, NEW k \in Limiters, d # c \/ k # p
      PROVE  admitted'[d][k] = admitted[d][k] /\ told'[d][k] = known[d][k]
  BY <1>0, <1>1, OthersKeep
<1>4. ASSUME NEW d \in Clients, NEW q \in Processes, q # p PROVE Quiet(d, q)
  <2>1. local'[q] = local[q] /\ admitted'[d][q] = admitted[d][q] /\ told'[d][q] = told[d][q]
    BY <1>0, <1>2, <1>4 DEF LocalCheck, Inv, TypeOK
  <2>q. QED
    BY <1>2, <1>3, <2>1 DEF Quiet
<1>5. ASSUME NEW d \in Clients, d # c PROVE Quiet(d, p)
  <2>1. local'[p][d] = Kept(local[p][d])
        /\ admitted'[d][p] = admitted[d][p] /\ told'[d][p] = told[d][p]
    BY <1>0, <1>1, <1>5 DEF LocalCheck, Inv, TypeOK
  <2>q. QED
    BY <1>2, <1>3, <2>1, KeptTwice DEF Quiet
<1>6. Admitted(c, p) \/ Rejected(c, p)
  <2>1. CASE Full(kept[c])
    <3>1. local'[p][c] = Kept(local[p][c]) /\ Rejects(c, p, Kept(local[p][c]), known)
      BY <2>1 DEF LocalCheck, Inv, TypeOK
    <3>2. admitted' = admitted /\ told'[c][p].left = 0
          /\ told'[c][p].from \subseteq
                 told[c][p].from \cup {now + Second * RetryAfter(Kept(local[p][c]))}
      BY <1>1, <3>1 DEF Rejects
    <3>q. QED
      BY <1>2, <1>3, <2>1, <3>1, <3>2, KeptTwice DEF Rejected
  <2>2. CASE ~Full(kept[c])
    <3>1. local'[p][c] = Kept(local[p][c]) \cup {Request}
          /\ Admits(c, p, Kept(local[p][c]), known)
      BY <2>2 DEF LocalCheck, Inv, TypeOK
    <3>2. admitted'[c][p] = admitted[c][p] \cup {Request}
          /\ told'[c][p] = [left |-> MaxRequests - Cardinality(Kept(local[p][c])) - 1, from |-> {}]
      BY <1>1, <3>1 DEF Admits, Inv, TypeOK
    <3>3. View(c, p)' = Kept(local[p][c]) \cup {Request}
      BY <1>3, <3>1, KeptRequest
    <3>q. QED
      BY <1>2, <2>2, <3>2, <3>3 DEF Admitted
  <2>q. QED
    BY <2>1, <2>2
<1>7. \A d \in Clients : /\ admitted'[d]["redis"] = admitted[d]["redis"]
                         /\ told'[d]["redis"] = known[d]["redis"]
  BY <1>0, <1>1
<1>q. QED
  BY <1>4, <1>5, <1>6, <1>7

\* The script, seen from Redis.
LEMMA ScriptViews ==
    ASSUME Inv, now' = now, NEW c \in Clients, Script(c), asked < MaxAsked
    PROVE  /\ \A d \in Clients \ {c} : View(d, "redis")' = View(d, "redis")
           /\ View(c, "redis")' = View(c, "redis")
                                    \cup (IF Full(Log(c)) THEN {} ELSE {Request})
           /\ shared' \in [Clients -> SUBSET Entries] /\ lapses' \in [Clients -> Nat]
           /\ LapseInv'
<1> USE RateAssumption
<1>1. Log(c) = View(c, "redis") /\ Log(c) = Kept(Log(c)) /\ Log(c) \subseteq shared[c]
  BY LogIsView, KeptTwice DEF Log, View, Kept
<1>2. Window <= Second * Seconds(Window) /\ Second * Seconds(Window) \in Nat
  BY SecondsCover
<1>3. /\ \A d \in Clients \ {c} : shared'[d] = shared[d] /\ lapses'[d] = lapses[d]
      /\ shared'[c] = Log(c) \cup (IF Full(Log(c)) THEN {} ELSE {Request})
      /\ Full(Log(c)) => lapses'[c] = lapses[c]
      /\ ~Full(Log(c)) => lapses'[c] = now + Second * Seconds(Window)
      /\ Request \in Entries
  BY DEF Script, Inv, TypeOK, Request, Entries
<1>4. \A d \in Clients : View(d, "redis")' = Kept(shared'[d])
  BY DEF View, Kept
<1>5. \A d \in Clients : View(d, "redis") = Kept(shared[d])
  BY DEF View
<1>6. View(c, "redis")' = Log(c) \cup (IF Full(Log(c)) THEN {} ELSE {Request})
  <2>1. Kept(Log(c) \cup {Request}) = Log(c) \cup {Request}
    BY <1>1, KeptRequest
  <2>q. QED
    BY <1>1, <1>3, <1>4, <2>1
<1>7. shared' \in [Clients -> SUBSET Entries] /\ lapses' \in [Clients -> Nat]
  <2>1. Log(c) \subseteq Entries /\ Log(c) \cup {Request} \subseteq Entries
        /\ now + Second * Seconds(Window) \in Nat
    BY <1>1, <1>2, <1>3 DEF Inv, TypeOK
  <2>2. shared \in [Clients -> SUBSET Entries] /\ lapses \in [Clients -> Nat]
    BY DEF Inv, TypeOK
  <2>3. CASE Full(Log(c))
    BY <2>1, <2>2, <2>3 DEF Script
  <2>4. CASE ~Full(Log(c))
    BY <2>1, <2>2, <2>4 DEF Script
  <2>q. QED
    BY <2>3, <2>4
<1>8. ASSUME NEW d \in Clients, NEW e \in shared'[d] PROVE e.at + Window <= lapses'[d]
  <2>1. CASE d # c
    BY <1>3, <1>8, <2>1 DEF Inv, LapseInv
  <2>2. CASE d = c /\ Full(Log(c))
    BY <1>1, <1>3, <1>8, <2>2 DEF Inv, LapseInv
  <2>3. CASE d = c /\ ~Full(Log(c))
    <3>1. e.at \in Nat /\ e.at <= now /\ now \in Nat
      <4>1. \A f \in Log(c) : f.at <= now
        BY <1>1 DEF Inv, ViewInv, Limiters
      <4>q. QED
        BY <1>1, <1>3, <1>8, <2>3, <4>1 DEF Request, Inv, TypeOK, Entries
    <3>q. QED
      BY <1>2, <1>3, <2>3, <3>1
  <2>q. QED
    BY <2>1, <2>2, <2>3
<1>q. QED
  BY <1>1, <1>3, <1>4, <1>5, <1>6, <1>7, <1>8 DEF LapseInv

\* When Redis does not answer, the processes decide or nobody does.
LEMMA FallsViews ==
    ASSUME Inv, now' = now, NEW p \in Processes, NEW c \in Clients, NEW known,
           known \in [Clients -> [Limiters -> [left : Nat, from : SUBSET Nat]]],
           \A d \in Clients, q \in Processes : known[d][q] = told[d][q],
           Falls(p, c, known)
    PROVE  /\ \A d \in Clients, q \in Processes :
                  Quiet(d, q) \/ Admitted(d, q) \/ Rejected(d, q)
           /\ \A d \in Clients : /\ admitted'[d]["redis"] = admitted[d]["redis"]
                                 /\ told'[d]["redis"] = known[d]["redis"]
<1>1. CASE LocalCheck(p, c, known)
  BY <1>1, LocalCheckViews
<1>2. CASE UNCHANGED <<local, admitted>> /\ told' = known
  BY <1>2, RateAssumption DEF Quiet, View, Kept
<1>q. QED
  BY <1>1, <1>2 DEF Falls

\* Whoever decides, every limiter's view of every client changes in one of the
\* four ways.
LEMMA CheckViews ==
    ASSUME Inv, NEW p \in Processes, NEW c \in Clients, Check(p, c)
    PROVE  /\ \A d \in Clients, l \in Limiters :
                  Quiet(d, l) \/ Admitted(d, l) \/ Rejected(d, l) \/ Silent(d, l)
           /\ shared' \in [Clients -> SUBSET Entries] /\ lapses' \in [Clients -> Nat]
           /\ LapseInv'
<1> "redis" \in Limiters /\ Processes \subseteq Limiters /\ Limiters \subseteq Processes \cup {"redis"}
  BY DEF Limiters
<1> USE RateAssumption
<1>1. now' = now /\ asked < MaxAsked
      /\ told \in [Clients -> [Limiters -> [left : Nat, from : SUBSET Nat]]]
      /\ shared \in [Clients -> SUBSET Entries] /\ lapses \in [Clients -> Nat]
  BY DEF Check, Inv, TypeOK
<1>2. UNCHANGED <<shared, lapses>> =>
          /\ \A d \in Clients : View(d, "redis")' = View(d, "redis")
          /\ LapseInv'
  BY <1>1 DEF View, Kept, Inv, LapseInv
<1>3. CASE RedisFails(p, c)
  <2>1. Falls(p, c, told) /\ UNCHANGED <<shared, lapses>>
    BY <1>3 DEF RedisFails
  <2>2. /\ \A d \in Clients, q \in Processes : Quiet(d, q) \/ Admitted(d, q) \/ Rejected(d, q)
        /\ \A d \in Clients : /\ admitted'[d]["redis"] = admitted[d]["redis"]
                              /\ told'[d]["redis"] = told[d]["redis"]
    BY <1>1, <2>1, FallsViews
  <2>q. QED
    BY <1>1, <1>2, <2>1, <2>2 DEF Quiet
<1>4. CASE WithoutRedis(p, c)
  <2>1. LocalCheck(p, c, told) /\ UNCHANGED <<shared, lapses>>
    BY <1>4 DEF WithoutRedis
  <2>2. /\ \A d \in Clients, q \in Processes : Quiet(d, q) \/ Admitted(d, q) \/ Rejected(d, q)
        /\ \A d \in Clients : /\ admitted'[d]["redis"] = admitted[d]["redis"]
                              /\ told'[d]["redis"] = told[d]["redis"]
    BY <1>1, <2>1, LocalCheckViews
  <2>q. QED
    BY <1>1, <1>2, <2>1, <2>2 DEF Quiet
<1>5. CASE RedisCheck(c)
  <2>1. Script(c) /\ local' = local /\ Log(c) = View(c, "redis")
        /\ IF Full(Log(c)) THEN Rejects(c, "redis", Log(c), told)
                           ELSE Admits(c, "redis", Log(c), told)
    BY <1>5, LogIsView DEF RedisCheck
  <2>2. ASSUME NEW d \in Clients, NEW l \in Limiters, d # c \/ l # "redis" PROVE Quiet(d, l)
    <3>1. admitted'[d][l] = admitted[d][l] /\ told'[d][l] = told[d][l]
      <4>1. Admits(c, "redis", Log(c), told) \/ Rejects(c, "redis", Log(c), told)
        BY <2>1
      <4>2. /\ admitted \in [Clients -> [Limiters -> SUBSET Entries]]
            /\ told \in [Clients -> [Limiters -> [left : Nat, from : SUBSET Nat]]]
        BY DEF Inv, TypeOK
      <4>3. CASE Admits(c, "redis", Log(c), told)
        BY <2>2, <4>2, <4>3 DEF Admits
      <4>4. CASE Rejects(c, "redis", Log(c), told)
        BY <2>2, <4>2, <4>4 DEF Rejects
      <4>q. QED
        BY <4>1, <4>3, <4>4
    <3>2. View(d, l)' = View(d, l)
      <4>1. CASE l = "redis"
        BY <1>1, <2>1, <2>2, <4>1, ScriptViews
      <4>2. CASE l # "redis"
        BY <1>1, <2>1, <4>2 DEF View, Kept
      <4>q. QED
        BY <4>1, <4>2
    <3>q. QED
      BY <3>1, <3>2 DEF Quiet
  <2>3. Admitted(c, "redis") \/ Rejected(c, "redis")
    <3>1. CASE Full(Log(c))
      <4>1. admitted' = admitted /\ told'[c]["redis"].left = 0
            /\ told'[c]["redis"].from \subseteq
                   told[c]["redis"].from \cup {now + Second * RetryAfter(Log(c))}
        BY <1>1, <2>1, <3>1 DEF Rejects
      <4>q. QED
        BY <1>1, <2>1, <3>1, <4>1, ScriptViews DEF Rejected
    <3>2. CASE ~Full(Log(c))
      <4>1. admitted'[c]["redis"] = admitted[c]["redis"] \cup {Request}
            /\ told'[c]["redis"] = [left |-> MaxRequests - Cardinality(Log(c)) - 1, from |-> {}]
        <5>1. Admits(c, "redis", Log(c), told) /\ admitted \in [Clients -> [Limiters -> SUBSET Entries]]
          BY <2>1, <3>2 DEF Inv, TypeOK
        <5>q. QED
          BY <1>1, <5>1 DEF Admits
      <4>q. QED
        BY <1>1, <2>1, <3>2, <4>1, ScriptViews DEF Admitted
    <3>q. QED
      BY <3>1, <3>2
  <2>q. QED
    BY <1>1, <2>1, <2>2, <2>3, ScriptViews
<1>6. CASE ReplyLost(p, c)
  <2> DEFINE known == IF Full(Log(c)) THEN told
                      ELSE [told EXCEPT ![c]["redis"] =
                               [left |-> IF @.left = 0 THEN 0 ELSE @.left - 1, from |-> {}]]
  <2>1. Script(c) /\ Falls(p, c, known) /\ Log(c) = View(c, "redis")
    BY <1>6, LogIsView DEF ReplyLost
  <2>2. known \in [Clients -> [Limiters -> [left : Nat, from : SUBSET Nat]]]
    BY <1>1
  <2>3. /\ \A d \in Clients, q \in Processes : known[d][q] = told[d][q]
        /\ \A d \in Clients \ {c} : known[d]["redis"] = told[d]["redis"]
        /\ known[c]["redis"] =
               IF Full(Log(c)) THEN told[c]["redis"]
               ELSE [left |-> IF told[c]["redis"].left = 0 THEN 0 ELSE told[c]["redis"].left - 1,
                     from |-> {}]
    BY <1>1
  <2> HIDE DEF known
  <2>4. /\ \A d \in Clients, q \in Processes : Quiet(d, q) \/ Admitted(d, q) \/ Rejected(d, q)
        /\ \A d \in Clients : /\ admitted'[d]["redis"] = admitted[d]["redis"]
                              /\ told'[d]["redis"] = known[d]["redis"]
    <3>1. now' = now /\ \A d \in Clients, q \in Processes : known[d][q] = told[d][q]
      BY <1>1, <2>3
    <3>q. QED
      BY <2>1, <2>2, <3>1, FallsViews, SMTT(60)
  <2>5. \A d \in Clients : Quiet(d, "redis") \/ Silent(d, "redis")
    <3> SUFFICES ASSUME NEW d \in Clients PROVE Quiet(d, "redis") \/ Silent(d, "redis")
      OBVIOUS
    <3>1. CASE d # c \/ Full(Log(c))
      <4>1. View(d, "redis")' = View(d, "redis")
        BY <1>1, <2>1, <3>1, ScriptViews
      <4>q. QED
        BY <2>3, <2>4, <3>1, <4>1 DEF Quiet
    <3>2. CASE d = c /\ ~Full(Log(c))
      <4>1. View(d, "redis")' = View(d, "redis") \cup {Request}
        BY <1>1, <2>1, <3>2, ScriptViews
      <4>q. QED
        BY <2>1, <2>3, <2>4, <3>2, <4>1 DEF Silent
    <3>q. QED
      BY <3>1, <3>2
  <2>q. QED
    BY <1>1, <2>1, <2>4, <2>5, ScriptViews
<1>q. QED
  BY <1>3, <1>4, <1>5, <1>6 DEF Check

-----------------------------------------------------------------------------
\* The invariant holds at first, with nothing in view, and every step keeps it.
LEMMA InitInv == Init => Inv
<1> SUFFICES ASSUME Init PROVE Inv
  OBVIOUS
<1>1. TypeOK
  BY RateAssumption DEF Init, TypeOK, Limiters, NoPromise
<1>2. \A c \in Clients, l \in Limiters : View(c, l) = {}
  BY DEF Init, View, Kept, Limiters
<1>3. ViewInv
  <2>1. IsFiniteSet({}) /\ Cardinality({}) = 0 /\ MaxRequests \in Nat
    BY FS_EmptySet, RateAssumption
  <2>2. \A c \in Clients, l \in Limiters :
            admitted[c][l] = {} /\ told[c][l].left = 0 /\ told[c][l].from = {}
    BY DEF Init, NoPromise
  <2> SUFFICES ASSUME NEW c \in Clients, NEW l \in Limiters PROVE ViewOf(c, l)
    BY DEF ViewInv, ViewOf
  <2>3. View(c, l) = {} /\ admitted[c][l] = {} /\ told[c][l].left = 0 /\ told[c][l].from = {}
    BY <1>2, <2>2
  <2>q. QED
    BY <2>1, <2>3 DEF ViewOf
<1>q. QED
  BY <1>1, <1>3 DEF Inv, Init, LapseInv

Known == [Clients -> [Limiters -> [left : Nat, from : SUBSET Nat]]]
Answers == [client : Clients, by : Limiters, verdict : {"admitted", "rejected", "unavailable"}]

LEMMA AnswerTypes ==
    ASSUME Inv, asked < MaxAsked, NEW c \in Clients, NEW l \in Limiters, NEW known \in Known,
           \/ Admits(c, l, View(c, l), known) /\ ~Full(View(c, l))
           \/ Rejects(c, l, View(c, l), known) /\ Full(View(c, l))
    PROVE  /\ admitted' \in [Clients -> [Limiters -> SUBSET Entries]]
           /\ told' \in Known /\ answer' \in Answers
<1>1. admitted \in [Clients -> [Limiters -> SUBSET Entries]] /\ Request \in Entries
  BY RateAssumption DEF Inv, TypeOK, Request, Entries
<1>2. CASE Admits(c, l, View(c, l), known) /\ ~Full(View(c, l))
  <2>1. MaxRequests - Cardinality(View(c, l)) - 1 \in Nat
    BY <1>2, RateAssumption, FS_CardinalityType DEF Full, Inv, ViewInv
  <2> HIDE DEF Full
  <2>q. QED
    BY <1>1, <1>2, <2>1 DEF Admits, Known, Answers
<1>3. CASE Rejects(c, l, View(c, l), known) /\ Full(View(c, l))
  <2>1. now + Second * RetryAfter(View(c, l)) \in Nat
    BY <1>3, RetryFrees
  <2>q. QED
    BY <1>1, <1>3, <2>1 DEF Rejects, Known, Answers
<1>q. QED
  BY <1>2, <1>3

\* The in-process check and the fallback keep the types.
LEMMA LocalCheckTypes ==
    ASSUME Inv, asked < MaxAsked, NEW p \in Processes, NEW c \in Clients, NEW known \in Known,
           LocalCheck(p, c, known)
    PROVE  /\ admitted' \in [Clients -> [Limiters -> SUBSET Entries]]
           /\ told' \in Known /\ answer' \in Answers
           /\ local' \in [Processes -> [Clients -> SUBSET Entries]]
<1>1. p \in Limiters /\ View(c, p) = Kept(local[p][c])
  BY RateAssumption DEF Limiters, View
<1>2. \/ Admits(c, p, View(c, p), known) /\ ~Full(View(c, p))
      \/ Rejects(c, p, View(c, p), known) /\ Full(View(c, p))
  BY <1>1 DEF LocalCheck
<1>3. /\ admitted' \in [Clients -> [Limiters -> SUBSET Entries]]
      /\ told' \in Known /\ answer' \in Answers
  BY <1>1, <1>2, AnswerTypes
<1>4. local' \in [Processes -> [Clients -> SUBSET Entries]]
  <2> DEFINE kept == [d \in Clients |-> Kept(local[p][d])]
  <2>1. kept \in [Clients -> SUBSET Entries] /\ Request \in Entries
        /\ local \in [Processes -> [Clients -> SUBSET Entries]]
    BY RateAssumption DEF Inv, TypeOK, Kept, Request, Entries
  <2>2. [kept EXCEPT ![c] = @ \cup {Request}] \in [Clients -> SUBSET Entries]
    BY <2>1
  <2>3. local' = [local EXCEPT ![p] = kept]
        \/ local' = [local EXCEPT ![p] = [kept EXCEPT ![c] = @ \cup {Request}]]
    BY DEF LocalCheck
  <2>q. QED
    BY <2>1, <2>2, <2>3
<1>q. QED
  BY <1>3, <1>4

LEMMA FallsTypes ==
    ASSUME Inv, asked < MaxAsked, NEW p \in Processes, NEW c \in Clients, NEW known \in Known,
           Falls(p, c, known)
    PROVE  /\ admitted' \in [Clients -> [Limiters -> SUBSET Entries]]
           /\ told' \in Known /\ answer' \in Answers
           /\ local' \in [Processes -> [Clients -> SUBSET Entries]]
<1>1. CASE LocalCheck(p, c, known)
  BY <1>1, LocalCheckTypes
<1>2. CASE UNCHANGED <<local, admitted>> /\ told' = known
           /\ answer' = [client |-> c, by |-> "redis", verdict |-> "unavailable"]
  BY <1>2 DEF Inv, TypeOK, Answers, Limiters
<1>q. QED
  BY <1>1, <1>2 DEF Falls

LEMMA CheckInv ==
    ASSUME Inv, NEW p \in Processes, NEW c \in Clients, Check(p, c)
    PROVE  Inv'
<1> USE RateAssumption
<1>1. /\ \A d \in Clients, l \in Limiters :
             Quiet(d, l) \/ Admitted(d, l) \/ Rejected(d, l) \/ Silent(d, l)
      /\ shared' \in [Clients -> SUBSET Entries] /\ lapses' \in [Clients -> Nat]
      /\ LapseInv'
  BY CheckViews
<1>2. now' = now /\ mode' = mode /\ asked' = asked + 1 /\ asked < MaxAsked
  BY DEF Check
<1>3. \A d \in Clients, l \in Limiters :
          ViewOf(d, l)' /\ told'[d][l].left \in Nat /\ told'[d][l].from \subseteq Nat
  BY <1>1, <1>2, CheckKeepsView
<1>4. ViewInv'
  BY <1>3 DEF ViewInv, ViewOf
<1>5. /\ admitted' \in [Clients -> [Limiters -> SUBSET Entries]]
      /\ told' \in Known /\ answer' \in Answers
      /\ local' \in [Processes -> [Clients -> SUBSET Entries]]
  <2>1. told \in Known /\ local \in [Processes -> [Clients -> SUBSET Entries]]
    BY DEF Inv, TypeOK, Known
  <2>2. CASE RedisCheck(c)
    <3>1. "redis" \in Limiters /\ Log(c) = View(c, "redis")
      BY LogIsView DEF Limiters
    <3>2. \/ Admits(c, "redis", View(c, "redis"), told) /\ ~Full(View(c, "redis"))
          \/ Rejects(c, "redis", View(c, "redis"), told) /\ Full(View(c, "redis"))
      BY <2>2, <3>1 DEF RedisCheck
    <3>3. local' = local
      BY <2>2 DEF RedisCheck
    <3>q. QED
      BY <1>2, <2>1, <3>1, <3>2, <3>3, AnswerTypes
  <2>3. CASE RedisFails(p, c)
    BY <1>2, <2>1, <2>3, FallsTypes DEF RedisFails
  <2>4. CASE ReplyLost(p, c)
    <3> DEFINE known == IF Full(Log(c)) THEN told
                        ELSE [told EXCEPT ![c]["redis"] =
                                 [left |-> IF @.left = 0 THEN 0 ELSE @.left - 1, from |-> {}]]
    <3>1. known \in Known
      <4>1. told[c]["redis"] \in [left : Nat, from : SUBSET Nat] /\ "redis" \in Limiters
        BY <2>1 DEF Known, Limiters
      <4>2. [left |-> IF told[c]["redis"].left = 0 THEN 0 ELSE told[c]["redis"].left - 1,
             from |-> {}] \in [left : Nat, from : SUBSET Nat]
        BY <4>1
      <4>q. QED
        BY <2>1, <4>1, <4>2 DEF Known
    <3>2. Falls(p, c, known)
      BY <2>4 DEF ReplyLost
    <3> HIDE DEF known
    <3>q. QED
      BY <1>2, <3>1, <3>2, FallsTypes
  <2>5. CASE WithoutRedis(p, c)
    BY <1>2, <2>1, <2>5, LocalCheckTypes DEF WithoutRedis
  <2>q. QED
    BY <2>2, <2>3, <2>4, <2>5 DEF Check
<1>6. TypeOK'
  BY <1>1, <1>2, <1>5 DEF Inv, TypeOK, Known, Answers
<1>q. QED
  BY <1>1, <1>4, <1>6 DEF Inv

LEMMA RestartInv == ASSUME Inv, NEW p \in Processes, Restart(p) PROVE Inv'
<1>1. p \in Limiters /\ p # "redis"
  BY RateAssumption DEF Limiters
<1>2. TypeOK'
  BY <1>1 DEF Restart, Inv, TypeOK, NoPromise
<1>3. ASSUME NEW c \in Clients, NEW l \in Limiters PROVE ViewOf(c, l)'
  <2>1. CASE l = p
    <3>1. View(c, l)' = {} /\ admitted'[c][l] = {} /\ told'[c][l] = NoPromise
      BY <1>1, <2>1 DEF Restart, View, Kept, Inv, TypeOK
    <3>q. QED
      BY <3>1, FS_EmptySet, RateAssumption DEF ViewOf, NoPromise
  <2>2. CASE l # p
    <3>1. View(c, l)' = View(c, l) /\ admitted'[c][l] = admitted[c][l]
          /\ told'[c][l] = told[c][l] /\ now' = now
      BY <1>1, <2>2 DEF Restart, View, Kept, Inv, TypeOK, Limiters
    <3>2. \A t : RoomAfter(c, l, t)' = RoomAfter(c, l, t)
      BY <3>1 DEF RoomAfter
    <3>q. QED
      BY <3>1, <3>2 DEF ViewOf, Inv, ViewInv
  <2>q. QED
    BY <2>1, <2>2
<1>q. QED
  BY <1>2, <1>3 DEF Inv, ViewInv, ViewOf, LapseInv, Restart

LEMMA TickInv == ASSUME Inv, Tick PROVE Inv'
<1> USE RateAssumption
<1>1. now' = now + 1 /\ now \in Nat /\ now' \in 0..MaxTime
  BY DEF Tick, Inv, TypeOK
<1>2. TypeOK'
  BY <1>1 DEF Tick, Inv, TypeOK
<1>3. ASSUME NEW c \in Clients, NEW l \in Limiters PROVE ViewOf(c, l)'
  <2>1. View(c, l) \subseteq Entries
    BY DEF View, Kept, Inv, TypeOK, Limiters
  <2>2. View(c, l)' = {e \in View(c, l) : e.at + Window > now'}
    BY <1>1, <2>1 DEF View, Kept, Tick, Entries, Inv, TypeOK, Limiters
  <2>3. ViewOf(c, l) /\ MaxRequests \in Nat
        /\ told[c][l].left \in Nat /\ told'[c][l] = told[c][l]
        /\ admitted'[c][l] = {e \in admitted[c][l] : e.at + Window > now'}
    BY DEF Inv, ViewInv, ViewOf, TypeOK, Tick
  <2>4. IsFiniteSet(View(c, l)') /\ Cardinality(View(c, l)') \in Nat
        /\ Cardinality(View(c, l)') <= Cardinality(View(c, l)) /\ Cardinality(View(c, l)) \in Nat
    BY <2>2, <2>3, Fewer, FS_CardinalityType DEF ViewOf
  <2>5. ASSUME NEW t, RoomAfter(c, l, t) PROVE RoomAfter(c, l, t)'
    <3>1. {e \in View(c, l)' : e.at + Window > t} \subseteq {e \in View(c, l) : e.at + Window > t}
      BY <2>2
    <3>2. IsFiniteSet({e \in View(c, l) : e.at + Window > t})
      BY <2>3, FS_Subset DEF ViewOf
    <3>3. Cardinality({e \in View(c, l)' : e.at + Window > t})
              <= Cardinality({e \in View(c, l) : e.at + Window > t})
          /\ Cardinality({e \in View(c, l)' : e.at + Window > t}) \in Nat
          /\ Cardinality({e \in View(c, l) : e.at + Window > t}) \in Nat
      BY <3>1, <3>2, Fewer, FS_CardinalityType
    <3>q. QED
      BY <2>3, <2>5, <3>3 DEF RoomAfter
  <2>6. \A e \in View(c, l)' : e.at <= now'
    BY <1>1, <2>1, <2>2, <2>3 DEF ViewOf, Entries
  <2>q. QED
    BY <2>2, <2>3, <2>4, <2>5, <2>6 DEF ViewOf
<1>q. QED
  BY <1>2, <1>3 DEF Inv, ViewInv, ViewOf, LapseInv, Tick

LEMMA StepInv == Inv /\ [Next]_vars => Inv'
<1> SUFFICES ASSUME Inv, [Next]_vars PROVE Inv'
  OBVIOUS
<1>1. CASE UNCHANGED vars
  <2>1. \A c, l, t : View(c, l)' = View(c, l) /\ RoomAfter(c, l, t)' = RoomAfter(c, l, t)
    BY <1>1 DEF vars, View, Kept, RoomAfter
  <2>2. ViewInv'
    BY <1>1, <2>1 DEF vars, Inv, ViewInv
  <2>q. QED
    BY <1>1, <2>2 DEF vars, Inv, TypeOK, LapseInv
<1>q. QED
  BY <1>1, CheckInv, RestartInv, TickInv DEF Next

\* Every variable keeps its type.
THEOREM TypeCorrect == Spec => []TypeOK
<1>1. Inv => TypeOK
  BY DEF Inv
<1>q. QED
  BY <1>1, InitInv, StepInv, PTL DEF Spec

\* README 128, for any number of processes and requests and whatever fails: a
\* limiter admits at most MaxRequests requests of a client in any window.
THEOREM WindowIsBounded == Spec => []WindowBound
<1>1. Inv => WindowBound
  <2> SUFFICES ASSUME Inv, NEW c \in Clients, NEW l \in Limiters
               PROVE  Cardinality(admitted[c][l]) <= MaxRequests
    BY DEF WindowBound
  <2>1. IsFiniteSet(View(c, l)) /\ Cardinality(View(c, l)) <= MaxRequests
        /\ admitted[c][l] \subseteq View(c, l)
    BY DEF Inv, ViewInv
  <2>q. QED
    BY <2>1, Fewer, FS_CardinalityType, RateAssumption
<1>q. QED
  BY <1>1, InitInv, StepInv, PTL DEF Spec

\* A rejected client is one of which the limiter's view is full.
LEMMA RejectedIsFull ==
    ASSUME Inv, NEW c \in Clients, NEW l \in Limiters, Next, RejectedBy(c, l)
    PROVE  Full(View(c, l))
<1> PICK p \in Processes, d \in Clients : Check(p, d)
  BY DEF Next, Restart, Tick, RejectedBy
<1>1. \A q \in Processes : View(d, q) = Kept(local[q][d]) /\ "redis" \notin Processes
  BY RateAssumption DEF View
<1>2. ASSUME NEW q \in Processes, NEW known, LocalCheck(q, d, known) PROVE Full(View(c, l))
  BY <1>1, <1>2 DEF LocalCheck, Admits, Rejects, RejectedBy
<1>3. ASSUME NEW known, Falls(p, d, known) PROVE Full(View(c, l))
  BY <1>2, <1>3 DEF Falls, RejectedBy
<1>4. CASE RedisCheck(d)
  <2>1. Log(d) = View(d, "redis")
    BY LogIsView
  <2>q. QED
    BY <1>4, <2>1 DEF RedisCheck, Admits, Rejects, RejectedBy
<1>q. QED
  BY <1>2, <1>3, <1>4 DEF Check, RedisFails, ReplyLost, WithoutRedis

\* The headers are kept, by Redis and by every process.
THEOREM HeadersAreHonest == Spec => HonestHeaders
<1>1. Inv /\ [Next]_vars =>
          [\A c \in Clients, l \in Limiters :
               RejectedBy(c, l) => told[c][l].left = 0 /\ \A t \in told[c][l].from : now < t]_vars
  <2> SUFFICES ASSUME Inv, Next, NEW c \in Clients, NEW l \in Limiters, RejectedBy(c, l)
               PROVE  told[c][l].left = 0 /\ \A t \in told[c][l].from : now < t
    OBVIOUS
  <2>1. Cardinality(View(c, l)) >= MaxRequests /\ Cardinality(View(c, l)) \in Nat
        /\ MaxRequests \in Nat /\ ViewOf(c, l) /\ now \in Nat /\ Window \in Nat
        /\ told[c][l].left \in Nat /\ told[c][l].from \subseteq Nat
    <3>1. ViewOf(c, l)
      BY DEF Inv, ViewInv, ViewOf
    <3>2. Cardinality(View(c, l)) \in Nat
      BY <3>1, FS_CardinalityType DEF ViewOf
    <3>3. Cardinality(View(c, l)) >= MaxRequests
      BY RejectedIsFull DEF Full
    <3>q. QED
      BY <3>1, <3>2, <3>3, RateAssumption DEF Inv, TypeOK
  <2>2. ASSUME NEW t \in told[c][l].from, t <= now PROVE FALSE
    <3>1. \A e \in View(c, l) : e.at \in Nat /\ e.at + Window > now
      BY DEF View, Kept, Inv, TypeOK, Limiters, Entries
    <3>2. {e \in View(c, l) : e.at + Window > t} = View(c, l)
      BY <2>1, <2>2, <3>1
    <3>q. QED
      BY <2>1, <2>2, <3>2 DEF ViewOf, RoomAfter
  <2>q. QED
    BY <2>1, <2>2 DEF ViewOf
<1>q. QED
  BY <1>1, InitInv, StepInv, PTL DEF Spec, HonestHeaders
=============================================================================
