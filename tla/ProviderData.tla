------------------------------ MODULE ProviderData ------------------------------
(***************************************************************************)
(* What the analyses of one process share of their providers' data: the    *)
(* table of RDAP servers, which an analysis asks for before its checks,    *)
(* and the cache of GeoIP records, which it uses once its DNS records are  *)
(* known (services/domain.py).  A failure of either ends only that part.   *)
(***************************************************************************)
EXTENDS GeoIPLookup

VARIABLES boot, table, waiters

bootVars == <<boot, table, waiters>>

Boot == INSTANCE RDAPBootstrap

vars == <<bootVars, cacheVars, geo>>

TypeOK == Boot!TypeOK /\ CacheTypeOK /\ GeoTypeOK

Init == Boot!Init /\ CacheInit /\ GeoInit

\* No other code runs, and no time passes to speak of, while records are stored.
Quiet == \A a \in Analyses : geo[a].pc # "storing"

LoadContext(a) ==
    /\ geo[a].pc = "idle" /\ Boot!get_instance(a)
    /\ UNCHANGED <<cacheVars, geo>>

LookUpAddresses(a) ==
    /\ boot[a] \in {"table", "failed"}
    /\ \E ips \in SUBSET Keys \ {{}} : Cardinality(ips) <= MaxIPs /\ lookup(a, ips)
    /\ Boot!Goto(a, "idle") /\ UNCHANGED <<table, waiters>>

\* The analysis is over; another may be started.
Ends(a) ==
    /\ geo[a].pc = "done"
    /\ geo' = [geo EXCEPT ![a] = NotLooking]
    /\ UNCHANGED <<bootVars, cacheVars>>

Downloads(a) == Boot!Step(a) /\ UNCHANGED <<cacheVars, geo>>
Works(a) == GeoStep(a) /\ UNCHANGED bootVars

\* Nothing in src/ calls these two.
Cleared == (Clear \/ \E k \in Keys : Delete(k)) /\ UNCHANGED <<now, geo, bootVars>>

Passes == Tick /\ UNCHANGED <<geo, bootVars>>

Next ==
    \/ \E a \in Analyses : Store(a) /\ UNCHANGED bootVars
    \/ /\ Quiet
       /\ \/ \E a \in Analyses :
                LoadContext(a) \/ Downloads(a) \/ LookUpAddresses(a) \/ Works(a) \/ Ends(a)
          \/ Boot!Expires /\ UNCHANGED <<cacheVars, geo>>
          \/ Cleared
          \/ Passes

Spec == Init /\ [][Next]_vars

-----------------------------------------------------------------------------
\* The properties of the table, with several analyses that come and go.
NoNeedlessDownload == Boot!NoNeedlessDownload
LockHasHolder == Boot!LockHasHolder
=============================================================================
