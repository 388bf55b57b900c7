----------------------------- MODULE RDAPBootstrap -----------------------------
(***************************************************************************)
(* RDAPBootstrap.get_instance of services/rdap_bootstrap.py: the analyses  *)
(* of one process share one table of RDAP servers.  One of them downloads  *)
(* it while the others wait for the lock; whichever of them has it is      *)
(* cancelled, fails, or stores the table for RDAP_BOOTSTRAP_CACHE_TTL.     *)
(***************************************************************************)
EXTENDS Naturals, SequencesExt

CONSTANT Analyses

VARIABLES
    boot,       \* where each analysis is with its call
    table,      \* _instance with _loaded_at: absent, valid or expired
    waiters     \* the analyses at _load_lock, in order; the first has it

vars == <<boot, table, waiters>>

Asks(a) == boot[a] \in {"waiting", "loading"}

TypeOK ==
    /\ boot \in [Analyses -> {"idle", "waiting", "loading", "table", "failed"}]
    /\ table \in {"absent", "valid", "expired"}
    /\ waiters \in Seq(Analyses)

Init ==
    /\ boot = [a \in Analyses |-> "idle"]
    /\ table = "absent"
    /\ waiters = <<>>

-----------------------------------------------------------------------------
Goto(a, place) == boot' = [boot EXCEPT ![a] = place]
Unlock(a) == \E i \in DOMAIN waiters : waiters[i] = a /\ waiters' = RemoveAt(waiters, i)

\* get_instance: a valid table is returned at once; a free lock is taken at once.
get_instance(a) ==
    /\ boot[a] = "idle"
    /\ IF table = "valid"
       THEN Goto(a, "table") /\ UNCHANGED waiters
       ELSE /\ waiters' = Append(waiters, a)
            /\ Goto(a, IF waiters = <<>> THEN "loading" ELSE "waiting")
    /\ UNCHANGED table

\* Mutant: the table is not looked at again under the lock.
Locked_NoCheck(a) ==
    /\ boot[a] = "waiting" /\ Head(waiters) = a
    /\ Goto(a, "loading")
    /\ UNCHANGED <<table, waiters>>

\* A waiter has the lock; another may have stored the table meanwhile.
Locked(a) ==
    /\ boot[a] = "waiting" /\ Head(waiters) = a
    /\ IF table = "valid" THEN Goto(a, "table") /\ Unlock(a)
                          ELSE Goto(a, "loading") /\ UNCHANGED waiters
    /\ UNCHANGED table

\* The table is there only once it is whole.
Loaded(a) ==
    /\ boot[a] = "loading"
    /\ table' = "valid"
    /\ Goto(a, "table") /\ Unlock(a)

\* No answer after all retries, an open circuit, or a table without services.
LoadFails(a) ==
    /\ boot[a] = "loading"
    /\ Goto(a, "failed") /\ Unlock(a)
    /\ UNCHANGED table

\* Mutant: the lock of a cancelled download is not released.
GivesUp_KeepsLock(a) ==
    /\ Asks(a)
    /\ Goto(a, "failed")
    /\ IF boot[a] = "loading" THEN UNCHANGED waiters ELSE Unlock(a)
    /\ UNCHANGED table

\* The deadline of the analysis or its cancellation, at the lock or at the download.
GivesUp(a) ==
    /\ Asks(a)
    /\ Goto(a, "failed") /\ Unlock(a)
    /\ UNCHANGED table

Step(a) == Locked(a) \/ Loaded(a) \/ LoadFails(a) \/ GivesUp(a)

Expires == table = "valid" /\ table' = "expired" /\ UNCHANGED <<boot, waiters>>

-----------------------------------------------------------------------------
\* Whoever waits for the lock gets it in the end: it is held by an analysis that is
\* at work on the table, and queued for by those that wait, each once. A download
\* that fails, or is cancelled, takes no one else's call with it.
LockHasHolder ==
    /\ IsInjective(waiters)
    /\ ToSet(waiters) = {a \in Analyses : Asks(a)}
    /\ \A a \in Analyses : boot[a] = "loading" => Head(waiters) = a

\* The table is downloaded by one analysis at a time, and never while it is valid:
\* of all that miss it together one downloads, and the rest use what it stored.
NoNeedlessDownload ==
    \A a \in Analyses : boot[a] = "loading" =>
        table # "valid" /\ \A b \in Analyses : boot[b] = "loading" => b = a
=============================================================================
