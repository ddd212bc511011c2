------------------------------- MODULE Staleness -------------------------------
(***************************************************************************)
(* A history of staleness, kept beside a model of requests that read       *)
(* without a lock and write later: a request is outdated when another one  *)
(* has committed since it read, and a history is stale once an outdated    *)
(* request has committed.                                                  *)
(***************************************************************************)
VARIABLES
    outdated,  \* requests under way that have read what has changed since
    stale      \* whether one of them has committed nevertheless

NothingStale == outdated = {} /\ stale = FALSE

\* What a step adds to the history: whether it commits a change, and which
\* requests are under way after it.  A request that commits is not.
Observe(commits, under) ==
    /\ stale' = (stale \/ (commits /\ outdated \ under # {}))
    /\ outdated' = IF stale' THEN {}
                   ELSE IF commits THEN under ELSE outdated \cap under
=============================================================================
