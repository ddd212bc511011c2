---------------------------- MODULE MCAssetCustody ----------------------------
(***************************************************************************)
(* Instances of AssetCustody for TLC, with a history of staleness: what a  *)
(* request read is outdated when another one has committed since.          *)
(***************************************************************************)
EXTENDS AssetCustody, Staleness, TLC

Symmetric == Permutations(Session) \cup Permutations(Assignment)

rows  == <<status, deleted, assignments>>
Under == {s \in Session : pc[s] # "idle"}

FreshInit == Init /\ NothingStale

FreshNext == Next /\ Observe(rows' # rows, Under')

FreshSpec == FreshInit /\ [][FreshNext]_<<vars, outdated, stale>>

-----------------------------------------------------------------------------
(***************************************************************************)
(* The checks of the handlers keep what they are meant to keep as long as  *)
(* none of them acts on rows that changed after it read them: an asset in  *)
(* somebody's custody is shown as ASSIGNED and is not deleted, and how an  *)
(* assignment ended stays on record.                                       *)
(***************************************************************************)
FreshCustodyKept ==
    [][\/ stale'
       \/ /\ (CustodyShown /\ DeletedUnassigned)'
          /\ \A a \in Assignment : assignments[a] \in Closed => assignments'[a] = assignments[a]
      ]_<<vars, outdated, stale>>
=============================================================================
