----------------------------- MODULE AssetCustody -----------------------------
(***************************************************************************)
(* One physical asset and its assignments, as the requests of              *)
(* InventoryService change them (backend/app/services/                     *)
(* inventory_service.py).                                                  *)
(*                                                                         *)
(* assign_asset locks the asset row FOR UPDATE before it looks; the other  *)
(* requests read without a lock, check what they read, and write when they *)
(* commit: another request may have committed in between.  A unique index  *)
(* allows one ACTIVE assignment of the asset.                              *)
(***************************************************************************)
CONSTANTS
    Session,     \* database sessions, one per request in flight
    NoOne,       \* the holder of the asset row when nobody locks it
    Assignment,  \* identifiers of asset_assignments, as many as a run makes
    NoAssignment

ASSUME CustodyAssumption == NoOne \notin Session /\ NoAssignment \notin Assignment

VARIABLES
    status,       \* physical_assets.status
    deleted,      \* physical_assets.is_deleted
    assignments,  \* asset_assignments.status, by assignment
    lock,         \* the session holding the asset row FOR UPDATE
    pc,           \* the request a session is in the middle of
    view          \* what it has read: the asset's status, the assignment

vars == <<status, deleted, assignments, lock, pc, view>>

AssetStatus == {"AVAILABLE", "ASSIGNED", "IN_REPAIR", "DAMAGED", "LOST",
                "RETIRED", "DISPOSED"}
Closed      == {"RETURNED", "TRANSFERRED"}

CustodyTypeOK ==
    /\ status \in AssetStatus
    /\ deleted \in BOOLEAN
    /\ assignments \in [Assignment -> {"ABSENT", "ACTIVE"} \cup Closed]
    /\ lock \in Session \cup {NoOne}
    /\ pc \in [Session -> {"idle", "assign", "return", "transfer",
                           "update", "retire", "delete"}]
    /\ view \in [Session -> [status : AssetStatus, assignment : Assignment \cup {NoAssignment}]]

-----------------------------------------------------------------------------
Active == {a \in Assignment : assignments[a] = "ACTIVE"}
Free   == lock = NoOne

NoView == [status |-> "AVAILABLE", assignment |-> NoAssignment]

\* A session that has read a status and writes another overwrites whatever is
\* committed, once the row is free; one that writes the same leaves it alone.
WriteStatus(s, new) ==
    /\ new # view[s].status => Free \/ lock = s
    /\ status' = IF new = view[s].status THEN status ELSE new

Load(s, op, a) ==
    /\ pc[s] = "idle"
    /\ pc' = [pc EXCEPT ![s] = op]
    /\ view' = [view EXCEPT ![s] = [status |-> status, assignment |-> a]]
    /\ UNCHANGED <<status, deleted, assignments>>

Finish(s) ==
    /\ pc' = [pc EXCEPT ![s] = "idle"]
    /\ view' = [view EXCEPT ![s] = NoView]
    /\ lock' = IF lock = s THEN NoOne ELSE lock

\* create_asset takes any status there is.
Init ==
    /\ status \in AssetStatus
    /\ deleted = FALSE
    /\ assignments = [a \in Assignment |-> "ABSENT"]
    /\ lock = NoOne
    /\ pc = [s \in Session |-> "idle"]
    /\ view = [s \in Session |-> NoView]

AssignLoad(s) ==
    /\ Free
    /\ ~deleted
    /\ status = "AVAILABLE"
    /\ Active = {}
    /\ Load(s, "assign", NoAssignment)
    /\ lock' = s

AssignCommit(s) ==
    /\ pc[s] = "assign"
    /\ Active = {}
    /\ \E new \in Assignment :
          /\ assignments[new] = "ABSENT"
          /\ assignments' = [assignments EXCEPT ![new] = "ACTIVE"]
    /\ WriteStatus(s, "ASSIGNED")
    /\ Finish(s)
    /\ UNCHANGED deleted

\* return_asset and transfer_asset_assignment look at the assignment only.
CloseLoad(s, op, a) ==
    /\ assignments[a] = "ACTIVE"
    /\ Load(s, op, a)
    /\ UNCHANGED lock

\* Mutant: the condition at return is written as the status.
ReturnCondition(s) ==
    /\ pc[s] = "return"
    /\ assignments' = [assignments EXCEPT ![view[s].assignment] = "RETURNED"]
    /\ \E new \in {"GOOD", "DAMAGED"} : WriteStatus(s, new)
    /\ Finish(s)
    /\ UNCHANGED deleted

ReturnCommit(s) ==
    /\ pc[s] = "return"
    /\ assignments' = [assignments EXCEPT ![view[s].assignment] = "RETURNED"]
    /\ \E new \in {"AVAILABLE", "DAMAGED"} : WriteStatus(s, new)
    /\ Finish(s)
    /\ UNCHANGED deleted

\* Mutant: nothing keeps a second assignment from being active.
TransferSecond(s) ==
    /\ pc[s] = "transfer"
    /\ Free
    /\ \E new \in Assignment :
          /\ assignments[new] = "ABSENT"
          /\ assignments' = [assignments EXCEPT ![view[s].assignment] = "TRANSFERRED",
                                                ![new] = "ACTIVE"]
    /\ WriteStatus(s, "ASSIGNED")
    /\ Finish(s)
    /\ UNCHANGED deleted

\* The old assignment is closed, then the new one inserted: the unique index
\* accepts it if no other assignment is active, and its foreign key waits for
\* the holder of the asset row.
TransferCommit(s) ==
    /\ pc[s] = "transfer"
    /\ Free
    /\ Active \subseteq {view[s].assignment}
    /\ \E new \in Assignment :
          /\ assignments[new] = "ABSENT"
          /\ assignments' = [assignments EXCEPT ![view[s].assignment] = "TRANSFERRED",
                                                ![new] = "ACTIVE"]
    /\ WriteStatus(s, "ASSIGNED")
    /\ Finish(s)
    /\ UNCHANGED deleted

\* Mutant: an assigned asset changes its status like any other.
UpdateLoadAny(s) == ~deleted /\ Load(s, "update", NoAssignment) /\ UNCHANGED lock

\* update_asset with a new status: not of an asset in somebody's custody.
UpdateLoad(s) ==
    /\ ~deleted
    /\ status = "ASSIGNED" => Active = {}
    /\ Load(s, "update", NoAssignment)
    /\ UNCHANGED lock

UpdateCommit(s) ==
    /\ pc[s] = "update"
    /\ \E new \in AssetStatus \ {"ASSIGNED", view[s].status} : WriteStatus(s, new)
    /\ Finish(s)
    /\ UNCHANGED <<deleted, assignments>>

RetireLoad(s) ==
    /\ ~deleted
    /\ status # "ASSIGNED"
    /\ Load(s, "retire", NoAssignment)
    /\ UNCHANGED lock

RetireCommit(s) ==
    /\ pc[s] = "retire"
    /\ \E new \in {"RETIRED", "DISPOSED"} : WriteStatus(s, new)
    /\ Finish(s)
    /\ UNCHANGED <<deleted, assignments>>

DeleteLoad(s) ==
    /\ ~deleted
    /\ Active = {}
    /\ Load(s, "delete", NoAssignment)
    /\ UNCHANGED lock

DeleteCommit(s) ==
    /\ pc[s] = "delete"
    /\ Free
    /\ deleted' = TRUE
    /\ Finish(s)
    /\ UNCHANGED <<status, assignments>>

\* The request fails or dies: its transaction is rolled back.
Abort(s) ==
    /\ pc[s] # "idle"
    /\ Finish(s)
    /\ UNCHANGED <<status, deleted, assignments>>

Next == \E s \in Session :
    \/ AssignLoad(s) \/ AssignCommit(s)
    \/ \E a \in Assignment, op \in {"return", "transfer"} : CloseLoad(s, op, a)
    \/ ReturnCommit(s) \/ TransferCommit(s)
    \/ UpdateLoad(s) \/ UpdateCommit(s)
    \/ RetireLoad(s) \/ RetireCommit(s)
    \/ DeleteLoad(s) \/ DeleteCommit(s)
    \/ Abort(s)

Spec == Init /\ [][Next]_vars

-----------------------------------------------------------------------------
\* Whatever requests overlap, the asset has at most one custodian, and an
\* assignment that was closed does not become active again.
Abstract == INSTANCE AbstractCustody WITH
                custody <- Active,
                ended   <- {a \in Assignment : assignments[a] \in Closed}
ImplementsCustody == Abstract!Spec

(***************************************************************************)
(* What each request checks before it writes.  It holds of requests that   *)
(* follow one another.                                                     *)
(***************************************************************************)

\* update_asset and retire_asset refuse an assigned asset, and return_asset
\* frees one whose assignment it closes: an asset in somebody's custody is
\* shown as ASSIGNED.
CustodyShown == Active # {} => status = "ASSIGNED"

\* delete_asset refuses an asset with an active assignment, and assign_asset
\* does not find a deleted one.
DeletedUnassigned == deleted => Active = {}

=============================================================================
