--------------------------- MODULE AssetCustodyProofs ---------------------------
(***************************************************************************)
(* Proofs about AssetCustody for every set of sessions and assignments.    *)
(***************************************************************************)
EXTENDS MCAssetCustody, TLAPS

\* A request that closes an assignment has read one that exists.
ClosesExisting ==
    \A s \in Session : pc[s] \in {"return", "transfer"} =>
        /\ view[s].assignment \in Assignment
        /\ assignments[view[s].assignment] # "ABSENT"

\* The inductive invariant.
CustodyInv ==
    /\ CustodyTypeOK
    /\ ClosesExisting
    /\ \A a, b \in Active : a = b

-----------------------------------------------------------------------------
\* What the end of a request leaves of the other requests.
LEMMA FinishFacts ==
    ASSUME CustodyInv, NEW s \in Session, Finish(s)
    PROVE  /\ pc' \in [Session -> {"idle", "assign", "return", "transfer",
                                   "update", "retire", "delete"}]
           /\ view' \in [Session -> [status : AssetStatus,
                                     assignment : Assignment \cup {NoAssignment}]]
           /\ lock' \in Session \cup {NoOne}
           /\ pc'[s] = "idle"
           /\ \A t \in Session \ {s} : pc'[t] = pc[t] /\ view'[t] = view[t]
BY DEF Finish, CustodyInv, CustodyTypeOK, NoView, AssetStatus

\* A request that ends leaves the invariant if it writes a status there is, and
\* its assignments are at most one that is active and none that disappears.
LEMMA EndInv ==
    ASSUME CustodyInv, NEW s \in Session, Finish(s),
           status' \in AssetStatus, deleted' \in BOOLEAN,
           assignments' \in [Assignment -> {"ABSENT", "ACTIVE"} \cup Closed],
           \A a \in Assignment : assignments[a] # "ABSENT" => assignments'[a] # "ABSENT",
           \A a, b \in Active' : a = b
    PROVE  CustodyInv'
<1>1. /\ pc' \in [Session -> {"idle", "assign", "return", "transfer",
                              "update", "retire", "delete"}]
      /\ view' \in [Session -> [status : AssetStatus,
                                assignment : Assignment \cup {NoAssignment}]]
      /\ lock' \in Session \cup {NoOne}
      /\ pc'[s] = "idle"
      /\ \A t \in Session \ {s} : pc'[t] = pc[t] /\ view'[t] = view[t]
  BY FinishFacts
<1>2. CustodyTypeOK'
  BY <1>1 DEF CustodyTypeOK
<1>3. ClosesExisting'
  BY <1>1 DEF CustodyInv, ClosesExisting
<1> QED
  BY <1>2, <1>3 DEF CustodyInv

\* A request that begins keeps the invariant if the assignment it has read
\* exists.
LEMMA LoadInv ==
    ASSUME CustodyInv, NEW s \in Session,
           NEW op \in {"assign", "return", "transfer", "update", "retire", "delete"},
           NEW a \in Assignment \cup {NoAssignment},
           Load(s, op, a), lock' \in Session \cup {NoOne},
           op \in {"return", "transfer"} => a \in Assignment /\ assignments[a] # "ABSENT"
    PROVE  CustodyInv'
<1>1. /\ pc' = [pc EXCEPT ![s] = op]
      /\ view' = [view EXCEPT ![s] = [status |-> status, assignment |-> a]]
      /\ UNCHANGED <<status, deleted, assignments>>
  BY DEF Load
<1>2. CustodyTypeOK'
  BY <1>1 DEF CustodyInv, CustodyTypeOK
<1>3. ClosesExisting'
  BY <1>1 DEF CustodyInv, CustodyTypeOK, ClosesExisting
<1>4. Active' = Active
  BY <1>1 DEF Active
<1> QED
  BY <1>2, <1>3, <1>4 DEF CustodyInv

\* A status is written only if it is one.
LEMMA WriteStatusType ==
    ASSUME CustodyInv, NEW s \in Session, NEW new \in AssetStatus, WriteStatus(s, new)
    PROVE  status' \in AssetStatus
BY DEF WriteStatus, CustodyInv, CustodyTypeOK

\* A new assignment is given when nobody has the asset.
LEMMA AssignCommitFacts ==
    ASSUME CustodyInv, NEW s \in Session, AssignCommit(s)
    PROVE  CustodyInv' /\ Abstract!Next
<1>1. PICK new \in Assignment :
          /\ assignments[new] = "ABSENT"
          /\ assignments' = [assignments EXCEPT ![new] = "ACTIVE"]
  BY DEF AssignCommit
<1>2. /\ Active = {} /\ WriteStatus(s, "ASSIGNED") /\ Finish(s) /\ deleted' = deleted
  BY DEF AssignCommit
<1>3. /\ assignments' \in [Assignment -> {"ABSENT", "ACTIVE"} \cup Closed]
      /\ \A a \in Assignment : assignments'[a] = IF a = new THEN "ACTIVE" ELSE assignments[a]
  BY <1>1 DEF CustodyInv, CustodyTypeOK
<1>4. Active' = {new}
  BY <1>2, <1>3 DEF Active
<1>5. CustodyInv'
  <2>1. status' \in AssetStatus
    BY <1>2, WriteStatusType DEF AssetStatus
  <2>2. deleted' \in BOOLEAN
    BY <1>2 DEF CustodyInv, CustodyTypeOK
  <2> QED
    BY <1>2, <1>3, <1>4, <2>1, <2>2, EndInv
<1>6. new \notin Active \cup {a \in Assignment : assignments[a] \in Closed}
  BY <1>1 DEF Active, Closed
<1>7. {a \in Assignment : assignments'[a] \in Closed} = {a \in Assignment : assignments[a] \in Closed}
  BY <1>1, <1>3 DEF Closed
<1>8. Abstract!Give(new)
  BY <1>2, <1>4, <1>6, <1>7 DEF Abstract!Give, Abstract!New
<1> QED
  BY <1>5, <1>8 DEF Abstract!Next

\* A return ends the custody of the assignment it has read, or overwrites how a
\* closed one ended.
LEMMA ReturnCommitFacts ==
    ASSUME CustodyInv, NEW s \in Session, ReturnCommit(s)
    PROVE  /\ CustodyInv'
           /\ \/ Abstract!Next
              \/ /\ Active' = Active
                 /\ {a \in Assignment : assignments'[a] \in Closed} =
                       {a \in Assignment : assignments[a] \in Closed}
<1>1. PICK old \in Assignment : old = view[s].assignment /\ assignments[old] # "ABSENT"
  BY DEF ReturnCommit, CustodyInv, ClosesExisting
<1>2. /\ assignments' = [assignments EXCEPT ![old] = "RETURNED"]
      /\ \E new \in {"AVAILABLE", "DAMAGED"} : WriteStatus(s, new)
      /\ Finish(s) /\ deleted' = deleted
  BY <1>1 DEF ReturnCommit
<1>3. /\ assignments' \in [Assignment -> {"ABSENT", "ACTIVE"} \cup Closed]
      /\ \A a \in Assignment : assignments'[a] = IF a = old THEN "RETURNED" ELSE assignments[a]
  BY <1>1, <1>2 DEF CustodyInv, CustodyTypeOK, Closed
<1>4. Active' = Active \ {old}
  BY <1>1, <1>3 DEF Active
<1>5. {a \in Assignment : assignments'[a] \in Closed} =
         {a \in Assignment : assignments[a] \in Closed} \cup {old}
  BY <1>1, <1>3 DEF Closed
<1>6. CustodyInv'
  <2>1. status' \in AssetStatus
    BY <1>2, WriteStatusType DEF AssetStatus
  <2>2. deleted' \in BOOLEAN
    BY <1>2 DEF CustodyInv, CustodyTypeOK
  <2>3. \A a, b \in Active' : a = b
    BY <1>4 DEF CustodyInv
  <2>4. \A a \in Assignment : assignments[a] # "ABSENT" => assignments'[a] # "ABSENT"
    BY <1>3
  <2> QED
    BY <1>2, <1>3, <2>1, <2>2, <2>3, <2>4, EndInv
<1>7. CASE old \in Active
  <2>1. Active = {old}
    BY <1>7 DEF CustodyInv
  <2>2. Abstract!TakeBack(old)
    BY <1>4, <1>5, <2>1 DEF Abstract!TakeBack
  <2>3. Abstract!Next
    BY <2>2 DEF Abstract!Next
  <2> QED
    BY <1>6, <2>3
<1>8. CASE old \notin Active
  <2>1. assignments[old] \in Closed
    BY <1>1, <1>8 DEF Active, CustodyInv, CustodyTypeOK
  <2> QED
    BY <1>1, <1>4, <1>5, <1>6, <1>8, <2>1
<1> QED
  BY <1>7, <1>8

\* A transfer hands the asset over, or gives it anew if the assignment it has
\* read was closed meanwhile.
LEMMA TransferCommitFacts ==
    ASSUME CustodyInv, NEW s \in Session, TransferCommit(s)
    PROVE  CustodyInv' /\ Abstract!Next
<1> DEFINE old == view[s].assignment
<1>1. old \in Assignment /\ assignments[old] # "ABSENT"
  BY DEF TransferCommit, CustodyInv, ClosesExisting
<1>2. PICK new \in Assignment :
          /\ assignments[new] = "ABSENT"
          /\ assignments' = [assignments EXCEPT ![old] = "TRANSFERRED", ![new] = "ACTIVE"]
  BY DEF TransferCommit
<1>3. /\ Active \subseteq {old} /\ WriteStatus(s, "ASSIGNED") /\ Finish(s) /\ deleted' = deleted
  BY DEF TransferCommit
<1>4. new # old
  BY <1>1, <1>2
<1>5. /\ assignments' \in [Assignment -> {"ABSENT", "ACTIVE"} \cup Closed]
      /\ \A a \in Assignment : assignments'[a] = IF a = new THEN "ACTIVE"
                                                 ELSE IF a = old THEN "TRANSFERRED"
                                                 ELSE assignments[a]
  BY <1>1, <1>2, <1>4 DEF CustodyInv, CustodyTypeOK, Closed
<1>6. Active' = {new}
  BY <1>3, <1>5 DEF Active
<1>7. {a \in Assignment : assignments'[a] \in Closed} =
         {a \in Assignment : assignments[a] \in Closed} \cup {old}
  BY <1>1, <1>2, <1>4, <1>5 DEF Closed
<1>8. CustodyInv'
  <2>1. status' \in AssetStatus
    BY <1>3, WriteStatusType DEF AssetStatus
  <2>2. deleted' \in BOOLEAN
    BY <1>3 DEF CustodyInv, CustodyTypeOK
  <2>3. \A a \in Assignment : assignments[a] # "ABSENT" => assignments'[a] # "ABSENT"
    BY <1>5
  <2> QED
    BY <1>3, <1>5, <1>6, <2>1, <2>2, <2>3, EndInv
<1>9. new \notin Active \cup {a \in Assignment : assignments[a] \in Closed}
  BY <1>2 DEF Active, Closed
<1>10. CASE Active = {}
  <2>1. assignments[old] \in Closed
    BY <1>1, <1>10 DEF Active, CustodyInv, CustodyTypeOK
  <2>2. Abstract!Give(new)
    BY <1>1, <1>6, <1>7, <1>9, <1>10, <2>1 DEF Abstract!Give, Abstract!New
  <2> QED
    BY <1>8, <2>2 DEF Abstract!Next
<1>11. CASE Active # {}
  <2>1. Active = {old}
    BY <1>3, <1>11
  <2>2. Abstract!HandOver(old, new)
    BY <1>6, <1>7, <1>9, <2>1 DEF Abstract!HandOver, Abstract!New
  <2> QED
    BY <1>1, <1>8, <2>2 DEF Abstract!Next
<1> QED
  BY <1>10, <1>11

\* A request that writes no assignment keeps the invariant.
LEMMA OtherInv ==
    ASSUME CustodyInv, NEW s \in Session,
           UpdateCommit(s) \/ RetireCommit(s) \/ DeleteCommit(s) \/ Abort(s)
    PROVE  CustodyInv'
<1>1. Finish(s) /\ assignments' = assignments
  BY DEF UpdateCommit, RetireCommit, DeleteCommit, Abort
<1>2. status' \in AssetStatus
  <2>1. CASE UpdateCommit(s)
    BY <2>1, WriteStatusType DEF UpdateCommit
  <2>2. CASE RetireCommit(s)
    BY <2>2, WriteStatusType DEF RetireCommit, AssetStatus
  <2>3. CASE DeleteCommit(s) \/ Abort(s)
    BY <2>3 DEF DeleteCommit, Abort, CustodyInv, CustodyTypeOK
  <2> QED
    BY <2>1, <2>2, <2>3
<1>3. deleted' \in BOOLEAN
  BY DEF UpdateCommit, RetireCommit, DeleteCommit, Abort, CustodyInv, CustodyTypeOK
<1>4. Active' = Active
  BY <1>1 DEF Active
<1>5. assignments \in [Assignment -> {"ABSENT", "ACTIVE"} \cup Closed] /\ \A a, b \in Active : a = b
  BY DEF CustodyInv, CustodyTypeOK
<1> QED
  BY <1>1, <1>2, <1>3, <1>4, <1>5, EndInv

\* Every first half of a request keeps the invariant.
LEMMA LoadsInv ==
    ASSUME CustodyInv, NEW s \in Session,
           \/ AssignLoad(s) \/ UpdateLoad(s) \/ RetireLoad(s) \/ DeleteLoad(s)
           \/ \E a \in Assignment, op \in {"return", "transfer"} : CloseLoad(s, op, a)
    PROVE  CustodyInv'
<1>1. lock \in Session \cup {NoOne}
  BY DEF CustodyInv, CustodyTypeOK
<1>2. CASE AssignLoad(s)
  BY <1>2, LoadInv DEF AssignLoad
<1>3. CASE UpdateLoad(s)
  BY <1>1, <1>3, LoadInv DEF UpdateLoad
<1>4. CASE RetireLoad(s)
  BY <1>1, <1>4, LoadInv DEF RetireLoad
<1>5. CASE DeleteLoad(s)
  BY <1>1, <1>5, LoadInv DEF DeleteLoad
<1>6. CASE \E a \in Assignment, op \in {"return", "transfer"} : CloseLoad(s, op, a)
  <2>1. PICK a \in Assignment, op \in {"return", "transfer"} : CloseLoad(s, op, a)
    BY <1>6
  <2>2. Load(s, op, a) /\ lock' = lock /\ assignments[a] # "ABSENT"
    BY <2>1 DEF CloseLoad
  <2> QED
    BY <1>1, <2>2, LoadInv
<1> QED
  BY <1>2, <1>3, <1>4, <1>5, <1>6

-----------------------------------------------------------------------------
\* Every step keeps the invariant and is a step of the abstract custody, or
\* leaves it alone.
LEMMA StepFacts ==
    ASSUME CustodyInv, [Next]_vars
    PROVE  /\ CustodyInv'
           /\ \/ Abstract!Next
              \/ /\ Active' = Active
                 /\ {a \in Assignment : assignments'[a] \in Closed} =
                       {a \in Assignment : assignments[a] \in Closed}
<1>1. CASE UNCHANGED vars
  BY <1>1 DEF vars, CustodyInv, CustodyTypeOK, ClosesExisting, Active
<1>2. ASSUME NEW s \in Session, AssignCommit(s) PROVE CustodyInv' /\ Abstract!Next
  BY <1>2, AssignCommitFacts
<1>3. ASSUME NEW s \in Session, TransferCommit(s) PROVE CustodyInv' /\ Abstract!Next
  BY <1>3, TransferCommitFacts
<1>4. ASSUME NEW s \in Session, ReturnCommit(s)
      PROVE  /\ CustodyInv'
             /\ \/ Abstract!Next
                \/ /\ Active' = Active
                   /\ {a \in Assignment : assignments'[a] \in Closed} =
                         {a \in Assignment : assignments[a] \in Closed}
  BY <1>4, ReturnCommitFacts
<1>5. ASSUME NEW s \in Session,
             UpdateCommit(s) \/ RetireCommit(s) \/ DeleteCommit(s) \/ Abort(s)
      PROVE  CustodyInv' /\ assignments' = assignments
  BY <1>5, OtherInv DEF UpdateCommit, RetireCommit, DeleteCommit, Abort
<1>6. ASSUME NEW s \in Session,
             \/ AssignLoad(s) \/ UpdateLoad(s) \/ RetireLoad(s) \/ DeleteLoad(s)
             \/ \E a \in Assignment, op \in {"return", "transfer"} : CloseLoad(s, op, a)
      PROVE  CustodyInv' /\ assignments' = assignments
  BY <1>6, LoadsInv DEF AssignLoad, UpdateLoad, RetireLoad, DeleteLoad, CloseLoad, Load
<1>7. assignments' = assignments =>
         /\ Active' = Active
         /\ {a \in Assignment : assignments'[a] \in Closed} =
               {a \in Assignment : assignments[a] \in Closed}
  BY DEF Active
<1> QED
  BY <1>1, <1>2, <1>3, <1>4, <1>5, <1>6, <1>7 DEF Next

\* A new asset has no assignment.
LEMMA CustodyInvInit == Init => CustodyInv
<1> SUFFICES ASSUME Init PROVE CustodyInv
  OBVIOUS
<1>1. CustodyTypeOK
  BY DEF Init, CustodyTypeOK, NoView, AssetStatus
<1>2. Active = {}
  BY DEF Init, Active
<1>3. ClosesExisting
  BY DEF Init, ClosesExisting
<1> QED
  BY <1>1, <1>2, <1>3 DEF CustodyInv

\* Every reachable state satisfies the inductive invariant.
THEOREM CustodyInvariant == Spec => []CustodyInv
<1>1. CustodyInv /\ [Next]_vars => CustodyInv'
  BY StepFacts
<1> QED
  BY CustodyInvInit, <1>1, PTL DEF Spec

\* Every value stored about an asset has its type: in particular, the status
\* written at a return is one of the asset's, not the condition it came back in.
THEOREM CustodyTypeCorrect == Spec => []CustodyTypeOK
<1>1. CustodyInv => CustodyTypeOK
  BY DEF CustodyInv
<1> QED
  BY <1>1, CustodyInvariant, PTL

\* Whatever requests overlap, an asset has one custodian at most, and what has
\* ended does not hold it again.
THEOREM CustodyImplementsAbstract == Spec => ImplementsCustody
<1>1. Init => Abstract!Init
  BY DEF Init, Abstract!Init, Active, Closed
<1>2. CustodyInv /\ [Next]_vars =>
        [Abstract!Next]_<<Active, {a \in Assignment : assignments[a] \in Closed}>>
  <2> SUFFICES ASSUME CustodyInv, [Next]_vars
               PROVE  [Abstract!Next]_<<Active, {a \in Assignment : assignments[a] \in Closed}>>
    OBVIOUS
  <2>1. \/ Abstract!Next
        \/ /\ Active' = Active
           /\ {a \in Assignment : assignments'[a] \in Closed} =
                 {a \in Assignment : assignments[a] \in Closed}
    BY StepFacts
  <2> QED
    BY <2>1
<1> QED
  BY <1>1, <1>2, CustodyInvariant, PTL DEF Spec, ImplementsCustody, Abstract!Spec

-----------------------------------------------------------------------------
(***************************************************************************)
(* Histories in which no request commits after another one has changed the *)
(* asset under it.                                                         *)
(***************************************************************************)

\* What session s has read, and what it has checked of it, is still so.
StillRead(s) ==
    /\ view[s].status = status
    /\ pc[s] \in {"return", "transfer"} => assignments[view[s].assignment] = "ACTIVE"
    /\ pc[s] \in {"assign", "update", "retire", "delete"} => Active = {}
    /\ pc[s] = "assign" => ~deleted

FreshInv ==
    /\ CustodyInv
    /\ ~stale => /\ CustodyShown /\ DeletedUnassigned
                 /\ \A s \in Session \ outdated : pc[s] # "idle" => StillRead(s)

\* What the property says of a step that commits.
Kept ==
    /\ (CustodyShown /\ DeletedUnassigned)'
    /\ \A a \in Assignment : assignments[a] \in Closed => assignments'[a] = assignments[a]

\* An asset is assigned when nobody has it, and shown as what it then is.
LEMMA FreshAssign ==
    ASSUME CustodyInv, NEW s \in Session, StillRead(s), AssignCommit(s)
    PROVE  Kept
<1>1. PICK new \in Assignment :
          /\ assignments[new] = "ABSENT"
          /\ assignments' = [assignments EXCEPT ![new] = "ACTIVE"]
  BY DEF AssignCommit
<1>2. /\ pc[s] = "assign" /\ WriteStatus(s, "ASSIGNED") /\ deleted' = deleted
  BY DEF AssignCommit
<1>3. status' = "ASSIGNED" /\ ~deleted
  BY <1>2 DEF WriteStatus, StillRead
<1> QED
  BY <1>1, <1>2, <1>3 DEF Kept, CustodyShown, DeletedUnassigned, Closed, CustodyInv, CustodyTypeOK

\* The assignment that is closed was the active one: nobody has the asset.
LEMMA FreshReturn ==
    ASSUME CustodyInv, NEW s \in Session, StillRead(s), ReturnCommit(s)
    PROVE  Kept
<1> DEFINE old == view[s].assignment
<1>1. /\ old \in Assignment /\ assignments[old] = "ACTIVE"
      /\ assignments' = [assignments EXCEPT ![old] = "RETURNED"]
  BY DEF ReturnCommit, CustodyInv, ClosesExisting, StillRead
<1>2. Active = {old}
  BY <1>1 DEF Active, CustodyInv
<1>3. Active' = {}
  BY <1>1, <1>2 DEF Active, CustodyInv, CustodyTypeOK
<1> QED
  BY <1>1, <1>3 DEF Kept, CustodyShown, DeletedUnassigned, Closed, CustodyInv, CustodyTypeOK

\* A transfer leaves the asset with one custodian, and shown so.
LEMMA FreshTransfer ==
    ASSUME CustodyInv, CustodyShown, DeletedUnassigned,
           NEW s \in Session, StillRead(s), TransferCommit(s)
    PROVE  Kept
<1> DEFINE old == view[s].assignment
<1>1. /\ old \in Assignment /\ assignments[old] = "ACTIVE"
      /\ WriteStatus(s, "ASSIGNED") /\ deleted' = deleted
  BY DEF TransferCommit, CustodyInv, ClosesExisting, StillRead
<1>2. PICK new \in Assignment :
          /\ assignments[new] = "ABSENT"
          /\ assignments' = [assignments EXCEPT ![old] = "TRANSFERRED", ![new] = "ACTIVE"]
  BY DEF TransferCommit
<1>3. Active # {}
  BY <1>1 DEF Active
<1>4. status' = "ASSIGNED" /\ ~deleted'
  BY <1>1, <1>3 DEF WriteStatus, StillRead, CustodyShown, DeletedUnassigned
<1>5. \A a \in Assignment : assignments[a] \in Closed => assignments'[a] = assignments[a]
  BY <1>1, <1>2 DEF Closed, CustodyInv, CustodyTypeOK
<1> QED
  BY <1>4, <1>5 DEF Kept, CustodyShown, DeletedUnassigned

\* The other requests found the asset with nobody.
LEMMA FreshOther ==
    ASSUME CustodyInv, NEW s \in Session, StillRead(s),
           UpdateCommit(s) \/ RetireCommit(s) \/ DeleteCommit(s)
    PROVE  Kept
<1>1. Active = {} /\ assignments' = assignments
  BY DEF StillRead, UpdateCommit, RetireCommit, DeleteCommit
<1>2. Active' = {}
  BY <1>1 DEF Active
<1> QED
  BY <1>1, <1>2 DEF Kept, CustodyShown, DeletedUnassigned

\* Only a commit changes the rows, and it ends its request.
LEMMA RowsChange ==
    ASSUME CustodyInv, Next, rows' # rows
    PROVE  \E s \in Session :
              /\ \/ AssignCommit(s) \/ ReturnCommit(s) \/ TransferCommit(s)
                 \/ UpdateCommit(s) \/ RetireCommit(s) \/ DeleteCommit(s)
              /\ pc[s] # "idle" /\ pc'[s] = "idle"
<1>1. PICK s \in Session :
          \/ AssignCommit(s) \/ ReturnCommit(s) \/ TransferCommit(s)
          \/ UpdateCommit(s) \/ RetireCommit(s) \/ DeleteCommit(s)
  BY DEF Next, AssignLoad, CloseLoad, UpdateLoad, RetireLoad, DeleteLoad, Load, Abort, rows
<1>2. Finish(s) /\ pc[s] # "idle"
  BY <1>1 DEF AssignCommit, ReturnCommit, TransferCommit, UpdateCommit, RetireCommit, DeleteCommit
<1> QED
  BY <1>1, <1>2, FinishFacts

\* A request that begins has read the rows as they are, and they stay so until
\* another one commits.
LEMMA FreshWait ==
    ASSUME CustodyInv, CustodyShown, Next, UNCHANGED rows, NEW t \in Session,
           pc[t] # "idle" => StillRead(t), pc'[t] # "idle"
    PROVE  StillRead(t)'
<1>1. /\ UNCHANGED <<status, deleted, assignments>> /\ Active' = Active
  BY DEF rows, Active
<1>2. PICK s \in Session :
        \/ AssignLoad(s) \/ UpdateLoad(s) \/ RetireLoad(s) \/ DeleteLoad(s)
        \/ \E a \in Assignment, op \in {"return", "transfer"} : CloseLoad(s, op, a)
        \/ Finish(s)
  BY DEF Next, AssignCommit, ReturnCommit, TransferCommit, UpdateCommit, RetireCommit,
         DeleteCommit, Abort
<1>3. CASE pc'[t] = pc[t] /\ view'[t] = view[t]
  BY <1>1, <1>3 DEF StillRead
<1>4. CASE Finish(s)
  BY <1>3, <1>4, FinishFacts
<1>5. ASSUME NEW op \in {"assign", "return", "transfer", "update", "retire", "delete"},
             NEW a \in Assignment \cup {NoAssignment},
             Load(s, op, a),
             op \in {"return", "transfer"} => assignments[a] = "ACTIVE",
             op \in {"assign", "update", "retire", "delete"} => Active = {},
             op = "assign" => ~deleted
      PROVE  StillRead(t)'
  <2>1. CASE t # s
    BY <1>3, <1>5, <2>1 DEF Load, CustodyInv, CustodyTypeOK
  <2>2. CASE t = s
    BY <1>1, <1>5, <2>2 DEF Load, StillRead, CustodyInv, CustodyTypeOK
  <2> QED
    BY <2>1, <2>2
<1>6. CASE AssignLoad(s)
  BY <1>5, <1>6 DEF AssignLoad
<1>7. CASE UpdateLoad(s) \/ RetireLoad(s)
  <2>1. Active = {}
    BY <1>7 DEF UpdateLoad, RetireLoad, CustodyShown
  <2> QED
    BY <1>5, <1>7, <2>1 DEF UpdateLoad, RetireLoad
<1>8. CASE DeleteLoad(s)
  BY <1>5, <1>8 DEF DeleteLoad
<1>9. CASE \E a \in Assignment, op \in {"return", "transfer"} : CloseLoad(s, op, a)
  BY <1>5, <1>9 DEF CloseLoad
<1> QED
  BY <1>2, <1>4, <1>6, <1>7, <1>8, <1>9

\* Every step keeps the invariant, and what it says of a step.
LEMMA FreshStep ==
    ASSUME FreshInv, FreshNext
    PROVE  FreshInv' /\ (stale' \/ Kept)
<1>1. CustodyInv /\ CustodyInv' /\ Next
  BY StepFacts DEF FreshInv, FreshNext
<1>2. CASE stale'
  <2>1. FreshInv'
    BY <1>1, <1>2, Zenon DEF FreshInv
  <2> QED
    BY <1>2, <2>1, Zenon
<1>3. CASE ~stale' /\ rows' # rows
  <2>1. ~stale /\ outdated \subseteq Under' /\ outdated' = Under'
    BY <1>3 DEF FreshNext, Observe
  <2>2. PICK s \in Session :
          /\ \/ AssignCommit(s) \/ ReturnCommit(s) \/ TransferCommit(s)
             \/ UpdateCommit(s) \/ RetireCommit(s) \/ DeleteCommit(s)
          /\ pc[s] # "idle" /\ pc'[s] = "idle"
    BY <1>1, <1>3, RowsChange
  <2>3. s \notin outdated
    BY <2>1, <2>2 DEF Under
  <2>4. CustodyShown /\ DeletedUnassigned /\ StillRead(s)
    BY <2>1, <2>2, <2>3 DEF FreshInv
  <2>5. Kept
    BY <1>1, <2>2, <2>4, FreshAssign, FreshReturn, FreshTransfer, FreshOther
  <2>6. \A t \in Session \ outdated' : pc'[t] = "idle"
    BY <2>1 DEF Under
  <2> QED
    BY <1>1, <2>5, <2>6 DEF FreshInv, Kept
<1>4. CASE ~stale' /\ rows' = rows
  <2>1. ~stale /\ outdated' = outdated \cap Under'
    BY <1>4 DEF FreshNext, Observe
  <2>2. Kept
    BY <1>4, <2>1 DEF FreshInv, Kept, CustodyShown, DeletedUnassigned, Active, rows
  <2>3. ASSUME NEW t \in Session \ outdated', pc'[t] # "idle"
        PROVE  StillRead(t)'
    <3>1. t \notin outdated
      BY <2>1, <2>3 DEF Under
    <3>2. CustodyShown /\ (pc[t] # "idle" => StillRead(t))
      BY <2>1, <3>1 DEF FreshInv
    <3> QED
      BY <1>1, <1>4, <2>3, <3>2, FreshWait
  <2> QED
    BY <1>1, <2>2, <2>3 DEF FreshInv, Kept
<1> QED
  BY <1>2, <1>3, <1>4 DEF FreshNext, Observe

(***************************************************************************)
(* In a history in which no request commits on rows that changed since it  *)
(* read them, and for any number of requests and assignments: an asset in  *)
(* somebody's custody is shown as ASSIGNED and is not deleted, and how an  *)
(* assignment ended stays on record.                                       *)
(***************************************************************************)
THEOREM CustodyChecksHoldWhenFresh == FreshSpec => FreshCustodyKept
<1>1. FreshInit => FreshInv
  BY CustodyInvInit DEF FreshInit, NothingStale, FreshInv, Init, CustodyShown, DeletedUnassigned, Active
<1>2. FreshInv /\ [FreshNext]_<<vars, outdated, stale>> => FreshInv'
  <2>1. ASSUME FreshInv, UNCHANGED <<vars, outdated, stale>> PROVE FreshInv'
    <3>1. CustodyInv'
      BY <2>1, StepFacts DEF FreshInv
    <3> QED
      BY <2>1, <3>1 DEF FreshInv, CustodyShown, DeletedUnassigned, StillRead, Active, vars
  <2> QED
    BY <2>1, FreshStep
<1>3. FreshInv /\ [FreshNext]_<<vars, outdated, stale>> =>
        [\/ stale'
         \/ /\ (CustodyShown /\ DeletedUnassigned)'
            /\ \A a \in Assignment : assignments[a] \in Closed => assignments'[a] = assignments[a]
        ]_<<vars, outdated, stale>>
  BY FreshStep DEF Kept
<1> QED
  BY <1>1, <1>2, <1>3, PTL DEF FreshSpec, FreshCustodyKept
=============================================================================
