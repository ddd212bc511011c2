----------------------------- MODULE StockKeeping -----------------------------
(***************************************************************************)
(* The stock ledger of InventoryService (backend/app/services/             *)
(* inventory_service.py): the stock rows of one item, a row per location,  *)
(* the movements that receipts, issues, returns, adjustments and transfers *)
(* append, and the soft deletion of a location or of the item.  Stock rows *)
(* of different items never meet.                                          *)
(*                                                                         *)
(* A request first looks, without a lock, whether its reference number is  *)
(* already recorded and whether item and locations exist (Begin or         *)
(* Repeat); then it locks the stock rows it changes FOR UPDATE, one after  *)
(* the other, the source before the destination; then it writes the        *)
(* quantities it computed from what it read, appends its movement and      *)
(* commits.  A row that does not exist cannot be locked: it is inserted,   *)
(* and a unique index refuses the second of two inserts.                   *)
(*                                                                         *)
(* Quantities are those of an Integer column, up to MaxAmount.             *)
(***************************************************************************)
EXTENDS Sums

CONSTANTS
    Session,      \* database sessions, one per request in flight
    NoOne,        \* the holder of a row lock nobody holds
    Location,     \* inventory_locations
    Item,         \* the inventory_items row
    Nowhere,      \* the missing end of a movement that comes in or goes out
    Reference,    \* reference numbers: invoices, delivery notes
    NoReference,  \* a request without one
    Request,      \* the requests that clients send, and send again
    MovementId,   \* identifiers of inventory_stock_movements, as many as a run makes
    NoMovement    \* what a session that is not changing stock will append

Kind == {"PURCHASE_RECEIPT", "ISSUE", "RETURN", "ADJUSTMENT", "TRANSFER"}

\* Each kind of request has the ends its schema gives it.
WellFormed(r) ==
    /\ r.kind \in {"PURCHASE_RECEIPT", "RETURN"} => r.from = Nowhere /\ r.to # Nowhere
    /\ r.kind = "ISSUE" => r.from # Nowhere /\ r.to = Nowhere
    /\ r.kind = "ADJUSTMENT" => (r.from = Nowhere <=> r.to # Nowhere)
    /\ r.kind = "TRANSFER" => Nowhere \notin {r.from, r.to} /\ r.from # r.to

ASSUME StockAssumption ==
    /\ NoOne \notin Session
    /\ Nowhere \notin Location \cup {Item}
    /\ Item \notin Location
    /\ Request \subseteq [kind : Kind, from : Location \cup {Nowhere},
                          to : Location \cup {Nowhere}, amount : Amount,
                          reference : Reference \cup {NoReference}]
    /\ \A r \in Request : WellFormed(r)
    /\ NoMovement \notin [id : MovementId, of : Request]

VARIABLES
    stocked,   \* locations that have a stock row
    quantity,  \* inventory_stock.quantity by location, 0 without a row
    movements, \* inventory_stock_movements
    gone,      \* soft-deleted locations, and the item if it is deleted
    holder,    \* the session holding a stock row FOR UPDATE
    pc,        \* where a session is
    pending,   \* the movement it is going to append
    target,    \* what it is going to delete
    seen,      \* the quantities it has read from the rows it locked
    answered   \* requests answered with success

stock == <<stocked, quantity, movements, gone>>
vars  == <<stock, holder, pc, pending, target, seen, answered>>

Movement == [id : MovementId, of : Request]
Quantity == 0 .. MaxAmount

StockTypeOK ==
    /\ stocked \subseteq Location
    /\ quantity \in [Location -> Quantity]
    /\ movements \subseteq Movement
    /\ gone \subseteq Location \cup {Item}
    /\ holder \in [Location -> Session \cup {NoOne}]
    /\ pc \in [Session -> {"idle", "lock", "lock_destination", "write", "delete"}]
    /\ pending \in [Session -> Movement \cup {NoMovement}]
    /\ target \in [Session -> Location \cup {Item, Nowhere}]
    /\ seen \in [Session -> [Location -> Quantity]]
    /\ answered \subseteq Request

-----------------------------------------------------------------------------
NothingSeen == [l \in Location |-> 0]

\* The location whose row a request locks first.
Place(r) == IF r.from # Nowhere THEN r.from ELSE r.to

\* What a movement with this reference number is recorded for is not repeated,
\* if there is a stock row to answer with.
Numbered == {"PURCHASE_RECEIPT", "ISSUE", "RETURN"}

\* Mutant: the movement type is not compared.
RepeatedAnyKind(r) ==
    /\ r.kind \in Numbered /\ r.reference # NoReference
    /\ \E m \in movements : m.of.reference = r.reference
    /\ Place(r) \in stocked

\* Mutant: receipts are not looked up.
RepeatedNoReceipt(r) ==
    /\ r.kind \in Numbered \ {"PURCHASE_RECEIPT"} /\ r.reference # NoReference
    /\ \E m \in movements : m.of.kind = r.kind /\ m.of.reference = r.reference
    /\ Place(r) \in stocked

Repeated(r) ==
    /\ r.kind \in Numbered
    /\ r.reference # NoReference
    /\ \E m \in movements : m.of.kind = r.kind /\ m.of.reference = r.reference
    /\ Place(r) \in stocked

\* The end of a request's transaction: its locks are released.
Finish(s) ==
    /\ pc' = [pc EXCEPT ![s] = "idle"]
    /\ pending' = [pending EXCEPT ![s] = NoMovement]
    /\ target' = [target EXCEPT ![s] = Nowhere]
    /\ seen' = [seen EXCEPT ![s] = NothingSeen]
    /\ holder' = [l \in Location |-> IF holder[l] = s THEN NoOne ELSE holder[l]]

\* SELECT ... FOR UPDATE of the row of location l: it waits for the holder and
\* reads the row as it is then; a row that is not there is not locked.
LockRow(s, l) ==
    /\ l \in stocked => holder[l] = NoOne
    /\ holder' = IF l \in stocked THEN [holder EXCEPT ![l] = s] ELSE holder
    /\ seen' = [seen EXCEPT ![s][l] = quantity[l]]

-----------------------------------------------------------------------------
Init ==
    /\ stocked = {}
    /\ quantity = [l \in Location |-> 0]
    /\ movements = {}
    /\ gone = {}
    /\ holder = [l \in Location |-> NoOne]
    /\ pc = [s \in Session |-> "idle"]
    /\ pending = [s \in Session |-> NoMovement]
    /\ target = [s \in Session |-> Nowhere]
    /\ seen = [s \in Session |-> NothingSeen]
    /\ answered = {}

\* The reference number is recorded: the stock row is returned as it is.
Repeat(s, r) ==
    /\ pc[s] = "idle"
    /\ Repeated(r)
    /\ answered' = answered \cup {r}
    /\ UNCHANGED <<stock, holder, pc, pending, target, seen>>

\* The request is valid: item and locations exist.
Begin(s, r) ==
    /\ pc[s] = "idle"
    /\ ~Repeated(r)
    /\ {Item, r.from, r.to} \cap gone = {}
    /\ \E id \in MovementId :
          /\ \A m \in movements : m.id # id
          /\ \A t \in Session : pending[t] # NoMovement => pending[t].id # id
          /\ pending' = [pending EXCEPT ![s] = [id |-> id, of |-> r]]
    /\ pc' = [pc EXCEPT ![s] = "lock"]
    /\ UNCHANGED <<stock, holder, target, seen, answered>>

\* Mutant: the row is read without FOR UPDATE.
LockUnlocked(s) ==
    LET r == pending[s].of IN
    /\ pc[s] = "lock"
    /\ seen' = [seen EXCEPT ![s][Place(r)] = quantity[Place(r)]]
    /\ r.from # Nowhere => r.from \in stocked /\ r.amount <= quantity[r.from]
    /\ pc' = [pc EXCEPT ![s] = IF Nowhere \in {r.from, r.to} THEN "write" ELSE "lock_destination"]
    /\ UNCHANGED <<stock, holder, pending, target, answered>>

\* The first row is locked, and what is taken from it is there.
Lock(s) ==
    LET r == pending[s].of IN
    /\ pc[s] = "lock"
    /\ LockRow(s, Place(r))
    /\ r.from # Nowhere => r.from \in stocked /\ r.amount <= quantity[r.from]
    /\ pc' = [pc EXCEPT ![s] = IF Nowhere \in {r.from, r.to} THEN "write" ELSE "lock_destination"]
    /\ UNCHANGED <<stock, pending, target, answered>>

\* Not enough stock at the location the goods are taken from.
Refuse(s) ==
    LET r == pending[s].of IN
    /\ pc[s] = "lock"
    /\ r.from # Nowhere
    /\ r.from \in stocked => holder[r.from] = NoOne /\ quantity[r.from] < r.amount
    /\ Finish(s)
    /\ UNCHANGED <<stock, answered>>

\* transfer_stock goes on to lock the destination, the source still locked.
LockDestination(s) ==
    /\ pc[s] = "lock_destination"
    /\ LockRow(s, pending[s].of.to)
    /\ pc' = [pc EXCEPT ![s] = "write"]
    /\ UNCHANGED <<stock, pending, target, answered>>

\* The quantities computed from what was read.
Written(s) ==
    LET r == pending[s].of IN
    [l \in Location |->
        IF l = r.from THEN seen[s][l] - r.amount
        ELSE IF l = r.to THEN seen[s][l] + r.amount
        ELSE quantity[l]]

\* Mutants: an insert overwrites the row another request has inserted; a
\* quantity may outgrow its column.
AcceptedAlways(s) == Written(s) \in [Location -> Quantity]
AcceptedWide(s)   == pending[s].of.to \in stocked => holder[pending[s].of.to] = s

\* A row to be inserted is still missing, and the new quantities are not
\* negative and fit in the Integer column.
Accepted(s) ==
    /\ pending[s].of.to \in stocked => holder[pending[s].of.to] = s
    /\ Written(s) \in [Location -> Quantity]

\* The quantities are written, the movement is appended.
Commit(s) ==
    /\ pc[s] = "write"
    /\ Accepted(s)
    /\ quantity' = Written(s)
    /\ stocked' = stocked \cup ({pending[s].of.to} \ {Nowhere})
    /\ movements' = movements \cup {pending[s]}
    /\ answered' = answered \cup {pending[s].of}
    /\ Finish(s)
    /\ UNCHANGED gone

\* Mutant: the database session of a failed request stays open.
FailOpen(s) ==
    /\ pc[s] = "write"
    /\ ~Accepted(s)
    /\ pc' = [pc EXCEPT ![s] = "idle"]
    /\ pending' = [pending EXCEPT ![s] = NoMovement]
    /\ UNCHANGED <<stock, holder, target, seen, answered>>

\* The unique index or the column refuses the write, and the request fails.
Fail(s) ==
    /\ pc[s] = "write"
    /\ ~Accepted(s)
    /\ Finish(s)
    /\ UNCHANGED <<stock, answered>>

\* s waits for a row that t holds.
Waits(s, t) ==
    \/ pc[s] = "lock" /\ holder[Place(pending[s].of)] = t
    \/ pc[s] = "lock_destination" /\ holder[pending[s].of.to] = t

Deadlocked(D) ==
    /\ D # {}
    /\ \A s \in D : (\E t \in D : Waits(s, t)) /\ (\E t \in D : Waits(t, s))

\* PostgreSQL finds sessions that wait for one another and fails one of them.
Victim(s) ==
    /\ \E D \in SUBSET Session : s \in D /\ Deadlocked(D)
    /\ Finish(s)
    /\ UNCHANGED <<stock, answered>>

\* The request dies; nothing of it was committed.
Crash(s) ==
    /\ pc[s] # "idle"
    /\ Finish(s)
    /\ UNCHANGED <<stock, answered>>

\* The rows that a deletion of x looks at.
RowsOf(x) == IF x = Item THEN stocked ELSE stocked \cap {x}

\* delete_location, delete_item: no row has stock left.
DeleteLoad(s, x) ==
    /\ pc[s] = "idle"
    /\ x \notin gone
    /\ \A l \in RowsOf(x) : quantity[l] = 0
    /\ pc' = [pc EXCEPT ![s] = "delete"]
    /\ target' = [target EXCEPT ![s] = x]
    /\ UNCHANGED <<stock, holder, pending, seen, answered>>

DeleteCommit(s) ==
    /\ pc[s] = "delete"
    /\ gone' = gone \cup {target[s]}
    /\ Finish(s)
    /\ UNCHANGED <<stocked, quantity, movements, answered>>

Step(s) ==
    \/ Lock(s) \/ Refuse(s) \/ LockDestination(s)
    \/ Commit(s) \/ Fail(s) \/ DeleteCommit(s)

Next == \E s \in Session :
    \/ \E r \in Request : Repeat(s, r) \/ Begin(s, r)
    \/ \E x \in Location \cup {Item} : DeleteLoad(s, x)
    \/ Step(s) \/ Victim(s) \/ Crash(s)

Spec == Init /\ [][Next]_vars

(***************************************************************************)
(* A request under way goes on; a row lock that becomes free time and      *)
(* again is granted in the end; the deadlock detector runs.                *)
(***************************************************************************)
Fairness == \A s \in Session : SF_vars(Step(s)) /\ WF_vars(Victim(s))

FairSpec == Spec /\ Fairness

-----------------------------------------------------------------------------
(***************************************************************************)
(* Safety, whatever the interleaving.                                      *)
(***************************************************************************)
Row(m)      == [id |-> m.id, amount |-> m.of.amount]
Brought(l)  == {Row(m) : m \in {n \in movements : n.of.to = l}}
Taken(l)    == {Row(m) : m \in {n \in movements : n.of.from = l}}

\* The audit trail explains the stock: what the movements brought to a location
\* less what they took from it is the quantity of its row.
StockIsMovements ==
    \A l \in Location : quantity[l] + Total(Taken(l)) = Total(Brought(l))

\* Locking, reading, computing and writing amount to one indivisible step: in
\* particular, a transfer never shows goods at both ends or at neither.
Abstract == INSTANCE AbstractStock WITH held <- quantity
ImplementsStock == Abstract!Spec

\* The look-up by reference number takes m for the record of r.
Stands(m, r) ==
    \/ m.of = r
    \/ /\ r.kind \in Numbered /\ r.reference # NoReference
       /\ m.of.kind = r.kind /\ m.of.reference = r.reference

\* A request that was answered with success is in the movements, itself or under
\* its kind and reference number: it is not taken for one of another kind, and
\* what is answered is not lost.
AnsweredIsRecorded == \A r \in answered : \E m \in movements : Stands(m, r)

(***************************************************************************)
(* What the checks that run before the lock are meant to keep.  It holds   *)
(* of requests that follow one another.                                    *)
(***************************************************************************)

\* A reference number is recorded once for each kind and location.
RecordedOnce ==
    \A m, n \in movements :
        /\ m.of.kind \in Numbered /\ m.of.reference # NoReference
        /\ n.of.kind = m.of.kind /\ n.of.reference = m.of.reference
        /\ Place(n.of) = Place(m.of)
        => m = n

\* No goods are left at a deleted location, or of a deleted item.
DeletedIsEmpty == \A x \in gone, l \in stocked : x \in {l, Item} => quantity[l] = 0

\* Row locks are taken in an order that keeps requests from waiting for one
\* another.
NoDeadlock == \A D \in SUBSET Session : ~Deadlocked(D)

(***************************************************************************)
(* Liveness.                                                               *)
(***************************************************************************)

\* Every request comes to an end, those that wait for one another included.
RequestsEnd == \A s \in Session : pc[s] # "idle" ~> pc[s] = "idle"
=============================================================================
