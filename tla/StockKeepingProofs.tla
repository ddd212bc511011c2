-------------------------- MODULE StockKeepingProofs --------------------------
(***************************************************************************)
(* Proofs about StockKeeping for every set of sessions, locations and      *)
(* requests.                                                               *)
(***************************************************************************)
EXTENDS MCStockKeeping, SumsProofs, TLAPS

-----------------------------------------------------------------------------
(***************************************************************************)
(* The inductive invariant.  What a request has read from a row it locked  *)
(* is still so when it writes, and so is a row that it found missing, as   *)
(* long as it is missing.                                                  *)
(***************************************************************************)

\* A request that changes stock knows which movement it will append, and no
\* other movement has that identifier.
MovementsFresh ==
    /\ \A s \in Session : pc[s] \in {"lock", "lock_destination", "write"} => pending[s] \in Movement
    /\ \A s \in Session : pending[s] \in Movement =>
          /\ \A m \in movements : m.id # pending[s].id
          /\ \A t \in Session \ {s} : pending[t] \in Movement => pending[t].id # pending[s].id

\* A deletion knows what it deletes.
Targeted == \A s \in Session : pc[s] = "delete" => target[s] \in Location \cup {Item}

\* The movements of a location can be summed up.
Summable == \A l \in Location : HasAmounts(Brought(l)) /\ HasAmounts(Taken(l))

\* A location without a row has no stock and cannot be locked.
RowsMissing ==
    \A l \in Location \ stocked : quantity[l] = 0 /\ holder[l] = NoOne

\* What session s has locked is its own, and what it has read is still so.
Protected(s) ==
    /\ pc[s] \in {"lock_destination", "write"} /\ pending[s].of.from # Nowhere =>
          /\ pending[s].of.from \in stocked
          /\ holder[pending[s].of.from] = s
          /\ seen[s][pending[s].of.from] = quantity[pending[s].of.from]
          /\ pending[s].of.amount <= quantity[pending[s].of.from]
    /\ pc[s] = "lock_destination" =>
          pending[s].of.from # Nowhere /\ pending[s].of.to # Nowhere
    /\ pc[s] = "write" /\ pending[s].of.to # Nowhere
       /\ (pending[s].of.to \in stocked => holder[pending[s].of.to] = s) =>
          seen[s][pending[s].of.to] = quantity[pending[s].of.to]

LocksProtect == \A s \in Session : Protected(s)

StockInv ==
    /\ StockTypeOK
    /\ MovementsFresh
    /\ RowsMissing
    /\ LocksProtect
    /\ Targeted
    /\ Summable
    /\ StockIsMovements

-----------------------------------------------------------------------------
\* The ends of a request: it has one, and not the same one twice.
LEMMA RequestShape ==
    ASSUME NEW r \in Request
    PROVE  /\ r.from \in Location \cup {Nowhere} /\ r.to \in Location \cup {Nowhere}
           /\ r.from # Nowhere \/ r.to # Nowhere
           /\ r.from # r.to
           /\ r.amount \in Amount
           /\ Place(r) \in Location
<1>1. /\ r.kind \in Kind /\ r.from \in Location \cup {Nowhere}
      /\ r.to \in Location \cup {Nowhere} /\ r.amount \in Amount
  BY StockAssumption
<1>2. WellFormed(r)
  BY StockAssumption
<1>3. (r.from # Nowhere \/ r.to # Nowhere) /\ r.from # r.to
  BY <1>1, <1>2 DEF WellFormed, Kind
<1> QED
  BY <1>1, <1>3 DEF Place

\* An amount is a positive number.
LEMMA AmountPositive == ASSUME NEW n \in Amount PROVE n \in Nat /\ n > 0
BY AmountAssumption DEF Amount

\* Nothing that is not a movement is taken for one.
LEMMA NoMovementFact == NoMovement \notin Movement
BY StockAssumption DEF Movement

\* A request that ends frees its locks and leaves the other requests alone.
LEMMA FinishFacts ==
    ASSUME StockInv, NEW s \in Session, Finish(s)
    PROVE  /\ pc' \in [Session -> {"idle", "lock", "lock_destination", "write", "delete"}]
           /\ pending' \in [Session -> Movement \cup {NoMovement}]
           /\ target' \in [Session -> Location \cup {Item, Nowhere}]
           /\ seen' \in [Session -> [Location -> Quantity]]
           /\ holder' \in [Location -> Session \cup {NoOne}]
           /\ pc'[s] = "idle" /\ pending'[s] = NoMovement
           /\ \A t \in Session \ {s} : /\ pc'[t] = pc[t] /\ pending'[t] = pending[t]
                                       /\ seen'[t] = seen[t] /\ target'[t] = target[t]
           /\ \A l \in Location : holder'[l] = IF holder[l] = s THEN NoOne ELSE holder[l]
<1>1. NothingSeen \in [Location -> Quantity]
  BY AmountAssumption DEF NothingSeen, Quantity
<1> QED
  BY <1>1 DEF Finish, StockInv, StockTypeOK

\* Without a new movement or quantity, the sums stay what they are.
LEMMA SameRows ==
    ASSUME Summable, StockIsMovements, movements' = movements, quantity' = quantity
    PROVE  Summable' /\ StockIsMovements'
<1>1. \A l \in Location : Brought(l)' = Brought(l) /\ Taken(l)' = Taken(l)
  BY DEF Brought, Taken, Row
<1>2. Summable'
  BY <1>1 DEF Summable, HasAmounts
<1>3. StockIsMovements'
  BY <1>1 DEF StockIsMovements, Total, Units
<1> QED
  BY <1>2, <1>3

\* A request that ends without writing keeps the invariant.
LEMMA EndInv ==
    ASSUME StockInv, NEW s \in Session, Finish(s),
           stocked' = stocked, quantity' = quantity, movements' = movements,
           gone' \subseteq Location \cup {Item}, answered' = answered
    PROVE  StockInv'
<1>1. /\ pc' \in [Session -> {"idle", "lock", "lock_destination", "write", "delete"}]
      /\ pending' \in [Session -> Movement \cup {NoMovement}]
      /\ target' \in [Session -> Location \cup {Item, Nowhere}]
      /\ seen' \in [Session -> [Location -> Quantity]]
      /\ holder' \in [Location -> Session \cup {NoOne}]
      /\ pc'[s] = "idle" /\ pending'[s] = NoMovement
      /\ \A t \in Session \ {s} : /\ pc'[t] = pc[t] /\ pending'[t] = pending[t]
                                  /\ seen'[t] = seen[t] /\ target'[t] = target[t]
      /\ \A l \in Location : holder'[l] = IF holder[l] = s THEN NoOne ELSE holder[l]
  BY FinishFacts
<1>2. StockTypeOK'
  BY <1>1 DEF StockInv, StockTypeOK
<1>3. MovementsFresh'
  <2>1. ASSUME NEW t \in Session, pending'[t] \in Movement
        PROVE  t # s /\ pending'[t] = pending[t] /\ pending[t] \in Movement
    BY <1>1, <2>1, NoMovementFact
  <2>2. ASSUME NEW t \in Session, pc'[t] \in {"lock", "lock_destination", "write"}
        PROVE  pending'[t] \in Movement
    <3>1. t # s
      BY <1>1, <2>2
    <3> QED
      BY <1>1, <2>2, <3>1 DEF StockInv, MovementsFresh
  <2>3. ASSUME NEW t \in Session, pending'[t] \in Movement
        PROVE  /\ \A m \in movements' : m.id # pending'[t].id
               /\ \A u \in Session \ {t} :
                     pending'[u] \in Movement => pending'[u].id # pending'[t].id
    <3>1. /\ \A m \in movements : m.id # pending[t].id
          /\ \A u \in Session \ {t} : pending[u] \in Movement => pending[u].id # pending[t].id
      BY <2>1, <2>3 DEF StockInv, MovementsFresh
    <3> QED
      BY <2>1, <2>3, <3>1
  <2> QED
    BY <2>2, <2>3 DEF MovementsFresh
<1>4. RowsMissing'
  BY <1>1, StockAssumption DEF StockInv, RowsMissing
<1>5. LocksProtect'
  <2> SUFFICES ASSUME NEW t \in Session
               PROVE  Protected(t)'
    BY DEF LocksProtect
  <2>1. CASE t = s
    BY <1>1, <2>1 DEF Protected
  <2>2. CASE t # s
    <3>1. pc'[t] = pc[t] /\ pending'[t] = pending[t] /\ seen'[t] = seen[t]
      BY <1>1, <2>2
    <3>2. pc[t] \in {"lock", "lock_destination", "write"} => pending[t].of \in Request
      BY DEF StockInv, MovementsFresh, Movement
    <3>3. \A l \in Location : holder[l] = t <=> holder'[l] = t
      BY <1>1, <2>2, StockAssumption
    <3>4. Protected(t)
      BY DEF StockInv, LocksProtect
    <3> QED
      BY <3>1, <3>2, <3>3, <3>4, RequestShape DEF Protected
  <2> QED
    BY <2>1, <2>2
<1>6. Summable' /\ StockIsMovements'
  BY SameRows DEF StockInv
<1>7. Targeted'
  BY <1>1 DEF StockInv, Targeted
<1> QED
  BY <1>2, <1>3, <1>4, <1>5, <1>6, <1>7 DEF StockInv

\* A request that only takes a free lock leaves the others what they locked.
LEMMA LockRowInv ==
    ASSUME StockInv, NEW s \in Session, NEW l \in Location, LockRow(s, l),
           NEW where \in {"lock_destination", "write"},
           pc' = [pc EXCEPT ![s] = where],
           pc[s] \in {"lock", "lock_destination"},
           UNCHANGED <<stock, pending, target, answered>>,
           Protected(s)'
    PROVE  StockInv'
<1>1. /\ holder' \in [Location -> Session \cup {NoOne}]
      /\ \A k \in Location : holder'[k] # holder[k] =>
            k = l /\ k \in stocked /\ holder[k] = NoOne /\ holder'[k] = s
      /\ seen' \in [Session -> [Location -> Quantity]]
      /\ \A t \in Session \ {s} : seen'[t] = seen[t]
  BY DEF LockRow, StockInv, StockTypeOK
<1>2. StockTypeOK'
  BY <1>1 DEF StockInv, StockTypeOK, stock
<1>3. MovementsFresh'
  BY DEF StockInv, StockTypeOK, MovementsFresh, stock
<1>4. RowsMissing'
  BY <1>1 DEF StockInv, RowsMissing, stock
<1>5. LocksProtect'
  <2> SUFFICES ASSUME NEW t \in Session
               PROVE  Protected(t)'
    BY DEF LocksProtect
  <2>1. CASE t = s
    BY <2>1
  <2>2. CASE t # s
    <3>1. pc'[t] = pc[t] /\ pending'[t] = pending[t] /\ seen'[t] = seen[t]
      BY <1>1, <2>2 DEF StockInv, StockTypeOK
    <3>2. pc[t] \in {"lock", "lock_destination", "write"} => pending[t].of \in Request
      BY DEF StockInv, MovementsFresh, Movement
    <3>3. \A k \in Location : holder[k] = t <=> holder'[k] = t
      BY <1>1, <2>2, StockAssumption
    <3>4. Protected(t)
      BY DEF StockInv, LocksProtect
    <3>5. stocked' = stocked /\ quantity' = quantity
      BY DEF stock
    <3> QED
      BY <3>1, <3>2, <3>3, <3>4, <3>5, RequestShape DEF Protected
  <2> QED
    BY <2>1, <2>2
<1>6. Summable' /\ StockIsMovements'
  BY SameRows DEF StockInv, stock
<1>7. Targeted'
  BY DEF StockInv, StockTypeOK, Targeted
<1> QED
  BY <1>2, <1>3, <1>4, <1>5, <1>6, <1>7 DEF StockInv

\* A new request takes an identifier that no movement has.
LEMMA BeginInv ==
    ASSUME StockInv, NEW s \in Session, NEW r \in Request, Begin(s, r)
    PROVE  StockInv'
<1>1. PICK id \in MovementId :
          /\ \A m \in movements : m.id # id
          /\ \A t \in Session : pending[t] # NoMovement => pending[t].id # id
          /\ pending' = [pending EXCEPT ![s] = [id |-> id, of |-> r]]
  BY DEF Begin
<1>2. /\ pc' = [pc EXCEPT ![s] = "lock"]
      /\ UNCHANGED <<stocked, quantity, movements, gone, holder, target, seen, answered>>
  BY DEF Begin, stock
<1>3. [id |-> id, of |-> r] \in Movement
  BY DEF Movement
<1>4. StockTypeOK'
  BY <1>1, <1>2, <1>3 DEF StockInv, StockTypeOK
<1>5. MovementsFresh'
  <2>1. \A t \in Session \ {s} : pc'[t] = pc[t] /\ pending'[t] = pending[t]
    BY <1>1, <1>2 DEF StockInv, StockTypeOK
  <2>2. pending'[s] = [id |-> id, of |-> r]
    BY <1>1 DEF StockInv, StockTypeOK
  <2>3. \A t \in Session : pending[t] \in Movement => pending[t].id # id
    BY <1>1, NoMovementFact
  <2> QED
    BY <1>1, <1>2, <1>3, <2>1, <2>2, <2>3 DEF StockInv, MovementsFresh
<1>6. RowsMissing'
  BY <1>2 DEF StockInv, RowsMissing
<1>7. LocksProtect'
  BY <1>1, <1>2 DEF StockInv, StockTypeOK, LocksProtect, Protected
<1>8. Summable' /\ StockIsMovements'
  BY <1>2, SameRows DEF StockInv
<1>9. Targeted'
  BY <1>1, <1>2 DEF StockInv, StockTypeOK, Targeted
<1> QED
  BY <1>4, <1>5, <1>6, <1>7, <1>8, <1>9 DEF StockInv

\* A repeated request changes no stock.
LEMMA RepeatInv ==
    ASSUME StockInv, NEW s \in Session, NEW r \in Request, Repeat(s, r)
    PROVE  StockInv'
<1>1. /\ answered' = answered \cup {r}
      /\ UNCHANGED <<stocked, quantity, movements, gone, holder, pc, pending, target, seen>>
  BY DEF Repeat, stock
<1>2. Summable' /\ StockIsMovements'
  BY <1>1, SameRows DEF StockInv
<1> QED
  BY <1>1, <1>2 DEF StockInv, StockTypeOK, MovementsFresh, RowsMissing, LocksProtect, Protected,
        Targeted

\* The first lock: the source has a row with enough in it, or the row that is
\* to receive has been read.
LEMMA LockInv ==
    ASSUME StockInv, NEW s \in Session, Lock(s)
    PROVE  StockInv'
<1> DEFINE r == pending[s].of
<1>1. r \in Request
  BY DEF Lock, StockInv, MovementsFresh, Movement
<1>2. /\ pc[s] = "lock"
      /\ LockRow(s, Place(r))
      /\ r.from # Nowhere => r.from \in stocked /\ r.amount <= quantity[r.from]
      /\ pc' = [pc EXCEPT ![s] = IF Nowhere \in {r.from, r.to} THEN "write" ELSE "lock_destination"]
      /\ UNCHANGED <<stock, pending, target, answered>>
  BY DEF Lock
<1>3. /\ r.from \in Location \cup {Nowhere} /\ r.to \in Location \cup {Nowhere}
      /\ r.from # Nowhere \/ r.to # Nowhere
      /\ r.from # r.to
      /\ Place(r) \in Location
  BY <1>1, RequestShape
<1>4. /\ Place(r) \in stocked => holder'[Place(r)] = s
      /\ seen'[s][Place(r)] = quantity[Place(r)]
  BY <1>2, <1>3 DEF LockRow, StockInv, StockTypeOK
<1>5. /\ pc'[s] = (IF Nowhere \in {r.from, r.to} THEN "write" ELSE "lock_destination")
      /\ pending'[s] = pending[s] /\ stocked' = stocked /\ quantity' = quantity
  BY <1>2 DEF StockInv, StockTypeOK, stock
<1>6. Protected(s)'
  <2>1. CASE r.from # Nowhere
    <3>1. Place(r) = r.from
      BY <2>1 DEF Place
    <3>2. CASE r.to = Nowhere
      BY <1>2, <1>4, <1>5, <2>1, <3>1, <3>2 DEF Protected
    <3>3. CASE r.to # Nowhere
      <4>1. pc'[s] = "lock_destination"
        BY <1>5, <2>1, <3>3
      <4> QED
        BY <1>2, <1>4, <1>5, <2>1, <3>1, <3>3, <4>1 DEF Protected
    <3> QED
      BY <3>2, <3>3
  <2>2. CASE r.from = Nowhere
    <3>1. Place(r) = r.to /\ pc'[s] = "write"
      BY <1>5, <2>2 DEF Place
    <3> QED
      BY <1>4, <1>5, <2>2, <3>1 DEF Protected
  <2> QED
    BY <2>1, <2>2
<1>7. (IF Nowhere \in {r.from, r.to} THEN "write" ELSE "lock_destination")
        \in {"lock_destination", "write"}
  OBVIOUS
<1> HIDE DEF r
<1> QED
  BY <1>2, <1>3, <1>6, <1>7, LockRowInv

\* The second lock of a transfer: the first is kept.
LEMMA LockDestinationInv ==
    ASSUME StockInv, NEW s \in Session, LockDestination(s)
    PROVE  StockInv'
<1> DEFINE r == pending[s].of
<1>1. r \in Request
  BY DEF LockDestination, StockInv, MovementsFresh, Movement
<1>2. /\ pc[s] = "lock_destination"
      /\ LockRow(s, r.to)
      /\ pc' = [pc EXCEPT ![s] = "write"]
      /\ UNCHANGED <<stock, pending, target, answered>>
  BY DEF LockDestination
<1>3. Protected(s)
  BY DEF StockInv, LocksProtect
<1>4. r.to \in Location /\ r.from \in Location /\ r.from # r.to
  BY <1>1, <1>2, <1>3, RequestShape DEF Protected
<1>5. /\ seen'[s][r.to] = quantity[r.to]
      /\ seen'[s][r.from] = seen[s][r.from]
      /\ holder'[r.from] = holder[r.from]
  BY <1>2, <1>4 DEF LockRow, StockInv, StockTypeOK
<1>6. pending'[s] = pending[s] /\ stocked' = stocked /\ quantity' = quantity /\ pc'[s] = "write"
  BY <1>2 DEF StockInv, StockTypeOK, stock
<1>7. Protected(s)'
  BY <1>2, <1>3, <1>4, <1>5, <1>6 DEF Protected
<1> QED
  BY <1>2, <1>4, <1>7, LockRowInv

\* A deletion only remembers what it is going to delete.
LEMMA DeleteLoadInv ==
    ASSUME StockInv, NEW s \in Session, NEW x \in Location \cup {Item}, DeleteLoad(s, x)
    PROVE  StockInv'
<1>1. /\ pc' = [pc EXCEPT ![s] = "delete"]
      /\ target' = [target EXCEPT ![s] = x]
      /\ UNCHANGED <<stocked, quantity, movements, gone, holder, pending, seen, answered>>
  BY DEF DeleteLoad, stock
<1>2. Summable' /\ StockIsMovements'
  BY <1>1, SameRows DEF StockInv
<1>3. StockTypeOK'
  BY <1>1 DEF StockInv, StockTypeOK
<1>4. LocksProtect'
  BY <1>1 DEF StockInv, StockTypeOK, LocksProtect, Protected
<1>5. Targeted'
  BY <1>1 DEF StockInv, StockTypeOK, Targeted
<1> QED
  BY <1>1, <1>2, <1>3, <1>4, <1>5 DEF StockInv, StockTypeOK, MovementsFresh, RowsMissing

-----------------------------------------------------------------------------
\* What a commit writes is what the quantities are at that moment, less or more
\* the amount of the request, although it was computed from an earlier reading.
LEMMA CommitFacts ==
    ASSUME StockInv, NEW s \in Session, Commit(s), NEW r, r = pending[s].of
    PROVE  /\ r \in Request /\ pending[s] \in Movement
           /\ r.from # Nowhere => r.from \in stocked /\ holder[r.from] = s
           /\ r.from # Nowhere => quantity'[r.from] = quantity[r.from] - r.amount
           /\ r.to # Nowhere => quantity'[r.to] = quantity[r.to] + r.amount
           /\ r.to \in stocked => holder[r.to] = s
           /\ \A l \in Location \ {r.from, r.to} : quantity'[l] = quantity[l]
           /\ quantity' \in [Location -> Quantity]
<1>1. r \in Request /\ pending[s] \in Movement
  BY DEF Commit, StockInv, MovementsFresh, Movement
<1>2. /\ r.from \in Location \cup {Nowhere} /\ r.to \in Location \cup {Nowhere}
      /\ r.from # r.to
  BY <1>1, RequestShape
<1>3. /\ pc[s] = "write"
      /\ r.to \in stocked => holder[r.to] = s
      /\ quantity' = Written(s) /\ Written(s) \in [Location -> Quantity]
  BY DEF Commit, Accepted
<1>4. Protected(s)
  BY DEF StockInv, LocksProtect
<1>5. r.from # Nowhere =>
        r.from \in stocked /\ holder[r.from] = s /\ seen[s][r.from] = quantity[r.from]
  BY <1>3, <1>4 DEF Protected
<1>6. r.to # Nowhere => seen[s][r.to] = quantity[r.to]
  BY <1>3, <1>4 DEF Protected
<1>7. Nowhere \notin Location
  BY StockAssumption
<1>8. \A l \in Location :
        quantity'[l] = IF l = r.from THEN seen[s][l] - r.amount
                       ELSE IF l = r.to THEN seen[s][l] + r.amount
                       ELSE quantity[l]
  BY <1>3 DEF Written
<1> QED
  BY <1>1, <1>2, <1>3, <1>5, <1>6, <1>7, <1>8

\* The new movement is in the sums of its two ends, by its amount.
LEMMA CommitSums ==
    ASSUME StockInv, NEW s \in Session, Commit(s)
    PROVE  Summable' /\ StockIsMovements'
<1> DEFINE r == pending[s].of
<1>1. /\ r \in Request /\ pending[s] \in Movement
      /\ r.from # Nowhere => quantity'[r.from] = quantity[r.from] - r.amount
      /\ r.to # Nowhere => quantity'[r.to] = quantity[r.to] + r.amount
      /\ \A l \in Location \ {r.from, r.to} : quantity'[l] = quantity[l]
  BY CommitFacts
<1>2. /\ r.from # r.to /\ r.amount \in Amount
  BY <1>1, RequestShape
<1>3. movements' = movements \cup {pending[s]}
  BY DEF Commit
<1>4. \A m \in movements : m.id # pending[s].id
  BY <1>1 DEF StockInv, MovementsFresh
<1>5. Row(pending[s]).amount = r.amount
  BY DEF Row
<1>6. Nowhere \notin Location
  BY StockAssumption
<1> SUFFICES ASSUME NEW l \in Location
             PROVE  /\ HasAmounts(Brought(l)') /\ HasAmounts(Taken(l)')
                    /\ quantity'[l] + Total(Taken(l)') = Total(Brought(l)')
  BY DEF Summable, StockIsMovements, HasAmounts, Total, Units
<1>7. /\ HasAmounts(Brought(l)) /\ HasAmounts(Taken(l))
      /\ quantity[l] + Total(Taken(l)) = Total(Brought(l))
  BY DEF StockInv, Summable, StockIsMovements
<1>8. /\ Total(Brought(l)) \in Nat /\ Total(Taken(l)) \in Nat /\ quantity[l] \in Int
      /\ r.amount \in Int
  BY <1>2, <1>7, UnitsFinite, AmountPositive DEF StockInv, StockTypeOK, Quantity
<1>9. Brought(l)' = Brought(l) \cup (IF r.to = l THEN {Row(pending[s])} ELSE {})
  BY <1>3 DEF Brought, Row
<1>10. Taken(l)' = Taken(l) \cup (IF r.from = l THEN {Row(pending[s])} ELSE {})
  BY <1>3 DEF Taken, Row
<1>11. Row(pending[s]) \notin Brought(l) /\ Row(pending[s]) \notin Taken(l)
  BY <1>4 DEF Brought, Taken, Row
<1>12. CASE r.to = l
  <2>1. /\ HasAmounts(Brought(l)')
        /\ Total(Brought(l)') = Total(Brought(l)) + r.amount
    BY <1>2, <1>5, <1>7, <1>9, <1>11, <1>12, TotalAdd
  <2>2. Taken(l)' = Taken(l)
    BY <1>2, <1>10, <1>12
  <2>3. quantity'[l] = quantity[l] + r.amount
    BY <1>1, <1>6, <1>12
  <2> HIDE DEF r
  <2> QED
    BY <1>7, <1>8, <2>1, <2>2, <2>3
<1>13. CASE r.from = l
  <2>1. /\ HasAmounts(Taken(l)')
        /\ Total(Taken(l)') = Total(Taken(l)) + r.amount
    BY <1>2, <1>5, <1>7, <1>10, <1>11, <1>13, TotalAdd
  <2>2. Brought(l)' = Brought(l)
    BY <1>2, <1>9, <1>13
  <2>3. quantity'[l] = quantity[l] - r.amount
    BY <1>1, <1>6, <1>13
  <2> HIDE DEF r
  <2> QED
    BY <1>7, <1>8, <2>1, <2>2, <2>3
<1>14. CASE r.to # l /\ r.from # l
  BY <1>1, <1>7, <1>9, <1>10, <1>14
<1> QED
  BY <1>12, <1>13, <1>14

\* A commit keeps the invariant: what the others have locked, it does not touch.
LEMMA CommitInv ==
    ASSUME StockInv, NEW s \in Session, Commit(s)
    PROVE  StockInv'
<1> DEFINE r == pending[s].of
<1>1. /\ r \in Request /\ pending[s] \in Movement
      /\ r.from # Nowhere => r.from \in stocked /\ holder[r.from] = s
      /\ r.to \in stocked => holder[r.to] = s
      /\ \A l \in Location \ {r.from, r.to} : quantity'[l] = quantity[l]
      /\ quantity' \in [Location -> Quantity]
  BY CommitFacts
<1>2. /\ r.from \in Location \cup {Nowhere} /\ r.to \in Location \cup {Nowhere}
  BY <1>1, RequestShape
<1>3. /\ stocked' = stocked \cup ({r.to} \ {Nowhere})
      /\ movements' = movements \cup {pending[s]}
      /\ answered' = answered \cup {r}
      /\ gone' = gone /\ Finish(s)
  BY DEF Commit
<1>4. /\ pc' \in [Session -> {"idle", "lock", "lock_destination", "write", "delete"}]
      /\ pending' \in [Session -> Movement \cup {NoMovement}]
      /\ target' \in [Session -> Location \cup {Item, Nowhere}]
      /\ seen' \in [Session -> [Location -> Quantity]]
      /\ holder' \in [Location -> Session \cup {NoOne}]
      /\ pc'[s] = "idle" /\ pending'[s] = NoMovement
      /\ \A t \in Session \ {s} : /\ pc'[t] = pc[t] /\ pending'[t] = pending[t]
                                  /\ seen'[t] = seen[t] /\ target'[t] = target[t]
      /\ \A l \in Location : holder'[l] = IF holder[l] = s THEN NoOne ELSE holder[l]
  BY <1>3, FinishFacts
<1>5. StockTypeOK'
  BY <1>1, <1>2, <1>3, <1>4 DEF StockInv, StockTypeOK
<1>6. MovementsFresh'
  <2>1. \A t \in Session \ {s} : pending[t] \in Movement => pending[t].id # pending[s].id
    BY <1>1 DEF StockInv, MovementsFresh
  <2>2. ASSUME NEW t \in Session, pending'[t] \in Movement
        PROVE  t # s /\ pending'[t] = pending[t] /\ pending[t] \in Movement
    BY <1>4, <2>2, NoMovementFact
  <2>3. ASSUME NEW t \in Session, pc'[t] \in {"lock", "lock_destination", "write"}
        PROVE  pending'[t] \in Movement
    <3>1. t # s
      BY <1>4, <2>3
    <3> QED
      BY <1>4, <2>3, <3>1 DEF StockInv, MovementsFresh
  <2>4. ASSUME NEW t \in Session, pending'[t] \in Movement
        PROVE  /\ \A m \in movements' : m.id # pending'[t].id
               /\ \A u \in Session \ {t} : pending'[u] \in Movement => pending'[u].id # pending'[t].id
    <3>1. /\ \A m \in movements : m.id # pending[t].id
          /\ \A u \in Session \ {t} : pending[u] \in Movement => pending[u].id # pending[t].id
      BY <2>2, <2>4 DEF StockInv, MovementsFresh
    <3> QED
      BY <1>1, <1>3, <2>1, <2>2, <2>4, <3>1
  <2> QED
    BY <2>3, <2>4 DEF MovementsFresh
<1>7. RowsMissing'
  <2> SUFFICES ASSUME NEW l \in Location, l \notin stocked'
               PROVE  quantity'[l] = 0 /\ holder'[l] = NoOne
    BY DEF RowsMissing
  <2>1. l # Nowhere
    BY StockAssumption
  <2>2. l \notin stocked /\ l # r.to
    BY <1>3, <2>1
  <2>3. l # r.from
    BY <1>1, <2>1, <2>2
  <2>4. quantity[l] = 0 /\ holder[l] = NoOne
    BY <2>2 DEF StockInv, RowsMissing
  <2> QED
    BY <1>1, <1>4, <2>2, <2>3, <2>4
<1>8. LocksProtect'
  <2> SUFFICES ASSUME NEW t \in Session
               PROVE  Protected(t)'
    BY DEF LocksProtect
  <2>1. CASE t = s
    BY <1>4, <2>1 DEF Protected
  <2>2. CASE t # s
    <3> DEFINE q == pending[t].of
    <3>1. pc'[t] = pc[t] /\ pending'[t] = pending[t] /\ seen'[t] = seen[t]
      BY <1>4, <2>2
    <3>2. pc[t] \in {"lock", "lock_destination", "write"} =>
             /\ q.from \in Location \cup {Nowhere} /\ q.to \in Location \cup {Nowhere}
      BY RequestShape DEF StockInv, MovementsFresh, Movement
    <3>3. Protected(t)
      BY DEF StockInv, LocksProtect
    <3>4. \A l \in Location : holder'[l] = t <=> holder[l] = t
      BY <1>4, <2>2, StockAssumption
    <3>5. \A l \in Location : holder[l] = t => l \notin {r.from, r.to}
      BY <1>1, <1>2, <2>2, StockAssumption DEF StockInv, RowsMissing
    <3>6. \A l \in Location : holder[l] = t => quantity'[l] = quantity[l]
      BY <1>1, <3>5
    <3>7. \A l \in Location \ stocked' : quantity'[l] = quantity[l] /\ l \notin stocked
      BY <1>1, <1>2, <1>3, StockAssumption
    <3>8. stocked \subseteq stocked'
      BY <1>3
    <3>9. \A l \in Location \ stocked : holder[l] # t
      BY StockAssumption DEF StockInv, RowsMissing
    <3>10. /\ pc'[t] \in {"lock_destination", "write"} /\ q.from # Nowhere =>
                /\ q.from \in stocked'
                /\ holder'[q.from] = t
                /\ seen'[t][q.from] = quantity'[q.from]
                /\ q.amount <= quantity'[q.from]
      BY <3>1, <3>2, <3>3, <3>4, <3>6, <3>8 DEF Protected
    <3>11. /\ pc'[t] = "write" /\ q.to # Nowhere
              /\ (q.to \in stocked' => holder'[q.to] = t) =>
                seen'[t][q.to] = quantity'[q.to]
      BY <3>1, <3>2, <3>3, <3>4, <3>6, <3>7, <3>9 DEF Protected
    <3> QED
      BY <3>1, <3>3, <3>10, <3>11 DEF Protected
  <2> QED
    BY <2>1, <2>2
<1>9. Summable' /\ StockIsMovements'
  BY CommitSums
<1>10. Targeted'
  BY <1>4 DEF StockInv, Targeted
<1> QED
  BY <1>5, <1>6, <1>7, <1>8, <1>9, <1>10 DEF StockInv

\* Every step keeps the invariant.
LEMMA StockInvInductive ==
    ASSUME StockInv, [Next]_vars
    PROVE  StockInv'
<1>1. CASE UNCHANGED vars
  <2>1. /\ UNCHANGED <<stocked, quantity, movements, gone, holder, pc, pending, target, seen, answered>>
    BY <1>1 DEF vars, stock
  <2>2. Summable' /\ StockIsMovements'
    BY <2>1, SameRows DEF StockInv
  <2> QED
    BY <2>1, <2>2 DEF StockInv, StockTypeOK, MovementsFresh, RowsMissing, LocksProtect, Protected,
        Targeted
<1>2. ASSUME NEW s \in Session, NEW r \in Request, Repeat(s, r) PROVE StockInv'
  BY <1>2, RepeatInv
<1>3. ASSUME NEW s \in Session, NEW r \in Request, Begin(s, r) PROVE StockInv'
  BY <1>3, BeginInv
<1>4. ASSUME NEW s \in Session, NEW x \in Location \cup {Item}, DeleteLoad(s, x) PROVE StockInv'
  BY <1>4, DeleteLoadInv
<1>5. ASSUME NEW s \in Session, Lock(s) PROVE StockInv'
  BY <1>5, LockInv
<1>6. ASSUME NEW s \in Session, LockDestination(s) PROVE StockInv'
  BY <1>6, LockDestinationInv
<1>7. ASSUME NEW s \in Session, Commit(s) PROVE StockInv'
  BY <1>7, CommitInv
<1>8. ASSUME NEW s \in Session, Refuse(s) \/ Fail(s) \/ Victim(s) \/ Crash(s) PROVE StockInv'
  <2>1. /\ Finish(s)
        /\ UNCHANGED <<stocked, quantity, movements, gone, answered>>
    BY <1>8 DEF Refuse, Fail, Victim, Crash, stock
  <2>2. gone' \subseteq Location \cup {Item}
    BY <2>1 DEF StockInv, StockTypeOK
  <2> QED
    BY <2>1, <2>2, EndInv
<1>9. ASSUME NEW s \in Session, DeleteCommit(s) PROVE StockInv'
  <2>1. /\ Finish(s) /\ gone' = gone \cup {target[s]} /\ pc[s] = "delete"
        /\ UNCHANGED <<stocked, quantity, movements, answered>>
    BY <1>9 DEF DeleteCommit
  <2>2. target[s] \in Location \cup {Item}
    BY <2>1 DEF StockInv, Targeted
  <2>3. gone' \subseteq Location \cup {Item}
    BY <2>1, <2>2 DEF StockInv, StockTypeOK
  <2> QED
    BY <2>1, <2>3, EndInv
<1> QED
  BY <1>1, <1>2, <1>3, <1>4, <1>5, <1>6, <1>7, <1>8, <1>9 DEF Next, Step

\* Without rows there is nothing to explain.
LEMMA StockInvInit == Init => StockInv
<1> SUFFICES ASSUME Init PROVE StockInv
  OBVIOUS
<1>1. /\ stocked = {} /\ quantity = [l \in Location |-> 0] /\ movements = {} /\ gone = {}
      /\ holder = [l \in Location |-> NoOne]
      /\ pc = [s \in Session |-> "idle"]
      /\ pending = [s \in Session |-> NoMovement]
      /\ target = [s \in Session |-> Nowhere]
      /\ seen = [s \in Session |-> NothingSeen]
      /\ answered = {}
  BY DEF Init
<1>2. 0 \in Quantity
  BY AmountAssumption DEF Quantity
<1>3. StockTypeOK
  BY <1>1, <1>2 DEF StockTypeOK, NothingSeen
<1>4. \A l \in Location : Brought(l) = {} /\ Taken(l) = {}
  BY <1>1 DEF Brought, Taken
<1>5. Summable
  BY <1>4, EmptyRows DEF Summable
<1>6. Total({}) = 0
  <2>1. Units({}) = {}
    BY DEF Units
  <2> QED
    BY <2>1, FS_EmptySet DEF Total
<1>7. StockIsMovements
  BY <1>1, <1>4, <1>6 DEF StockIsMovements
<1>8. MovementsFresh /\ RowsMissing /\ LocksProtect /\ Targeted
  BY <1>1, NoMovementFact DEF MovementsFresh, RowsMissing, LocksProtect, Protected, Targeted
<1> QED
  BY <1>3, <1>5, <1>7, <1>8 DEF StockInv

\* Every reachable state satisfies the inductive invariant.
THEOREM StockInvariant == Spec => []StockInv
<1>1. StockInv /\ [Next]_vars => StockInv'
  BY StockInvInductive
<1> QED
  BY StockInvInit, <1>1, PTL DEF Spec

\* Every value InventoryService stores has its type: in particular, no quantity
\* is negative or outgrows its column, whatever the interleaving.
THEOREM StockTypeCorrect == Spec => []StockTypeOK
<1>1. StockInv => StockTypeOK
  BY DEF StockInv
<1> QED
  BY <1>1, StockInvariant, PTL

\* The movements explain the quantity of every stock row, however requests
\* interleave, wait, fail and die.
THEOREM StockExplained == Spec => []StockIsMovements
<1>1. StockInv => StockIsMovements
  BY DEF StockInv
<1> QED
  BY <1>1, StockInvariant, PTL

-----------------------------------------------------------------------------
\* A commit is one of the abstract steps: goods come in, go out, or move.
LEMMA CommitIsAbstract ==
    ASSUME StockInv, NEW s \in Session, Commit(s)
    PROVE  Abstract!Next
<1> DEFINE r == pending[s].of
<1>1. /\ r \in Request
      /\ r.from # Nowhere => quantity'[r.from] = quantity[r.from] - r.amount
      /\ r.to # Nowhere => quantity'[r.to] = quantity[r.to] + r.amount
      /\ \A l \in Location \ {r.from, r.to} : quantity'[l] = quantity[l]
      /\ quantity' \in [Location -> Quantity]
  BY CommitFacts
<1>2. /\ r.from \in Location \cup {Nowhere} /\ r.to \in Location \cup {Nowhere}
      /\ r.from # Nowhere \/ r.to # Nowhere
      /\ r.from # r.to /\ r.amount \in Amount
  BY <1>1, RequestShape
<1>3. r.amount \in Nat /\ r.amount > 0
  BY <1>2, AmountPositive
<1>4. \A l \in Location : quantity[l] \in Nat
  BY AmountAssumption DEF StockInv, StockTypeOK, Quantity
<1>5. quantity' \in [Location -> Nat]
  BY <1>1, AmountAssumption DEF Quantity
<1>6. Nowhere \notin Location
  BY StockAssumption
<1>7. CASE r.from = Nowhere
  <2>1. r.to \in Location
    BY <1>2, <1>7
  <2>2. Abstract!Only({r.to})
    BY <1>1, <1>6, <1>7 DEF Abstract!Only
  <2>3. quantity[r.to] < quantity'[r.to]
    BY <1>1, <1>3, <1>4, <1>6, <2>1
  <2>4. Abstract!In(r.to)
    BY <2>2, <2>3 DEF Abstract!In
  <2> QED
    BY <1>5, <2>1, <2>4 DEF Abstract!Next
<1>8. CASE r.from # Nowhere
  <2>1. r.from \in Location
    BY <1>2, <1>8
  <2>2. quantity'[r.from] < quantity[r.from]
    BY <1>1, <1>3, <1>4, <1>8, <2>1
  <2>3. CASE r.to = Nowhere
    <3>1. Abstract!Only({r.from})
      BY <1>1, <1>6, <2>3 DEF Abstract!Only
    <3>2. Abstract!Out(r.from)
      BY <2>2, <3>1 DEF Abstract!Out
    <3> QED
      BY <1>5, <2>1, <3>2 DEF Abstract!Next
  <2>4. CASE r.to # Nowhere
    <3>1. r.to \in Location
      BY <1>2, <2>4
    <3>2. Abstract!Only({r.from, r.to})
      BY <1>1 DEF Abstract!Only
    <3>3. quantity'[r.from] + quantity'[r.to] = quantity[r.from] + quantity[r.to]
      BY <1>1, <1>3, <1>4, <1>8, <2>1, <2>4, <3>1
    <3>4. Abstract!Move(r.from, r.to)
      BY <2>2, <3>2, <3>3 DEF Abstract!Move
    <3> QED
      BY <1>5, <2>1, <3>1, <3>4 DEF Abstract!Next
  <2> QED
    BY <2>3, <2>4
<1> QED
  BY <1>7, <1>8

\* The three statements of a request, spread over the requests that interleave
\* with it, are one indivisible change of the stock.
THEOREM StockImplementsAbstract == Spec => ImplementsStock
<1>1. Init => Abstract!Init
  BY DEF Init, Abstract!Init
<1>2. StockInv /\ [Next]_vars => [Abstract!Next]_quantity
  <2> SUFFICES ASSUME StockInv, [Next]_vars
               PROVE  Abstract!Next \/ UNCHANGED quantity
    OBVIOUS
  <2>1. ASSUME NEW s \in Session, Commit(s) PROVE Abstract!Next
    BY <2>1, CommitIsAbstract
  <2>2. ASSUME NEW s \in Session, Step(s) PROVE Abstract!Next \/ UNCHANGED quantity
    BY <2>1, <2>2 DEF Step, Lock, Refuse, LockDestination, Fail, DeleteCommit, stock
  <2> QED
    BY <2>2 DEF Next, Repeat, Begin, DeleteLoad, Victim, Crash, vars, stock
<1> QED
  BY <1>1, <1>2, StockInvariant, PTL DEF Spec, ImplementsStock, Abstract!Spec

-----------------------------------------------------------------------------
(***************************************************************************)
(* Requests that were answered with success.                               *)
(***************************************************************************)

\* A request is answered when its number is found recorded, or when it commits.
LEMMA AnsweredStep ==
    ASSUME StockInv, AnsweredIsRecorded, [Next]_vars
    PROVE  AnsweredIsRecorded'
<1>1. ASSUME NEW s \in Session, NEW r \in Request, Repeat(s, r) PROVE AnsweredIsRecorded'
  <2>1. /\ answered' = answered \cup {r} /\ movements' = movements
        /\ Repeated(r)
    BY <1>1 DEF Repeat, stock
  <2>2. PICK m \in movements : m.of.kind = r.kind /\ m.of.reference = r.reference
    BY <2>1 DEF Repeated
  <2>3. Stands(m, r)
    BY <2>1, <2>2 DEF Repeated, Stands
  <2> QED
    BY <2>1, <2>3 DEF AnsweredIsRecorded, Stands
<1>2. ASSUME NEW s \in Session, Commit(s) PROVE AnsweredIsRecorded'
  BY <1>2 DEF Commit, AnsweredIsRecorded, Stands
<1>3. ASSUME answered' = answered, movements' = movements PROVE AnsweredIsRecorded'
  BY <1>3 DEF AnsweredIsRecorded, Stands
<1> QED
  BY <1>1, <1>2, <1>3
  DEF Next, Step, Begin, Lock, Refuse, LockDestination, Fail, DeleteLoad, DeleteCommit,
      Victim, Crash, vars, stock

\* Nothing is answered with success and lost: what receive_, issue_ and
\* return_stock answer is in the movements, itself or under its kind and
\* reference number, though one number stand for several deliveries.
THEOREM AnswersRecorded == Spec => []AnsweredIsRecorded
<1>1. Init => AnsweredIsRecorded
  BY DEF Init, AnsweredIsRecorded
<1>2. StockInv /\ AnsweredIsRecorded /\ [Next]_vars => AnsweredIsRecorded'
  BY AnsweredStep
<1> QED
  BY <1>1, <1>2, StockInvariant, PTL DEF Spec

-----------------------------------------------------------------------------
(***************************************************************************)
(* Histories in which no request commits after another one has changed the *)
(* stock under it.                                                         *)
(***************************************************************************)

\* Both ends of a recorded movement have a stock row.
MovementsPlaced ==
    \A m \in movements : /\ m.of.from # Nowhere => m.of.from \in stocked
                         /\ m.of.to # Nowhere => m.of.to \in stocked

\* What session s looked at before it locked anything is still so.
StillChecked(s) ==
    /\ pc[s] \in {"lock", "lock_destination", "write"} =>
          /\ ~Repeated(pending[s].of)
          /\ {Item, pending[s].of.from, pending[s].of.to} \cap gone = {}
    /\ pc[s] = "delete" => \A l \in RowsOf(target[s]) : quantity[l] = 0

FreshInv ==
    /\ StockInv
    /\ MovementsPlaced
    /\ ~stale => /\ RecordedOnce /\ DeletedIsEmpty
                 /\ \A s \in Session \ outdated : StillChecked(s)

\* A new movement has its ends in the stock, and rows are never removed.
LEMMA PlacedStep ==
    ASSUME StockInv, MovementsPlaced, [Next]_vars
    PROVE  MovementsPlaced'
<1>1. ASSUME NEW s \in Session, Commit(s) PROVE MovementsPlaced'
  <2>1. /\ pending[s].of \in Request
        /\ pending[s].of.from # Nowhere => pending[s].of.from \in stocked
    BY <1>1, CommitFacts
  <2>2. /\ stocked' = stocked \cup ({pending[s].of.to} \ {Nowhere})
        /\ movements' = movements \cup {pending[s]}
    BY <1>1 DEF Commit
  <2> QED
    BY <2>1, <2>2 DEF MovementsPlaced
<1>2. ASSUME stocked' = stocked, movements' = movements PROVE MovementsPlaced'
  BY <1>2 DEF MovementsPlaced
<1> QED
  BY <1>1, <1>2
  DEF Next, Step, Repeat, Begin, Lock, Refuse, LockDestination, Fail, DeleteLoad, DeleteCommit,
      Victim, Crash, vars, stock

\* A commit whose checks still hold keeps what they are meant to keep.
LEMMA FreshCommit ==
    ASSUME StockInv, MovementsPlaced, RecordedOnce, DeletedIsEmpty,
           NEW s \in Session, StillChecked(s), Commit(s)
    PROVE  RecordedOnce' /\ DeletedIsEmpty'
<1> DEFINE r == pending[s].of
<1>1. /\ r \in Request
      /\ \A l \in Location \ {r.from, r.to} : quantity'[l] = quantity[l]
  BY CommitFacts
<1>2. /\ pc[s] = "write"
      /\ stocked' = stocked \cup ({r.to} \ {Nowhere})
      /\ movements' = movements \cup {pending[s]}
      /\ gone' = gone
  BY DEF Commit
<1>3. ~Repeated(r) /\ {Item, r.from, r.to} \cap gone = {}
  BY <1>2 DEF StillChecked
<1>4. r.from # Nowhere \/ r.to # Nowhere
  BY <1>1, RequestShape
<1>5. \A m \in movements : m.of \in Request /\ Place(m.of) \in stocked
  <2> SUFFICES ASSUME NEW m \in movements
               PROVE  m.of \in Request /\ Place(m.of) \in stocked
    OBVIOUS
  <2>1. m.of \in Request
    BY DEF StockInv, StockTypeOK, Movement
  <2> QED
    BY <2>1, RequestShape DEF MovementsPlaced, Place
<1>6. \A m \in movements :
        ~(/\ r.kind \in Numbered /\ r.reference # NoReference
          /\ m.of.kind = r.kind /\ m.of.reference = r.reference
          /\ Place(m.of) = Place(r))
  BY <1>3, <1>5 DEF Repeated
<1>7. RecordedOnce'
  BY <1>2, <1>6 DEF RecordedOnce, Place
<1>8. DeletedIsEmpty'
  <2> SUFFICES ASSUME NEW x \in gone, NEW l \in stocked', x \in {l, Item}
               PROVE  quantity'[l] = 0
    BY <1>2 DEF DeletedIsEmpty
  <2>1. x = l /\ l # r.to /\ l # r.from
    BY <1>3
  <2>2. l \in stocked
    BY <1>2, <2>1
  <2>3. l \in Location
    BY <2>2 DEF StockInv, StockTypeOK
  <2> QED
    BY <1>1, <2>1, <2>2, <2>3 DEF DeletedIsEmpty
<1> QED
  BY <1>7, <1>8

\* A deletion whose check still holds leaves no goods behind.
LEMMA FreshDelete ==
    ASSUME RecordedOnce, DeletedIsEmpty, NEW s \in Session, StillChecked(s), DeleteCommit(s)
    PROVE  RecordedOnce' /\ DeletedIsEmpty'
<1>1. /\ pc[s] = "delete" /\ gone' = gone \cup {target[s]}
      /\ UNCHANGED <<stocked, quantity, movements>>
  BY DEF DeleteCommit
<1>2. \A l \in RowsOf(target[s]) : quantity[l] = 0
  BY <1>1 DEF StillChecked
<1>3. DeletedIsEmpty'
  BY <1>1, <1>2 DEF DeletedIsEmpty, RowsOf
<1> QED
  BY <1>1, <1>3 DEF RecordedOnce, Place

\* Only a commit changes the stock, and it ends its request.
LEMMA StockChange ==
    ASSUME StockInv, Next, stock' # stock
    PROVE  \E s \in Session :
              /\ Commit(s) \/ DeleteCommit(s)
              /\ pc[s] # "idle" /\ pc'[s] = "idle"
<1>1. PICK s \in Session : Commit(s) \/ DeleteCommit(s)
  BY DEF Next, Step, Repeat, Begin, Lock, Refuse, LockDestination, Fail, DeleteLoad,
         Victim, Crash
<1>2. Finish(s) /\ pc[s] # "idle"
  BY <1>1 DEF Commit, DeleteCommit
<1> QED
  BY <1>1, <1>2, FinishFacts

\* As long as the stock stays as it is, what was checked stays so.
LEMMA FreshWait ==
    ASSUME StockInv, Next, UNCHANGED stock, NEW t \in Session, pc[t] = "idle" \/ StillChecked(t)
    PROVE  pc'[t] = "idle" \/ StillChecked(t)'
<1>1. /\ UNCHANGED <<stocked, quantity, movements, gone>>
  BY DEF stock
<1>2. \A r \in Request : Repeated(r)' = Repeated(r)
  BY <1>1 DEF Repeated, Place
<1>3. RowsOf(target[t])' = (IF target'[t] = Item THEN stocked ELSE stocked \cap {target'[t]})
  BY <1>1 DEF RowsOf
<1>4. PICK s \in Session :
        \/ \E r \in Request : Repeat(s, r) \/ Begin(s, r)
        \/ \E x \in Location \cup {Item} : DeleteLoad(s, x)
        \/ Lock(s) \/ LockDestination(s)
        \/ Finish(s)
  BY DEF Next, Step, Refuse, Commit, Fail, DeleteCommit, Victim, Crash
<1>5. pc[t] \in {"lock", "lock_destination", "write"} => pending[t] \in Movement
  BY DEF StockInv, MovementsFresh
<1>6. CASE /\ pending'[t] = pending[t] /\ target'[t] = target[t]
           /\ \/ pc'[t] = pc[t]
              \/ /\ pc[t] \in {"lock", "lock_destination"}
                 /\ pc'[t] \in {"lock_destination", "write"}
  <2>1. Repeated(pending[t].of)' = Repeated(pending[t].of)
    BY <1>1, <1>6 DEF Repeated, Place
  <2> QED
    BY <1>1, <1>3, <1>6, <2>1 DEF StillChecked, RowsOf
<1>7. CASE t # s
  <2>1. pc'[t] = pc[t] /\ pending'[t] = pending[t] /\ target'[t] = target[t]
    BY <1>4, <1>7
    DEF Repeat, Begin, DeleteLoad, Lock, LockDestination, Finish, StockInv, StockTypeOK
  <2> QED
    BY <1>6, <2>1
<1>8. CASE t = s
  <2>1. CASE \E r \in Request : Repeat(t, r)
    BY <2>1, <1>6 DEF Repeat
  <2>2. ASSUME NEW r \in Request, Begin(t, r) PROVE StillChecked(t)'
    <3>1. pc'[t] = "lock" /\ pending'[t].of = r
      BY <2>2 DEF Begin, StockInv, StockTypeOK
    <3>2. ~Repeated(r) /\ {Item, r.from, r.to} \cap gone = {}
      BY <2>2 DEF Begin
    <3>3. ~Repeated(pending[t].of)'
      BY <1>1, <3>1, <3>2 DEF Repeated, Place
    <3> QED
      BY <1>1, <3>1, <3>2, <3>3 DEF StillChecked
  <2>3. ASSUME NEW x \in Location \cup {Item}, DeleteLoad(t, x) PROVE StillChecked(t)'
    <3>1. pc'[t] = "delete" /\ target'[t] = x /\ \A l \in RowsOf(x) : quantity[l] = 0
      BY <2>3 DEF DeleteLoad, StockInv, StockTypeOK
    <3> QED
      BY <1>1, <1>3, <3>1 DEF StillChecked, RowsOf
  <2>4. CASE Lock(t) \/ LockDestination(t)
    BY <2>4, <1>6 DEF Lock, LockDestination, StockInv, StockTypeOK
  <2>5. CASE Finish(t)
    BY <2>5 DEF Finish, StockInv, StockTypeOK
  <2> QED
    BY <1>4, <1>8, <2>1, <2>2, <2>3, <2>4, <2>5
<1> QED
  BY <1>7, <1>8

\* Every step keeps the invariant.
LEMMA FreshStep ==
    ASSUME FreshInv, FreshNext
    PROVE  FreshInv'
<1>1. StockInv' /\ MovementsPlaced'
  BY StockInvInductive, PlacedStep DEF FreshInv, FreshNext
<1>2. StockInv /\ MovementsPlaced /\ Next
  BY DEF FreshInv, FreshNext
<1>3. CASE stale'
  BY <1>1, <1>3, Zenon DEF FreshInv
<1>4. CASE ~stale' /\ stock' # stock
  <2>1. ~stale /\ outdated \subseteq Under' /\ outdated' = Under'
    BY <1>4 DEF FreshNext, Observe
  <2>2. PICK s \in Session : /\ Commit(s) \/ DeleteCommit(s)
                             /\ pc[s] # "idle" /\ pc'[s] = "idle"
    BY <1>2, <1>4, StockChange
  <2>3. s \notin outdated
    BY <2>1, <2>2 DEF Under
  <2>4. RecordedOnce /\ DeletedIsEmpty /\ StillChecked(s)
    BY <2>1, <2>3 DEF FreshInv
  <2>5. RecordedOnce' /\ DeletedIsEmpty'
    BY <1>2, <2>2, <2>4, FreshCommit, FreshDelete
  <2>6. \A t \in Session \ outdated' : StillChecked(t)'
    BY <2>1 DEF Under, StillChecked
  <2> QED
    BY <1>1, <2>5, <2>6 DEF FreshInv
<1>5. CASE ~stale' /\ UNCHANGED stock
  <2>1. ~stale /\ outdated' = outdated \cap Under'
    BY <1>5 DEF FreshNext, Observe
  <2>2. RecordedOnce' /\ DeletedIsEmpty'
    BY <1>5, <2>1 DEF FreshInv, RecordedOnce, DeletedIsEmpty, Place, stock
  <2>3. ASSUME NEW t \in Session \ outdated' PROVE StillChecked(t)'
    <3>1. CASE pc'[t] = "idle"
      BY <3>1 DEF StillChecked
    <3>2. CASE pc'[t] # "idle"
      <4>1. t \notin outdated
        BY <2>1, <3>2 DEF Under
      <4>2. StillChecked(t)
        BY <2>1, <4>1 DEF FreshInv
      <4> QED
        BY <1>2, <1>5, <3>2, <4>2, FreshWait
    <3> QED
      BY <3>1, <3>2
  <2> QED
    BY <1>1, <2>2, <2>3 DEF FreshInv
<1> QED
  BY <1>3, <1>4, <1>5 DEF FreshNext, Observe

(***************************************************************************)
(* In a history in which no request commits after another one has changed  *)
(* the stock under it, and for any number of requests, locations and       *)
(* amounts: receive_, issue_ and return_stock record a reference number    *)
(* once for each kind and location, delete_location and delete_item leave  *)
(* no goods behind.                                                        *)
(***************************************************************************)
THEOREM StockChecksHoldWhenFresh == FreshSpec => []FreshStockKept
<1>1. FreshInit => FreshInv
  <2> SUFFICES ASSUME FreshInit PROVE FreshInv
    OBVIOUS
  <2>1. StockInv
    BY StockInvInit DEF FreshInit, NothingStale
  <2>2. movements = {} /\ gone = {} /\ \A s \in Session : pc[s] = "idle"
    BY DEF FreshInit, NothingStale, Init
  <2> QED
    BY <2>1, <2>2 DEF FreshInv, MovementsPlaced, RecordedOnce, DeletedIsEmpty, StillChecked
<1>2. FreshInv /\ [FreshNext]_<<vars, outdated, stale>> => FreshInv'
  <2>1. ASSUME FreshInv, UNCHANGED <<vars, outdated, stale>> PROVE FreshInv'
    <3>1. StockInv'
      BY <2>1, StockInvInductive DEF FreshInv
    <3>2. UNCHANGED <<stocked, quantity, movements, gone, pc, pending, target, outdated, stale>>
      BY <2>1 DEF vars, stock
    <3> QED
      BY <2>1, <3>1, <3>2
      DEF FreshInv, MovementsPlaced, RecordedOnce, DeletedIsEmpty, StillChecked, Repeated, Place,
          RowsOf
  <2> QED
    BY <2>1, FreshStep
<1>3. FreshInv => FreshStockKept
  BY DEF FreshInv, FreshStockKept
<1> QED
  BY <1>1, <1>2, <1>3, PTL DEF FreshSpec
=============================================================================
