--------------------------- MODULE UnitOfWorkProofs ---------------------------
(***************************************************************************)
(* Facts about requests and their commits, for every component that keeps  *)
(* its rows with UnitOfWork.                                               *)
(***************************************************************************)
EXTENDS UnitOfWork, FiniteSetTheorems, SequenceTheorems, TLAPS

-----------------------------------------------------------------------------
\* x is a sequence, of whatever elements.
Sequence(x) == x \in Seq({x[k] : k \in DOMAIN x})

\* A sequence is a function on the numbers up to its length.
LEMMA SequenceFacts ==
    ASSUME NEW x, Sequence(x)
    PROVE  Len(x) \in Nat /\ DOMAIN x = 1..Len(x)
BY DEF Sequence

\* A sequence of elements of any set is one.
LEMMA SomeSequence ==
    ASSUME NEW S, NEW x \in Seq(S)
    PROVE  Sequence(x)
<1>1. PICK n \in Nat : x \in [1..n -> S]
  BY SeqDef
<1>2. x \in [1..n -> {x[k] : k \in DOMAIN x}]
  BY <1>1
<1> QED BY <1>2 DEF Sequence

\* Such a function is a sequence.
LEMMA FunctionSequence ==
    ASSUME NEW n \in Nat, NEW x, x = [k \in 1..n |-> x[k]]
    PROVE  Sequence(x) /\ Len(x) = n
<1>1. x \in [1..n -> {x[k] : k \in DOMAIN x}]
  OBVIOUS
<1> QED BY <1>1 DEF Sequence

\* The empty sequence has no element.
LEMMA EmptySequence == Sequence(<<>>) /\ DOMAIN <<>> = {}
BY DEF Sequence

\* What has an element is not empty.
LEMMA HasElement ==
    ASSUME NEW x, NEW c \in DOMAIN x
    PROVE  x # <<>>
BY EmptySequence

\* What is left of a sequence without its first element.
LEMMA TailFacts ==
    ASSUME NEW x, Sequence(x), x # <<>>
    PROVE  /\ Sequence(Tail(x))
           /\ 1 \in DOMAIN x /\ Head(x) = x[1]
           /\ \A k \in DOMAIN Tail(x) : k \in Nat /\ k + 1 \in DOMAIN x /\ Tail(x)[k] = x[k + 1]
<1>1. PICK S : x \in Seq(S)
  BY DEF Sequence
<1>2. Len(x) \in Nat /\ Len(x) # 0 /\ DOMAIN x = 1..Len(x) /\ Head(x) = x[1]
  BY <1>1
<1>3. /\ Tail(x) \in Seq(S) /\ Len(Tail(x)) = Len(x) - 1
      /\ \A k \in 1..Len(Tail(x)) : Tail(x)[k] = x[k + 1]
  BY <1>1, HeadTailProperties
<1>4. DOMAIN Tail(x) = 1..Len(Tail(x))
  BY <1>3
<1>5. Sequence(Tail(x))
  BY ONLY <1>3, SomeSequence
<1> QED BY <1>2, <1>3, <1>4, <1>5

\* Two sequences, one after the other.
LEMMA ConcatFacts ==
    ASSUME NEW x, NEW y, Sequence(x), Sequence(y)
    PROVE  /\ Sequence(x \o y)
           /\ DOMAIN (x \o y) = 1..(Len(x) + Len(y))
           /\ \A k \in DOMAIN x : k \in DOMAIN (x \o y) /\ (x \o y)[k] = x[k]
           /\ \A k \in DOMAIN (x \o y) \ DOMAIN x :
                 k - Len(x) \in DOMAIN y /\ (x \o y)[k] = y[k - Len(x)]
<1>1. /\ Len(x) \in Nat /\ DOMAIN x = 1..Len(x)
      /\ Len(y) \in Nat /\ DOMAIN y = 1..Len(y)
  BY SequenceFacts
<1>2. PICK S : x \in Seq(S) /\ y \in Seq(S)
  <2>1. PICK n \in Nat, m \in Nat : /\ x \in [1..n -> {x[k] : k \in DOMAIN x}]
                                  /\ y \in [1..m -> {y[k] : k \in DOMAIN y}]
    BY SeqDef, SMTT(30) DEF Sequence
  <2> DEFINE T == {x[k] : k \in DOMAIN x} \cup {y[k] : k \in DOMAIN y}
  <2>2. x \in [1..n -> T] /\ y \in [1..m -> T]
    BY <2>1
  <2>3. x \in Seq(T) /\ y \in Seq(T)
    BY <2>2, SeqDef, SMTT(30)
  <2> QED BY <2>3
<1>3. /\ x \o y \in Seq(S) /\ Len(x \o y) = Len(x) + Len(y)
      /\ DOMAIN (x \o y) = 1..(Len(x) + Len(y))
      /\ \A k \in 1..Len(x) : (x \o y)[k] = x[k]
      /\ \A k \in (Len(x) + 1)..(Len(x) + Len(y)) : (x \o y)[k] = y[k - Len(x)]
  BY <1>2
<1>4. Sequence(x \o y)
  BY <1>3, SomeSequence
<1> QED BY <1>1, <1>3, <1>4

\* The elements of a finite set, each in one place.
LEMMA ListedFacts ==
    ASSUME NEW S, IsFiniteSet(S)
    PROVE  /\ Sequence(Listed(S))
           /\ \A k \in DOMAIN Listed(S) : Listed(S)[k] \in S
           /\ \A k, j \in DOMAIN Listed(S) : Listed(S)[k] = Listed(S)[j] => k = j
           /\ \A x \in S : \E k \in DOMAIN Listed(S) : Listed(S)[k] = x
<1> DEFINE n == Cardinality(S)
           q == Listed(S)
<1>1. n \in Nat
  BY FS_CardinalityType
<1>2. \E f \in [1..n -> S] : \A k, j \in DOMAIN f : f[k] = f[j] => k = j
  <2>1. PICK f : f \in Bijection(1..n, S)
    BY FS_NatBijection, FS_CardinalityType DEF ExistsBijection
  <2> QED BY <2>1 DEF Bijection, Injection, IsInjective
<1>3. q \in [1..n -> S] /\ \A k, j \in DOMAIN q : q[k] = q[j] => k = j
  BY <1>2 DEF Listed
<1>4. Sequence(q)
  BY <1>1, <1>3, FunctionSequence
<1>5. \A x \in S : \E k \in DOMAIN q : q[k] = x
  <2> HIDE DEF q
  <2>1. q \in Injection(1..n, S)
    BY <1>3 DEF Injection, IsInjective
  <2>2. IsFiniteSet(1..n) /\ Cardinality(1..n) = n
    BY <1>1, FS_Interval
  <2>3. q \in Surjection(1..n, S)
    BY <2>1, <2>2, FS_Injection
  <2> QED BY <2>3 DEF Surjection
<1> QED BY <1>3, <1>4, <1>5

-----------------------------------------------------------------------------
\* The row that an INSERT of the transaction being sent adds.
NewRow(s, k) ==
    [c \in DOMAIN Sent(s)[k].columns |->
        IF c \in DOMAIN Sent(s)[k].refers
        THEN Len(rows[Sent(s)[k].refers[c]]) + 1
        ELSE Sent(s)[k].columns[c]]

InsertsInto(s, t) == {k \in DOMAIN Sent(s) : Sent(s)[k].table = t /\ Sent(s)[k].id = 0}

(***************************************************************************)
(* A column that a transaction changes is set to what one of its           *)
(* statements says; the others are kept.                                   *)
(***************************************************************************)
LEMMA UpdatedFacts ==
    ASSUME NEW s, NEW t, NEW i
    PROVE  /\ DOMAIN Updated(s, t, i) = DOMAIN rows[t][i]
           /\ \A c \in DOMAIN rows[t][i] :
                 \/ \E k \in DOMAIN Sent(s) :
                       /\ Sent(s)[k].table = t /\ Sent(s)[k].id = i
                       /\ c \in DOMAIN Sent(s)[k].columns
                       /\ Updated(s, t, i)[c] = Sent(s)[k].columns[c]
                 \/ /\ \A k \in DOMAIN Sent(s) :
                         Sent(s)[k].table = t /\ Sent(s)[k].id = i
                             => c \notin DOMAIN Sent(s)[k].columns
                    /\ Updated(s, t, i)[c] = rows[t][i][c]
BY DEF Updated

(***************************************************************************)
(* What a commit makes of a table: its rows are updated where they are,    *)
(* and each row that is added comes from an INSERT of its own.             *)
(***************************************************************************)
LEMMA CommitFacts ==
    ASSUME NEW s, Commit(s), NEW t \in DOMAIN rows, Sequence(rows[t]), Sequence(Sent(s))
    PROVE  /\ DOMAIN rows' = DOMAIN rows
           /\ Sequence(rows'[t])
           /\ \A i \in DOMAIN rows[t] : i \in DOMAIN rows'[t] /\ rows'[t][i] = Updated(s, t, i)
           /\ \E from :
                 /\ \A i \in DOMAIN rows'[t] \ DOMAIN rows[t] :
                       from[i] \in InsertsInto(s, t) /\ rows'[t][i] = NewRow(s, from[i])
                 /\ \A i, j \in DOMAIN rows'[t] \ DOMAIN rows[t] : from[i] = from[j] => i = j
                 /\ \A k \in InsertsInto(s, t) :
                       \E i \in DOMAIN rows'[t] \ DOMAIN rows[t] : from[i] = k
<1> DEFINE old == [i \in DOMAIN rows[t] |-> Updated(s, t, i)]
           q   == Listed(InsertsInto(s, t))
           new == [n \in DOMAIN q |-> NewRow(s, q[n])]
<1>1. DOMAIN rows' = DOMAIN rows /\ rows'[t] = old \o Inserted(s, t)
  BY DEF Commit
<1>2. Inserted(s, t) = new
  BY DEF Inserted, InsertsInto, NewRow
<1>3. /\ Sequence(q) /\ \A n \in DOMAIN q : q[n] \in InsertsInto(s, t)
      /\ \A n, m \in DOMAIN q : q[n] = q[m] => n = m
      /\ \A k \in InsertsInto(s, t) : \E n \in DOMAIN q : q[n] = k
  <2>1. IsFiniteSet(InsertsInto(s, t))
    <3>1. IsFiniteSet(DOMAIN Sent(s))
      BY SequenceFacts, FS_Interval
    <3> QED BY <3>1, FS_Subset DEF InsertsInto
  <2> QED BY <2>1, ListedFacts
<1>4. Sequence(old) /\ Len(old) = Len(rows[t]) /\ DOMAIN old = DOMAIN rows[t]
  <2>1. Len(rows[t]) \in Nat /\ DOMAIN rows[t] = 1..Len(rows[t])
    BY SequenceFacts
  <2>2. old = [k \in 1..Len(rows[t]) |-> old[k]]
    BY <2>1
  <2> HIDE DEF old
  <2>3. Sequence(old) /\ Len(old) = Len(rows[t])
    BY <2>1, <2>2, FunctionSequence
  <2> QED BY <2>1, <2>2, <2>3
<1>5. Sequence(new) /\ DOMAIN new = DOMAIN q
  <2>1. Len(q) \in Nat /\ DOMAIN q = 1..Len(q)
    BY <1>3, SequenceFacts
  <2>2. new = [k \in 1..Len(q) |-> new[k]]
    BY <2>1
  <2> HIDE DEF new, q
  <2>3. Sequence(new)
    BY <2>1, <2>2, FunctionSequence
  <2> QED BY <2>1, <2>2, <2>3
<1> DEFINE z == old \o new
<1>6. /\ Sequence(z)
      /\ \A i \in DOMAIN rows[t] : i \in DOMAIN z /\ z[i] = old[i]
      /\ \A i \in DOMAIN z \ DOMAIN rows[t] :
            i - Len(rows[t]) \in DOMAIN q /\ z[i] = new[i - Len(rows[t])]
      /\ \A n \in DOMAIN q : n + Len(rows[t]) \in DOMAIN z \ DOMAIN rows[t]
  <2> HIDE DEF old, new, q
  <2>1. /\ Sequence(old \o new)
        /\ \A k \in DOMAIN old : k \in DOMAIN (old \o new) /\ (old \o new)[k] = old[k]
        /\ \A k \in DOMAIN (old \o new) \ DOMAIN old :
              k - Len(old) \in DOMAIN new /\ (old \o new)[k] = new[k - Len(old)]
    BY <1>4, <1>5, ConcatFacts
  <2>2. ASSUME NEW n \in DOMAIN q
        PROVE  n + Len(rows[t]) \in DOMAIN (old \o new) \ DOMAIN rows[t]
    <3>1. /\ DOMAIN (old \o new) = 1..(Len(old) + Len(new))
          /\ Len(old) \in Nat /\ Len(new) \in Nat /\ DOMAIN old = 1..Len(old)
          /\ DOMAIN new = 1..Len(new)
      BY <1>4, <1>5, ConcatFacts, SequenceFacts
    <3> QED BY <1>4, <1>5, <3>1
  <2> QED BY <1>4, <1>5, <2>1, <2>2
<1>7. \A i \in DOMAIN z : i \in Int
  <2> HIDE DEF z
  <2> QED BY <1>6, SequenceFacts
<1>8. Len(rows[t]) \in Int
  BY SequenceFacts
<1> DEFINE from == [i \in DOMAIN z \ DOMAIN rows[t] |-> q[i - Len(rows[t])]]
<1>9. /\ \A i \in DOMAIN z \ DOMAIN rows[t] :
            from[i] \in InsertsInto(s, t) /\ z[i] = NewRow(s, from[i])
      /\ \A i, j \in DOMAIN z \ DOMAIN rows[t] : from[i] = from[j] => i = j
      /\ \A k \in InsertsInto(s, t) : \E i \in DOMAIN z \ DOMAIN rows[t] : from[i] = k
  <2> HIDE DEF z, q
  <2>1. ASSUME NEW i \in DOMAIN z \ DOMAIN rows[t]
        PROVE  from[i] = q[i - Len(rows[t])] /\ i - Len(rows[t]) \in DOMAIN q
    BY <1>6
  <2>2. ASSUME NEW i \in DOMAIN z \ DOMAIN rows[t]
        PROVE  from[i] \in InsertsInto(s, t) /\ z[i] = NewRow(s, from[i])
    BY <1>3, <1>6, <2>1
  <2>3. ASSUME NEW i \in DOMAIN z \ DOMAIN rows[t], NEW j \in DOMAIN z \ DOMAIN rows[t],
               from[i] = from[j]
        PROVE  i = j
    <3> HIDE DEF from
    <3>1. i - Len(rows[t]) = j - Len(rows[t])
      BY <1>3, <2>1, <2>3
    <3> QED BY <1>7, <1>8, <3>1
  <2>4. ASSUME NEW k \in InsertsInto(s, t)
        PROVE  \E i \in DOMAIN z \ DOMAIN rows[t] : from[i] = k
    <3>1. PICK n \in DOMAIN q : q[n] = k
      BY <1>3
    <3>2. n + Len(rows[t]) \in DOMAIN z \ DOMAIN rows[t]
      BY <1>6
    <3>3. (n + Len(rows[t])) - Len(rows[t]) = n
      BY <1>3, <1>8, SequenceFacts
    <3>4. from[n + Len(rows[t])] = k
      BY <3>1, <3>2, <3>3
    <3> QED BY <3>2, <3>4
  <2> HIDE DEF from
  <2> QED BY <2>2, <2>3, <2>4
<1>10. rows'[t] = z
  BY <1>1, <1>2
<1>11. \A i \in DOMAIN rows[t] : z[i] = Updated(s, t, i)
  <2> HIDE DEF z
  <2> QED BY <1>6
<1> HIDE DEF z, from
<1>12. /\ \A i \in DOMAIN rows'[t] \ DOMAIN rows[t] :
             from[i] \in InsertsInto(s, t) /\ rows'[t][i] = NewRow(s, from[i])
       /\ \A i, j \in DOMAIN rows'[t] \ DOMAIN rows[t] : from[i] = from[j] => i = j
       /\ \A k \in InsertsInto(s, t) : \E i \in DOMAIN rows'[t] \ DOMAIN rows[t] : from[i] = k
  BY <1>9, <1>10
<1>13. /\ Sequence(rows'[t])
       /\ \A i \in DOMAIN rows[t] : i \in DOMAIN rows'[t] /\ rows'[t][i] = Updated(s, t, i)
  BY <1>6, <1>10, <1>11
<1> QED BY <1>1, <1>12, <1>13

(***************************************************************************)
(* A row that a request has locked is not changed by another's commit.     *)
(***************************************************************************)
LEMMA LockedRowStands ==
    ASSUME NEW s \in Session, NEW r \in Session, r # s, Commit(s),
           NEW t \in DOMAIN rows, NEW i \in DOMAIN rows[t], <<t, i>> \in work[r].locks,
           Sequence(rows[t]), Sequence(Sent(s)),
           NEW c \in DOMAIN rows[t][i]
    PROVE  rows'[t][i][c] = rows[t][i][c]
<1>1. <<t, i>> \in Held(s)
  BY DEF Held
<1>2. \A k \in DOMAIN Sent(s) :
          Sent(s)[k].table = t /\ Sent(s)[k].id = i => c \notin DOMAIN Sent(s)[k].columns
  BY <1>1, HasElement DEF Commit
<1>3. Updated(s, t, i)[c] = rows[t][i][c]
  BY <1>2, UpdatedFacts
<1> QED BY <1>3, CommitFacts

-----------------------------------------------------------------------------
(***************************************************************************)
(* The tables are sequences, and so are the transactions that are left and *)
(* their statements.                                                       *)
(***************************************************************************)
Transactions(todo) == Sequence(todo) /\ \A k \in DOMAIN todo : Sequence(todo[k])

WellFormed ==
    /\ \A t \in DOMAIN rows : Sequence(rows[t])
    /\ work = [s \in Session |-> [locks |-> work[s].locks, todo |-> work[s].todo]]
    /\ \A s \in Session : Transactions(work[s].todo)

\* Nothing is left at the start.
LEMMA StartWellFormed ==
    ASSUME NEW tables, rows = tables, work = [s \in Session |-> Untouched],
           \A t \in DOMAIN tables : Sequence(tables[t])
    PROVE  WellFormed
<1>1. Transactions(<<>>)
  BY EmptySequence DEF Transactions
<1>2. \A s \in Session : work[s].todo = <<>> /\ work[s].locks = {}
  BY DEF Untouched
<1> QED BY <1>1, <1>2 DEF WellFormed, Untouched

\* A handler changes no row, and leaves transactions of its session.
LEMMA RequestWellFormed ==
    ASSUME WellFormed, rows' = rows, NEW s \in Session, NEW locks, NEW todo,
           work' = [work EXCEPT ![s] = [locks |-> locks, todo |-> todo]],
           Transactions(todo)
    PROVE  WellFormed'
<1>1. work' = [r \in Session |-> IF r = s THEN [locks |-> locks, todo |-> todo] ELSE work[r]]
  BY DEF WellFormed
<1>2. work' = [r \in Session |-> [locks |-> work'[r].locks, todo |-> work'[r].todo]]
  <2>1. \A r \in Session : work'[r] = [locks |-> work'[r].locks, todo |-> work'[r].todo]
    BY <1>1 DEF WellFormed
  <2> QED BY <1>1, <2>1
<1>3. \A r \in Session : Transactions(work'[r].todo)
  BY <1>1 DEF WellFormed
<1> QED BY <1>2, <1>3 DEF WellFormed

\* So does one that is cut short.
LEMMA AbortWellFormed ==
    ASSUME WellFormed, NEW s \in Session, Abort(s)
    PROVE  WellFormed'
<1>1. Transactions(<<>>)
  BY EmptySequence DEF Transactions
<1> QED BY <1>1, RequestWellFormed DEF Abort, Untouched

\* What is sent, and what is left then.
LEMMA SentWellFormed ==
    ASSUME WellFormed, NEW s \in Session, work[s].todo # <<>>
    PROVE  /\ Sequence(Sent(s)) /\ Sent(s) = work[s].todo[1] /\ 1 \in DOMAIN work[s].todo
           /\ Transactions(Tail(work[s].todo))
           /\ \A k \in DOMAIN Tail(work[s].todo) :
                 k + 1 \in DOMAIN work[s].todo /\ Tail(work[s].todo)[k] = work[s].todo[k + 1]
<1> DEFINE todo == work[s].todo
<1>1. Sequence(todo) /\ \A k \in DOMAIN todo : Sequence(todo[k])
  BY DEF WellFormed, Transactions
<1> HIDE DEF todo
<1>2. todo # <<>>
  BY DEF todo
<1>3. /\ Sequence(Tail(todo))
      /\ 1 \in DOMAIN todo /\ Head(todo) = todo[1]
      /\ \A k \in DOMAIN Tail(todo) : k \in Nat /\ k + 1 \in DOMAIN todo /\ Tail(todo)[k] = todo[k + 1]
  BY <1>1, <1>2, TailFacts
<1>4. Transactions(Tail(todo))
  BY <1>1, <1>3 DEF Transactions
<1> QED BY <1>1, <1>3, <1>4 DEF Sent, todo

\* A commit.
LEMMA CommitWellFormed ==
    ASSUME WellFormed, NEW s \in Session, Commit(s)
    PROVE  WellFormed'
<1>1. Sequence(Sent(s)) /\ Transactions(Tail(work[s].todo))
  BY SentWellFormed DEF Commit
<1>2. DOMAIN rows' = DOMAIN rows
  BY DEF Commit
<1>3. \A t \in DOMAIN rows' : Sequence(rows'[t])
  BY <1>1, <1>2, CommitFacts DEF WellFormed
<1>4. work' = [work EXCEPT ![s] = [locks |-> {}, todo |-> Tail(work[s].todo)]]
  BY DEF Commit, WellFormed
<1>5. work' = [r \in Session |-> IF r = s THEN [locks |-> {}, todo |-> Tail(work[s].todo)]
                                 ELSE work[r]]
  BY <1>4 DEF WellFormed
<1>6. work' = [r \in Session |-> [locks |-> work'[r].locks, todo |-> work'[r].todo]]
  <2>1. \A r \in Session : work'[r] = [locks |-> work'[r].locks, todo |-> work'[r].todo]
    BY <1>5 DEF WellFormed
  <2> QED BY <1>5, <2>1
<1>7. \A r \in Session : Transactions(work'[r].todo)
  BY <1>1, <1>5 DEF WellFormed
<1> QED BY <1>3, <1>6, <1>7 DEF WellFormed
-----------------------------------------------------------------------------
(***************************************************************************)
(* The statements that are outstanding, of all requests.                   *)
(***************************************************************************)
Statements(todo) == UNION {Range(todo[k]) : k \in DOMAIN todo}

Outstanding == UNION {Statements(work[s].todo) : s \in Session}

\* A sequence of one element.
LEMMA OneElement ==
    ASSUME NEW a
    PROVE  /\ Sequence(<<a>>) /\ DOMAIN <<a>> = {1} /\ <<a>>[1] = a
           /\ Range(<<a>>) = {a}
<1>1. Sequence(<<a>>) /\ DOMAIN <<a>> = {1} /\ <<a>>[1] = a
  BY DEF Sequence
<1> QED BY <1>1 DEF Range

\* A sequence of two elements.
LEMMA TwoElements ==
    ASSUME NEW a, NEW b
    PROVE  /\ Sequence(<<a, b>>) /\ DOMAIN <<a, b>> = {1, 2}
           /\ <<a, b>>[1] = a /\ <<a, b>>[2] = b
           /\ Range(<<a, b>>) = {a, b}
<1>1. <<a, b>> \in Seq({a, b})
  OBVIOUS
<1>2. Sequence(<<a, b>>)
  BY <1>1, SomeSequence
<1>3. DOMAIN <<a, b>> = {1, 2} /\ <<a, b>>[1] = a /\ <<a, b>>[2] = b
  OBVIOUS
<1> QED BY <1>2, <1>3 DEF Range

\* And of none.
LEMMA NoElement == Sequence(<<>>) /\ Range(<<>>) = {}
BY EmptySequence DEF Range

\* And of two lists, one after the other.
LEMMA BothElements ==
    ASSUME NEW x, NEW y, Sequence(x), Sequence(y)
    PROVE  Sequence(x \o y) /\ Range(x \o y) = Range(x) \cup Range(y)
<1>1. /\ Sequence(x \o y)
      /\ DOMAIN (x \o y) = 1..(Len(x) + Len(y))
      /\ \A k \in DOMAIN x : k \in DOMAIN (x \o y) /\ (x \o y)[k] = x[k]
      /\ \A k \in DOMAIN (x \o y) \ DOMAIN x :
            k - Len(x) \in DOMAIN y /\ (x \o y)[k] = y[k - Len(x)]
  BY ConcatFacts
<1>2. Len(x) \in Nat /\ DOMAIN x = 1..Len(x) /\ Len(y) \in Nat /\ DOMAIN y = 1..Len(y)
  BY SequenceFacts
<1>3. ASSUME NEW k \in DOMAIN y
      PROVE  k + Len(x) \in DOMAIN (x \o y) /\ (x \o y)[k + Len(x)] = y[k]
  <2>1. k + Len(x) \in DOMAIN (x \o y) \ DOMAIN x
    BY <1>1, <1>2
  <2>2. (k + Len(x)) - Len(x) = k
    BY <1>2
  <2> QED BY <1>1, <2>1, <2>2
<1>4. Range(x \o y) \subseteq Range(x) \cup Range(y)
  BY <1>1 DEF Range
<1>5. Range(x) \subseteq Range(x \o y) /\ Range(y) \subseteq Range(x \o y)
  BY <1>1, <1>3, SMTT(30) DEF Range
<1> QED BY <1>1, <1>4, <1>5

\* A request that commits once.
LEMMA OneTransaction ==
    ASSUME NEW q, Sequence(q)
    PROVE  Transactions(<<q>>) /\ Statements(<<q>>) = Range(q)
<1>1. Sequence(<<q>>) /\ DOMAIN <<q>> = {1} /\ <<q>>[1] = q
  BY OneElement
<1> QED BY <1>1 DEF Transactions, Statements

\* What a request adds to what is outstanding.
LEMMA RequestOutstanding ==
    ASSUME WellFormed, NEW s \in Session, NEW locks, NEW todo,
           work' = [work EXCEPT ![s] = [locks |-> locks, todo |-> todo]]
    PROVE  Outstanding' \subseteq Outstanding \cup Statements(todo)
<1>1. \A r \in Session : work'[r].todo = IF r = s THEN todo ELSE work[r].todo
  BY DEF WellFormed
<1> QED BY <1>1 DEF Outstanding, Statements

\* What is sent was outstanding, and the rest stays so.
LEMMA CommitOutstanding ==
    ASSUME WellFormed, NEW s \in Session, Commit(s)
    PROVE  Outstanding' \subseteq Outstanding /\ Range(Sent(s)) \subseteq Outstanding
<1>1. /\ Sent(s) = work[s].todo[1] /\ 1 \in DOMAIN work[s].todo
      /\ \A k \in DOMAIN Tail(work[s].todo) :
            k + 1 \in DOMAIN work[s].todo /\ Tail(work[s].todo)[k] = work[s].todo[k + 1]
  BY SentWellFormed DEF Commit
<1>2. Statements(Tail(work[s].todo)) \subseteq Statements(work[s].todo)
  <2> DEFINE todo == work[s].todo
  <2>1. \A k \in DOMAIN Tail(todo) : Range(Tail(todo)[k]) \in {Range(todo[j]) : j \in DOMAIN todo}
    BY <1>1
  <2> QED BY <2>1 DEF Statements
<1>3. Range(Sent(s)) \subseteq Statements(work[s].todo)
  BY <1>1 DEF Statements
<1>4. \A r \in Session : work'[r].todo = IF r = s THEN Tail(work[s].todo) ELSE work[r].todo
  BY DEF WellFormed, Commit
<1>5. \A r \in Session : Statements(work'[r].todo) \subseteq Statements(work[r].todo)
  BY <1>2, <1>4
<1>6. Outstanding' = UNION {Statements(work'[r].todo) : r \in Session}
  BY DEF Outstanding, Statements
<1> QED BY <1>3, <1>5, <1>6 DEF Outstanding

\* A request that is cut short leaves nothing.
LEMMA AbortOutstanding ==
    ASSUME WellFormed, NEW s \in Session, Abort(s)
    PROVE  Outstanding' \subseteq Outstanding
<1>1. Outstanding' \subseteq Outstanding \cup Statements(<<>>)
  BY RequestOutstanding DEF Abort, Untouched
<1>2. Statements(<<>>) = {}
  BY EmptySequence DEF Statements
<1> QED BY <1>1, <1>2

\* The statements about the elements of a finite set.
LEMMA EachSequence ==
    ASSUME NEW S, IsFiniteSet(S)
    PROVE  /\ \A t : Sequence(InsertEach(t, S))
           /\ \A t, columns : Sequence(UpdateEach(t, S, columns))
<1> DEFINE q == Listed(S)
<1>1. Len(q) \in Nat /\ DOMAIN q = 1..Len(q)
  BY ListedFacts, SequenceFacts
<1> HIDE DEF q
<1>2. ASSUME NEW t PROVE Sequence(InsertEach(t, S))
  <2> DEFINE f == [k \in DOMAIN q |-> Insert(t, q[k])]
  <2>1. f = [k \in 1..Len(q) |-> f[k]]
    BY <1>1
  <2>2. InsertEach(t, S) = f
    BY DEF InsertEach, q
  <2> HIDE DEF f
  <2> QED BY <1>1, <2>1, <2>2, FunctionSequence
<1>3. ASSUME NEW t, NEW columns PROVE Sequence(UpdateEach(t, S, columns))
  <2> DEFINE f == [k \in DOMAIN q |-> Update(t, q[k], columns)]
  <2>1. f = [k \in 1..Len(q) |-> f[k]]
    BY <1>1
  <2>2. UpdateEach(t, S, columns) = f
    BY DEF UpdateEach, q
  <2> HIDE DEF f
  <2> QED BY <1>1, <2>1, <2>2, FunctionSequence
<1> QED BY <1>2, <1>3
-----------------------------------------------------------------------------
(***************************************************************************)
(* The transactions that most handlers send: they add one row to a table,  *)
(* or none, and change few columns.                                        *)
(***************************************************************************)

\* A table into which nothing is inserted keeps its length.
LEMMA NothingInserted ==
    ASSUME WellFormed, NEW s \in Session, Commit(s), NEW t \in DOMAIN rows,
           InsertsInto(s, t) = {}
    PROVE  DOMAIN rows'[t] = DOMAIN rows[t]
<1>1. Sequence(rows[t]) /\ Sequence(Sent(s))
  BY SentWellFormed DEF WellFormed, Commit
<1> QED BY <1>1, CommitFacts

\* One row that is inserted comes last.
LEMMA OneInserted ==
    ASSUME WellFormed, NEW s \in Session, Commit(s), NEW t \in DOMAIN rows,
           NEW k, InsertsInto(s, t) = {k}
    PROVE  \E n : /\ n \notin DOMAIN rows[t] /\ n = Len(rows[t]) + 1
                  /\ \A i \in DOMAIN rows[t] : i \in Nat /\ i < n
                  /\ DOMAIN rows'[t] = DOMAIN rows[t] \cup {n}
                  /\ rows'[t][n] = NewRow(s, k)
<1>1. Sequence(rows[t]) /\ Sequence(Sent(s))
  BY SentWellFormed DEF WellFormed, Commit
<1>2. PICK from :
          /\ Sequence(rows'[t])
          /\ \A i \in DOMAIN rows[t] : i \in DOMAIN rows'[t]
          /\ \A i \in DOMAIN rows'[t] \ DOMAIN rows[t] :
                from[i] \in InsertsInto(s, t) /\ rows'[t][i] = NewRow(s, from[i])
          /\ \A i, j \in DOMAIN rows'[t] \ DOMAIN rows[t] : from[i] = from[j] => i = j
          /\ \A l \in InsertsInto(s, t) : \E i \in DOMAIN rows'[t] \ DOMAIN rows[t] : from[i] = l
  BY <1>1, CommitFacts
<1>3. PICK n \in DOMAIN rows'[t] \ DOMAIN rows[t] : from[n] = k
  BY <1>2
<1>4. \A i \in DOMAIN rows'[t] \ DOMAIN rows[t] : i = n
  BY <1>2, <1>3
<1>5. rows'[t][n] = NewRow(s, k)
  BY <1>2, <1>3
<1>6. /\ Len(rows[t]) \in Nat /\ DOMAIN rows[t] = 1..Len(rows[t])
      /\ Len(rows'[t]) \in Nat /\ DOMAIN rows'[t] = 1..Len(rows'[t])
  BY <1>1, <1>2, SequenceFacts
<1>7. DOMAIN rows'[t] = DOMAIN rows[t] \cup {n}
  BY <1>2, <1>3, <1>4
<1>8. n = Len(rows[t]) + 1
  <2> DEFINE old == Len(rows[t])
             all == Len(rows'[t])
  <2>1. old \in Nat /\ all \in Nat /\ 1..all = (1..old) \cup {n} /\ n \notin 1..old
    BY <1>3, <1>6, <1>7
  <2> HIDE DEF old, all
  <2>2. n \in 1..all
    BY <2>1
  <2>3. old + 1 \in 1..all
    BY <2>1, <2>2
  <2>4. old + 1 \notin 1..old
    BY <2>1
  <2>5. n = old + 1
    BY <2>1, <2>3, <2>4
  <2> QED BY <2>5 DEF old
<1>9. \A i \in DOMAIN rows[t] : i \in Nat /\ i < n
  BY <1>6, <1>8
<1> QED BY <1>3, <1>5, <1>7, <1>8, <1>9

\* A column that no statement sets keeps its value.
LEMMA ColumnKept ==
    ASSUME WellFormed, NEW s \in Session, Commit(s), NEW t \in DOMAIN rows,
           NEW i \in DOMAIN rows[t]
    PROVE  /\ i \in DOMAIN rows'[t] /\ DOMAIN rows'[t][i] = DOMAIN rows[t][i]
           /\ \A c \in DOMAIN rows[t][i] :
                 (\A k \in DOMAIN Sent(s) : Sent(s)[k].table = t /\ Sent(s)[k].id = i
                      => c \notin DOMAIN Sent(s)[k].columns)
                 => rows'[t][i][c] = rows[t][i][c]
<1>1. Sequence(rows[t]) /\ Sequence(Sent(s))
  BY SentWellFormed DEF WellFormed, Commit
<1>2. i \in DOMAIN rows'[t] /\ rows'[t][i] = Updated(s, t, i)
  BY <1>1, CommitFacts
<1> QED BY <1>2, UpdatedFacts

\* A column that some do set gets the value of one of them.
LEMMA ColumnSet ==
    ASSUME WellFormed, NEW s \in Session, Commit(s), NEW t \in DOMAIN rows,
           NEW i \in DOMAIN rows[t], NEW c \in DOMAIN rows[t][i]
    PROVE  \/ rows'[t][i][c] = rows[t][i][c]
           \/ \E k \in DOMAIN Sent(s) :
                 /\ Sent(s)[k].table = t /\ Sent(s)[k].id = i /\ c \in DOMAIN Sent(s)[k].columns
                 /\ rows'[t][i][c] = Sent(s)[k].columns[c]
<1>1. Sequence(rows[t]) /\ Sequence(Sent(s))
  BY SentWellFormed DEF WellFormed, Commit
<1>2. i \in DOMAIN rows'[t] /\ rows'[t][i] = Updated(s, t, i)
  BY <1>1, CommitFacts
<1> QED BY <1>2, UpdatedFacts

-----------------------------------------------------------------------------
(***************************************************************************)
(* What a request says has been done.  A row is there if a table has it,   *)
(* or if an earlier transaction of the request inserts it.                 *)
(***************************************************************************)
Promised(t, table, row, todo, i) ==
    \/ \E n \in DOMAIN table : table[n] = row
    \/ \E h \in DOMAIN todo : h < i /\ \E k \in DOMAIN todo[h] : todo[h][k] = Insert(t, row)

\* Something that is written as a function is one.
Written(row) == row = [c \in DOMAIN row |-> row[c]]

\* A row of a table that is only added to stays.
LEMMA RowStays ==
    ASSUME WellFormed, NEW s \in Session, Commit(s), NEW t \in DOMAIN rows,
           \A k \in DOMAIN Sent(s) : Sent(s)[k].table = t => Sent(s)[k].id = 0,
           NEW row, Written(row), NEW n \in DOMAIN rows[t], rows[t][n] = row
    PROVE  n \in DOMAIN rows'[t] /\ rows'[t][n] = row
<1>1. Sequence(rows[t]) /\ Sequence(Sent(s))
  BY SentWellFormed DEF WellFormed, Commit
<1>2. n # 0
  BY <1>1, SequenceFacts
<1>3. n \in DOMAIN rows'[t] /\ rows'[t][n] = Updated(s, t, n)
  BY <1>1, CommitFacts
<1>4. \A k \in DOMAIN Sent(s) : ~(Sent(s)[k].table = t /\ Sent(s)[k].id = n)
  BY <1>2
<1>5. Updated(s, t, n) = [c \in DOMAIN rows[t][n] |-> rows[t][n][c]]
  BY <1>4 DEF Updated
<1> QED BY <1>3, <1>5 DEF Written

\* A row that is inserted is there after the commit.
LEMMA RowComes ==
    ASSUME WellFormed, NEW s \in Session, Commit(s), NEW t \in DOMAIN rows,
           NEW row, Written(row), NEW k \in DOMAIN Sent(s), Sent(s)[k] = Insert(t, row)
    PROVE  \E n \in DOMAIN rows'[t] : rows'[t][n] = row
<1>1. Sequence(rows[t]) /\ Sequence(Sent(s))
  BY SentWellFormed DEF WellFormed, Commit
<1>2. /\ Sent(s)[k].table = t /\ Sent(s)[k].id = 0
      /\ Sent(s)[k].columns = row /\ Sent(s)[k].refers = <<>>
  BY DEF Insert
<1>3. k \in InsertsInto(s, t)
  BY <1>2 DEF InsertsInto
<1>4. NewRow(s, k) = row
  BY <1>2, EmptySequence DEF NewRow, Written
<1>5. PICK from :
          /\ \A i \in DOMAIN rows'[t] \ DOMAIN rows[t] : rows'[t][i] = NewRow(s, from[i])
          /\ \A l \in InsertsInto(s, t) : \E i \in DOMAIN rows'[t] \ DOMAIN rows[t] : from[i] = l
  BY <1>1, CommitFacts
<1>6. PICK i \in DOMAIN rows'[t] \ DOMAIN rows[t] : from[i] = k
  BY <1>3, <1>5
<1> QED BY <1>4, <1>5, <1>6

\* What is promised stays so, of the requests that wait.
LEMMA PromiseStands ==
    ASSUME WellFormed, NEW s \in Session, Commit(s), NEW t \in DOMAIN rows,
           \A k \in DOMAIN Sent(s) : Sent(s)[k].table = t => Sent(s)[k].id = 0,
           NEW row, Written(row), NEW todo, NEW i, Promised(t, rows[t], row, todo, i)
    PROVE  Promised(t, rows'[t], row, todo, i)
BY RowStays DEF Promised

\* Of the request that goes on.
LEMMA PromiseKept ==
    ASSUME WellFormed, NEW s \in Session, Commit(s), NEW t \in DOMAIN rows,
           \A k \in DOMAIN Sent(s) : Sent(s)[k].table = t => Sent(s)[k].id = 0,
           NEW row, Written(row), NEW i \in DOMAIN Tail(work[s].todo),
           Promised(t, rows[t], row, work[s].todo, i + 1)
    PROVE  Promised(t, rows'[t], row, Tail(work[s].todo), i)
<1> DEFINE todo == work[s].todo
           rest == Tail(todo)
<1>1. Sequence(todo) /\ todo # <<>>
  BY DEF WellFormed, Transactions, Commit
<1> HIDE DEF todo
<1>2. /\ Sequence(rest) /\ 1 \in DOMAIN todo /\ Head(todo) = todo[1]
      /\ \A k \in DOMAIN rest : k \in Nat /\ k + 1 \in DOMAIN todo /\ rest[k] = todo[k + 1]
  BY <1>1, TailFacts
<1>3. Sent(s) = todo[1]
  BY <1>2 DEF Sent, todo
<1>4. CASE \E n \in DOMAIN rows[t] : rows[t][n] = row
  BY <1>4, RowStays DEF Promised
<1>5. CASE \E h \in DOMAIN todo : h < i + 1 /\ \E k \in DOMAIN todo[h] : todo[h][k] = Insert(t, row)
  <2>1. PICK h \in DOMAIN todo : h < i + 1 /\ \E k \in DOMAIN todo[h] : todo[h][k] = Insert(t, row)
    BY <1>5
  <2>2. CASE h = 1
    BY <1>3, <2>1, <2>2, RowComes DEF Promised
  <2>3. CASE h # 1
    <3>1. h \in Nat /\ i \in Nat /\ h > 1
      BY <1>1, <1>2, <2>3, SequenceFacts DEF todo
    <3>2. Len(rest) = Len(todo) - 1 /\ Len(todo) \in Nat /\ DOMAIN todo = 1..Len(todo)
          /\ DOMAIN rest = 1..Len(rest)
      <4>1. PICK S : todo \in Seq(S)
        BY <1>1 DEF Sequence
      <4> QED BY <1>1, <1>2, <4>1, HeadTailProperties, SequenceFacts
    <3>3. h - 1 \in DOMAIN rest /\ h - 1 < i
      BY <2>1, <3>1, <3>2
    <3>4. rest[h - 1] = todo[h]
      BY <1>2, <3>1, <3>3
    <3> HIDE DEF rest
    <3>5. \E k \in DOMAIN rest[h - 1] : rest[h - 1][k] = Insert(t, row)
      BY <2>1, <3>4
    <3>6. Promised(t, rows'[t], row, rest, i)
      BY <3>3, <3>5 DEF Promised
    <3> QED BY <3>6 DEF rest, todo
  <2> QED BY <2>2, <2>3
<1> QED BY <1>4, <1>5 DEF Promised, todo

\* What is promised first is done.
LEMMA PromiseDone ==
    ASSUME NEW t, NEW table, NEW row, NEW todo, Sequence(todo), Promised(t, table, row, todo, 1)
    PROVE  \E n \in DOMAIN table : table[n] = row
<1>1. \A h \in DOMAIN todo : h \in Nat /\ ~(h < 1)
  BY SequenceFacts
<1> QED BY <1>1 DEF Promised

-----------------------------------------------------------------------------
\* The statements about the elements of a finite set, one of each.
LEMMA EachStatement ==
    ASSUME NEW S, IsFiniteSet(S), NEW t
    PROVE  /\ Sequence(InsertEach(t, S))
           /\ \A k \in DOMAIN InsertEach(t, S) : \E x \in S : InsertEach(t, S)[k] = Insert(t, x)
           /\ \A c, p : /\ Sequence(InsertEachFor(t, S, c, p))
                        /\ \A k \in DOMAIN InsertEachFor(t, S, c, p) :
                              \E x \in S : InsertEachFor(t, S, c, p)[k] = InsertFor(t, x, c, p)
<1> DEFINE q == Listed(S)
<1>1. Len(q) \in Nat /\ DOMAIN q = 1..Len(q) /\ \A k \in DOMAIN q : q[k] \in S
  BY ListedFacts, SequenceFacts
<1>2. InsertEach(t, S) = [k \in DOMAIN q |-> Insert(t, q[k])]
  BY DEF InsertEach
<1>3. \A c, p : InsertEachFor(t, S, c, p) = [k \in DOMAIN q |-> InsertFor(t, q[k], c, p)]
  BY DEF InsertEachFor
<1> HIDE DEF q
<1>4. ASSUME NEW c, NEW p
      PROVE  /\ Sequence(InsertEachFor(t, S, c, p))
             /\ \A k \in DOMAIN InsertEachFor(t, S, c, p) :
                   \E x \in S : InsertEachFor(t, S, c, p)[k] = InsertFor(t, x, c, p)
  <2> DEFINE f == [k \in DOMAIN q |-> InsertFor(t, q[k], c, p)]
  <2>1. f = [k \in 1..Len(q) |-> f[k]] /\ \A k \in DOMAIN f : \E x \in S : f[k] = InsertFor(t, x, c, p)
    BY <1>1
  <2>2. InsertEachFor(t, S, c, p) = f
    BY <1>3
  <2> HIDE DEF f
  <2> QED BY <1>1, <2>1, <2>2, FunctionSequence
<1>5. \A k \in DOMAIN InsertEach(t, S) : \E x \in S : InsertEach(t, S)[k] = Insert(t, x)
  BY <1>1, <1>2
<1> QED BY <1>4, <1>5, EachSequence

\* One after the other.
LEMMA OneThenOne ==
    ASSUME NEW a, NEW b
    PROVE  /\ Sequence(<<a>> \o <<b>>) /\ DOMAIN (<<a>> \o <<b>>) = {1, 2}
           /\ (<<a>> \o <<b>>)[1] = a /\ (<<a>> \o <<b>>)[2] = b
<1> DEFINE x == <<a>>
           y == <<b>>
<1>1. /\ Sequence(x) /\ Len(x) = 1 /\ DOMAIN x = {1} /\ x[1] = a
      /\ Sequence(y) /\ Len(y) = 1 /\ DOMAIN y = {1} /\ y[1] = b
  BY OneElement
<1> HIDE DEF x, y
<1>2. /\ Sequence(x \o y)
      /\ DOMAIN (x \o y) = 1..(Len(x) + Len(y))
      /\ \A k \in DOMAIN x : k \in DOMAIN (x \o y) /\ (x \o y)[k] = x[k]
      /\ \A k \in DOMAIN (x \o y) \ DOMAIN x :
            k - Len(x) \in DOMAIN y /\ (x \o y)[k] = y[k - Len(x)]
  BY <1>1, ConcatFacts
<1> DEFINE z == x \o y
<1> HIDE DEF z
<1>3. DOMAIN z = {1, 2}
  BY <1>1, <1>2 DEF z
<1>4. z[1] = a /\ z[2] = b
  BY <1>1, <1>2, <1>3 DEF z
<1> QED BY <1>2, <1>3, <1>4 DEF x, y, z

\* One more.
Appended(z, x, a) == z = Append(x, a)

\* It comes last.
LEMMA AppendFacts ==
    ASSUME NEW x, Sequence(x), NEW a, NEW z, Appended(z, x, a)
    PROVE  /\ Sequence(z) /\ Len(z) = Len(x) + 1
           /\ DOMAIN z = 1..(Len(x) + 1)
           /\ \A k \in DOMAIN x : z[k] = x[k]
           /\ z[Len(x) + 1] = a
<1> DEFINE S == {x[k] : k \in DOMAIN x}
           T == S \cup {a}
<1>1. x \in Seq(S)
  BY DEF Sequence
<1> HIDE DEF S
<1>2. x \in Seq(T)
  <2>1. S \subseteq T
    OBVIOUS
  <2> HIDE DEF T
  <2> QED BY <1>1, <2>1, SeqMonotonic
<1>3. a \in T
  OBVIOUS
<1> HIDE DEF T
<1>4. /\ Append(x, a) \in Seq(T) /\ Len(Append(x, a)) = Len(x) + 1
      /\ \A k \in 1..Len(x) : Append(x, a)[k] = x[k]
      /\ Append(x, a)[Len(x) + 1] = a
  BY <1>2, <1>3, AppendProperties
<1>5. /\ z \in Seq(T) /\ Len(z) = Len(x) + 1
      /\ \A k \in 1..Len(x) : z[k] = x[k]
      /\ z[Len(x) + 1] = a
  BY <1>4 DEF Appended
<1>6. Sequence(z) /\ Len(x) \in Nat /\ DOMAIN x = 1..Len(x)
  BY <1>5, SomeSequence, SequenceFacts
<1>7. DOMAIN z = 1..(Len(x) + 1)
  BY <1>5, <1>6, SequenceFacts
<1> QED BY <1>5, <1>6, <1>7

\* It is a sequence.
LEMMA AppendSequence ==
    ASSUME NEW x, Sequence(x), NEW a
    PROVE  Sequence(Append(x, a))
<1> DEFINE z == Append(x, a)
<1>1. Appended(z, x, a)
  BY DEF Appended
<1> HIDE DEF z
<1>2. Sequence(z)
  BY <1>1, AppendFacts
<1> QED BY <1>2 DEF z

\* And one before.
LEMMA PrependFacts ==
    ASSUME NEW y, Sequence(y), NEW a
    PROVE  /\ Sequence(<<a>> \o y) /\ Len(<<a>> \o y) = Len(y) + 1
           /\ DOMAIN (<<a>> \o y) = 1..(Len(y) + 1)
           /\ (<<a>> \o y)[1] = a
           /\ \A k \in DOMAIN y : (<<a>> \o y)[k + 1] = y[k]
<1> DEFINE x == <<a>>
<1>1. Sequence(x) /\ Len(x) = 1 /\ DOMAIN x = {1} /\ x[1] = a
  BY OneElement
<1> HIDE DEF x
<1>2. Len(y) \in Nat /\ DOMAIN y = 1..Len(y)
  BY SequenceFacts
<1> DEFINE z == x \o y
<1>3. /\ Sequence(z)
      /\ DOMAIN z = 1..(Len(x) + Len(y))
      /\ \A k \in DOMAIN x : k \in DOMAIN z /\ z[k] = x[k]
      /\ \A k \in DOMAIN z \ DOMAIN x : k - Len(x) \in DOMAIN y /\ z[k] = y[k - Len(x)]
  BY <1>1, ConcatFacts
<1> HIDE DEF z
<1>4. DOMAIN z = 1..(Len(y) + 1)
  BY <1>1, <1>2, <1>3
<1>5. Len(z) = Len(y) + 1
  BY <1>2, <1>3, <1>4, SequenceFacts
<1>6. z[1] = a
  BY <1>1, <1>3
<1>7. ASSUME NEW k \in DOMAIN y PROVE z[k + 1] = y[k]
  <2>1. k + 1 \in DOMAIN z \ DOMAIN x /\ (k + 1) - Len(x) = k
    BY <1>1, <1>2, <1>4
  <2> QED BY <1>3, <2>1
<1> QED BY <1>3, <1>4, <1>5, <1>6, <1>7 DEF z, x

\* What is made of finitely many things is finitely many.
LEMMA FiniteImage ==
    ASSUME NEW S, IsFiniteSet(S), NEW f, f = [i \in S |-> f[i]]
    PROVE  IsFiniteSet({f[i] : i \in S})
<1> DEFINE T == {f[i] : i \in S}
<1>1. f \in Surjection(S, T)
  BY DEF Surjection
<1> HIDE DEF T
<1>2. IsFiniteSet(T)
  BY <1>1, FS_Surjection
<1> QED BY <1>2 DEF T

\* A row whose columns refer to no other is inserted as it is.
LEMMA PlainRow ==
    ASSUME NEW s, NEW k, Sent(s)[k].refers = <<>>
    PROVE  /\ DOMAIN NewRow(s, k) = DOMAIN Sent(s)[k].columns
           /\ \A c \in DOMAIN Sent(s)[k].columns : NewRow(s, k)[c] = Sent(s)[k].columns[c]
BY EmptySequence DEF NewRow

\* Each element of a finite set is inserted, and each of the rows is updated.
LEMMA EachOne ==
    ASSUME NEW S, IsFiniteSet(S), NEW t
    PROVE  /\ \A x \in S : \E k \in DOMAIN InsertEach(t, S) : InsertEach(t, S)[k] = Insert(t, x)
           /\ \A columns, k : k \in DOMAIN UpdateEach(t, S, columns) =>
                 \E i \in S : UpdateEach(t, S, columns)[k] = Update(t, i, columns)
<1> DEFINE q == Listed(S)
<1>1. /\ \A k \in DOMAIN q : q[k] \in S
      /\ \A x \in S : \E k \in DOMAIN q : q[k] = x
  BY ListedFacts
<1>2. InsertEach(t, S) = [k \in DOMAIN q |-> Insert(t, q[k])]
  BY DEF InsertEach
<1>3. \A columns : UpdateEach(t, S, columns) = [k \in DOMAIN q |-> Update(t, q[k], columns)]
  BY DEF UpdateEach
<1> HIDE DEF q
<1>4. \A x \in S : \E k \in DOMAIN InsertEach(t, S) : InsertEach(t, S)[k] = Insert(t, x)
  BY <1>1, <1>2
<1>5. ASSUME NEW columns, NEW k, k \in DOMAIN UpdateEach(t, S, columns)
      PROVE  \E i \in S : UpdateEach(t, S, columns)[k] = Update(t, i, columns)
  <2> DEFINE u == UpdateEach(t, S, columns)
             f == [j \in DOMAIN q |-> Update(t, q[j], columns)]
  <2>1. u = f
    BY <1>3
  <2>2. DOMAIN f = DOMAIN q /\ \A j \in DOMAIN q : f[j] = Update(t, q[j], columns)
    OBVIOUS
  <2> HIDE DEF f
  <2> QED BY <1>1, <1>5, <2>1, <2>2
<1> QED BY <1>4, <1>5

\* What an UPDATE says, and an INSERT.
LEMMA StatementFacts ==
    /\ \A t, row : /\ Insert(t, row).table = t /\ Insert(t, row).id = 0
                   /\ Insert(t, row).columns = row /\ Insert(t, row).refers = <<>>
    /\ \A t, i, columns :
          /\ Update(t, i, columns).table = t /\ Update(t, i, columns).id = i
          /\ DOMAIN Update(t, i, columns).columns \subseteq DOMAIN columns
          /\ \A c \in DOMAIN columns :
                IF c \in DOMAIN Update(t, i, columns).columns
                THEN Update(t, i, columns).columns[c] = columns[c]
                ELSE rows[t][i][c] = columns[c]
BY DEF Insert, Update, Changed

\* The only statement about a row makes it what it is then.
LEMMA OnlyUpdate ==
    ASSUME WellFormed, NEW s \in Session, Commit(s), NEW t \in DOMAIN rows,
           NEW i \in DOMAIN rows[t], NEW k \in DOMAIN Sent(s),
           \A j \in DOMAIN Sent(s) : Sent(s)[j].table = t /\ Sent(s)[j].id = i <=> j = k
    PROVE  \A c \in DOMAIN rows[t][i] :
              rows'[t][i][c] = IF c \in DOMAIN Sent(s)[k].columns THEN Sent(s)[k].columns[c]
                               ELSE rows[t][i][c]
<1>1. Sequence(rows[t]) /\ Sequence(Sent(s))
  BY SentWellFormed DEF WellFormed, Commit
<1>2. rows'[t][i] = Updated(s, t, i)
  BY <1>1, CommitFacts
<1> SUFFICES ASSUME NEW c \in DOMAIN rows[t][i]
             PROVE  Updated(s, t, i)[c] = IF c \in DOMAIN Sent(s)[k].columns THEN Sent(s)[k].columns[c]
                                          ELSE rows[t][i][c]
  BY <1>2
<1> QED BY UpdatedFacts

\* A row of a table is not number 0.
LEMMA RowNumber ==
    ASSUME WellFormed, NEW t \in DOMAIN rows, NEW i \in DOMAIN rows[t]
    PROVE  i # 0
BY SequenceFacts DEF WellFormed

\* The rows of a table are finitely many.
LEMMA FiniteRows ==
    ASSUME WellFormed, NEW t \in DOMAIN rows, NEW S \in SUBSET (DOMAIN rows[t])
    PROVE  IsFiniteSet(S)
<1>1. Len(rows[t]) \in Int /\ 1 \in Int /\ DOMAIN rows[t] = 1..Len(rows[t])
  BY SequenceFacts DEF WellFormed
<1>2. IsFiniteSet(DOMAIN rows[t])
  BY <1>1, FS_Interval
<1> QED BY <1>2, FS_Subset

\* A sequence of three elements.
LEMMA ThreeElements ==
    ASSUME NEW a, NEW b, NEW c
    PROVE  /\ Sequence(<<a, b, c>>) /\ DOMAIN <<a, b, c>> = {1, 2, 3}
           /\ <<a, b, c>>[1] = a /\ <<a, b, c>>[2] = b /\ <<a, b, c>>[3] = c
<1> DEFINE x == <<a, b, c>>
<1>1. x \in Seq({a, b, c}) /\ DOMAIN x = 1..3 /\ x[1] = a /\ x[2] = b /\ x[3] = c
  OBVIOUS
<1> HIDE DEF x
<1>2. Sequence(x) /\ DOMAIN x = {1, 2, 3}
  BY <1>1, SomeSequence
<1> QED BY <1>1, <1>2 DEF x

\* A sequence with another element in one place.
LEMMA ExceptSequence ==
    ASSUME NEW x, Sequence(x), NEW i, NEW v
    PROVE  Sequence([x EXCEPT ![i] = v])
<1> DEFINE z == [x EXCEPT ![i] = v]
<1>1. Len(x) \in Nat /\ DOMAIN x = 1..Len(x)
  BY SequenceFacts
<1>2. DOMAIN z = DOMAIN x /\ z = [k \in DOMAIN z |-> z[k]]
  OBVIOUS
<1> HIDE DEF z
<1>3. z = [k \in 1..Len(x) |-> z[k]]
  BY <1>1, <1>2
<1>4. Sequence(z)
  BY <1>1, <1>3, FunctionSequence
<1> QED BY <1>4 DEF z
=============================================================================
