------------------------------ MODULE UnitOfWork ------------------------------
(***************************************************************************)
(* How a request of the backend changes the database.  A handler runs in a *)
(* thread of its own with a SQLAlchemy session: it reads rows, checks them, *)
(* assigns columns and adds objects, and db.commit() sends what it changed *)
(* as one transaction.  Nothing keeps another request from committing      *)
(* between the reads and the commit, except a row lock (FOR UPDATE) and    *)
(* the constraints of the tables.                                          *)
(*                                                                         *)
(* The components that use this module give the tables, the handlers and   *)
(* the constraints.                                                        *)
(***************************************************************************)
EXTENDS Integers, Sequences, FiniteSets

CONSTANTS
    Session,    \* database sessions, one per request in flight
    MaxRequests \* bound: the requests of a history, refused ones not counted

VARIABLES
    rows,   \* the tables: for each, the sequence of the rows ever inserted
    work,   \* for each session, what it is about to send
    served  \* how many requests there have been

Untouched == [locks |-> {}, todo |-> <<>>]

Start(tables) ==
    /\ rows = tables
    /\ work = [s \in Session |-> Untouched]
    /\ served = 0

Idle(s) == work[s] = Untouched

-----------------------------------------------------------------------------
\* The elements of a finite set, one after the other in some order.  It is SetToSeq
\* of SequencesExt: each desk would come with all the other operators of it.
Listed(S) == CHOOSE q \in [1..Cardinality(S) -> S] :
    \A i, j \in DOMAIN q : q[i] = q[j] => i = j

(***************************************************************************)
(* Statements.  An UPDATE names only the columns whose value the session   *)
(* has changed: assigning the value that was read is no change.            *)
(***************************************************************************)
Changed(t, i, columns) ==
    [c \in {d \in DOMAIN columns : columns[d] # rows[t][i][d]} |-> columns[c]]

Update(t, i, columns) == [table |-> t, id |-> i, columns |-> Changed(t, i, columns)]

Insert(t, row) == [table |-> t, id |-> 0, columns |-> row, refers |-> <<>>]

\* One column is the id of the row that this transaction inserts into a table.
InsertFor(t, row, column, parent) ==
    [table |-> t, id |-> 0, columns |-> row, refers |-> [c \in {column} |-> parent]]

\* The same columns of several rows, and several rows.
UpdateEach(t, ids, columns) ==
    LET q == Listed(ids) IN [k \in DOMAIN q |-> Update(t, q[k], columns)]

InsertEach(t, set) ==
    LET q == Listed(set) IN [k \in DOMAIN q |-> Insert(t, q[k])]

InsertEachFor(t, set, column, parent) ==
    LET q == Listed(set) IN [k \in DOMAIN q |-> InsertFor(t, q[k], column, parent)]

\* is_deleted is a column like the others.
Live(t) == {i \in DOMAIN rows[t] : ~rows[t][i].deleted}

-----------------------------------------------------------------------------
\* The rows a session holds FOR UPDATE are not locked or updated by another.
Held(s) == UNION {work[r].locks : r \in Session \ {s}}

\* A handler has read and checked what it wanted, under its locks, and leaves
\* the transactions it is going to commit.  A request that changes nothing is
\* not followed.
RequestAll(s, locks, transactions) ==
    /\ Idle(s)
    /\ \E k \in DOMAIN transactions : \E j \in DOMAIN transactions[k] :
          transactions[k][j].columns # <<>>
    /\ served < MaxRequests
    /\ served' = served + 1
    /\ locks \cap Held(s) = {}
    /\ work' = [work EXCEPT ![s] = [locks |-> locks, todo |-> transactions]]
    /\ UNCHANGED rows

Request(s, statements) == RequestAll(s, {}, <<statements>>)

RequestLocked(s, locks, statements) == RequestAll(s, locks, <<statements>>)

Sent(s) == Head(work[s].todo)

Updated(s, t, i) ==
    LET set == {k \in DOMAIN Sent(s) : Sent(s)[k].table = t /\ Sent(s)[k].id = i}
    IN [c \in DOMAIN rows[t][i] |->
           IF \E k \in set : c \in DOMAIN Sent(s)[k].columns
           THEN LET k == CHOOSE k \in set : c \in DOMAIN Sent(s)[k].columns
                IN Sent(s)[k].columns[c]
           ELSE rows[t][i][c]]

\* The ids are of no order.
Inserted(s, t) ==
    LET new == Listed({k \in DOMAIN Sent(s) : Sent(s)[k].table = t /\ Sent(s)[k].id = 0})
    IN [n \in DOMAIN new |-> [c \in DOMAIN Sent(s)[new[n]].columns |->
            IF c \in DOMAIN Sent(s)[new[n]].refers
            THEN Len(rows[Sent(s)[new[n]].refers[c]]) + 1
            ELSE Sent(s)[new[n]].columns[c]]]

\* db.commit(): the first transaction that is left takes effect and releases
\* the locks.  The constraints of the tables are the component's to add.
Commit(s) ==
    /\ work[s].todo # <<>>
    /\ \A k \in DOMAIN Sent(s) : Sent(s)[k].columns # <<>> =>
           <<Sent(s)[k].table, Sent(s)[k].id>> \notin Held(s)
    /\ rows' = [t \in DOMAIN rows |->
                   [i \in DOMAIN rows[t] |-> Updated(s, t, i)] \o Inserted(s, t)]
    /\ work' = [work EXCEPT ![s] = [locks |-> {}, todo |-> Tail(@.todo)]]
    /\ UNCHANGED served

\* The request fails or its process dies: what it has not committed is undone.
Abort(s) ==
    /\ ~Idle(s)
    /\ work' = [work EXCEPT ![s] = Untouched]
    /\ UNCHANGED <<rows, served>>

-----------------------------------------------------------------------------
\* Every row of a table is one of these.
Table(t, Rows) == \A i \in DOMAIN rows[t] : rows[t][i] \in Rows

\* A unique index on the key of the rows in its scope.
Unique(t, InScope(_), Key(_)) ==
    \A i, j \in DOMAIN rows[t] :
        i # j /\ InScope(rows[t][i]) /\ InScope(rows[t][j])
            => Key(rows[t][i]) # Key(rows[t][j])
=============================================================================
