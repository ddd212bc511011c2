------------------------------ MODULE Transport ------------------------------
(***************************************************************************)
(* School transport: vehicles, drivers, routes with their stops, and the   *)
(* seats allocated to students, as the requests of TransportService change *)
(* them (backend/app/services/transport_service.py); the endpoints commit. *)
(* One academic year: seats are counted and allocations unique per year.   *)
(* Registration number and code of a vehicle stand as one code.            *)
(***************************************************************************)
EXTENDS UnitOfWork

CONSTANTS
    Student,
    Code,       \* vehicle codes, licence numbers, route codes, stop orders
    Seats,      \* values of seating_capacity
    None        \* no vehicle, no driver

AllocationStatus == {"ACTIVE", "SUSPENDED", "CANCELLED"}

Vehicle == [code : Code, seats : Seats, deleted : BOOLEAN]
Driver  == [code : Code, deleted : BOOLEAN]
Route   == [code : Code, vehicle : DOMAIN rows.vehicles \cup {None},
            driver : DOMAIN rows.drivers \cup {None}, deleted : BOOLEAN]
RouteStop  == [route : DOMAIN rows.routes, code : Code, deleted : BOOLEAN]
Allocation == [student : Student, route : DOMAIN rows.routes, stops : SUBSET DOMAIN rows.stops,
               status : AllocationStatus, deleted : BOOLEAN]

TypeOK ==
    /\ Table("vehicles", Vehicle) /\ Table("drivers", Driver) /\ Table("routes", Route)
    /\ Table("stops", RouteStop) /\ Table("allocations", Allocation)

\* A vehicle with one seat or more and its driver, on one route with one stop.
\* One vehicle, which goes on one route or on several.
Init == \E c \in Code, n \in Seats, many \in BOOLEAN :
    Start([vehicles |-> <<[code |-> c, seats |-> n, deleted |-> FALSE]>>,
           drivers  |-> <<[code |-> c, deleted |-> FALSE]>>,
           routes   |-> [k \in IF many THEN Code ELSE {1} |->
                            [code |-> IF many THEN k ELSE c, vehicle |-> 1, driver |-> 1,
                             deleted |-> FALSE]],
           stops    |-> <<[route |-> 1, code |-> c, deleted |-> FALSE]>>,
           allocations |-> <<>>])

Coded(t, i, c) == \E j \in Live(t) \ {i} : rows[t][j].code = c

Active == {a \in Live("allocations") : rows.allocations[a].status = "ACTIVE"}

RoutesOf(v) == {r \in Live("routes") : rows.routes[r].vehicle = v}

Seated(v) == {a \in Active : rows.allocations[a].route \in RoutesOf(v)}

\* Mutant: only the seats taken on this route are counted.
HasSeatOnRoute(r, a) ==
    LET v == rows.routes[r].vehicle IN
    r \in Live("routes") /\ v \in Live("vehicles") =>
        Cardinality({b \in Seated(v) \ {a} : rows.allocations[b].route = r})
            < rows.vehicles[v].seats

\* _check_vehicle_capacity: no seat is counted on a route that is deleted or
\* has no vehicle.
HasSeat(r, a) ==
    LET v == rows.routes[r].vehicle IN
    r \in Live("routes") /\ v \in Live("vehicles") =>
        Cardinality(Seated(v) \ {a}) < rows.vehicles[v].seats

-----------------------------------------------------------------------------
\* The unique indexes of the five tables.
LiveCodes == \A t \in {"vehicles", "drivers", "routes"} :
    Unique(t, LAMBDA r : ~r.deleted, LAMBDA r : r.code)
StopOrder == Unique("stops", LAMBDA r : ~r.deleted, LAMBDA r : <<r.route, r.code>>)
OneSeat   == Unique("allocations", LAMBDA r : ~r.deleted /\ r.status = "ACTIVE",
                                   LAMBDA r : r.student)
Integrity == LiveCodes /\ StopOrder /\ OneSeat

-----------------------------------------------------------------------------
CreateVehicle(s) == \E c \in Code, n \in Seats :
    /\ ~Coded("vehicles", 0, c)
    /\ Request(s, <<Insert("vehicles", [code |-> c, seats |-> n, deleted |-> FALSE])>>)

\* Fewer seats than are taken may be set.
UpdateVehicle(s) == \E v \in Live("vehicles"), c \in Code, n \in Seats :
    /\ ~Coded("vehicles", v, c)
    /\ Request(s, <<Update("vehicles", v, [code |-> c, seats |-> n])>>)

DeleteVehicle(s) == \E v \in Live("vehicles") :
    Request(s, UpdateEach("routes", RoutesOf(v), [vehicle |-> None])
               \o <<Update("vehicles", v, [deleted |-> TRUE])>>)

CreateDriver(s) == \E c \in Code :
    /\ ~Coded("drivers", 0, c)
    /\ Request(s, <<Insert("drivers", [code |-> c, deleted |-> FALSE])>>)

UpdateDriver(s) == \E d \in Live("drivers"), c \in Code :
    /\ ~Coded("drivers", d, c)
    /\ Request(s, <<Update("drivers", d, [code |-> c])>>)

DeleteDriver(s) == \E d \in Live("drivers") :
    Request(s, UpdateEach("routes", {r \in Live("routes") : rows.routes[r].driver = d},
                          [driver |-> None])
               \o <<Update("drivers", d, [deleted |-> TRUE])>>)

CreateRoute(s) ==
    \E c \in Code, v \in Live("vehicles") \cup {None}, d \in Live("drivers") \cup {None} :
        /\ ~Coded("routes", 0, c)
        /\ Request(s, <<Insert("routes", [code |-> c, vehicle |-> v, driver |-> d,
                                          deleted |-> FALSE])>>)

\* A vehicle or driver is replaced, not taken away, and the seats of the new
\* vehicle are not compared with the allocations.
UpdateRoute(s) == \E r \in Live("routes") :
    \E c \in Code, v \in Live("vehicles") \cup {rows.routes[r].vehicle},
       d \in Live("drivers") \cup {rows.routes[r].driver} :
        /\ ~Coded("routes", r, c)
        /\ Request(s, <<Update("routes", r, [code |-> c, vehicle |-> v, driver |-> d])>>)

StopsOf(r) == {p \in Live("stops") : rows.stops[p].route = r}

DeleteRoute(s) == \E r \in Live("routes") :
    /\ \A a \in Active : rows.allocations[a].route # r
    /\ Request(s, <<Update("routes", r, [deleted |-> TRUE])>>
                  \o UpdateEach("stops", StopsOf(r), [deleted |-> TRUE]))

CreateStop(s) == \E r \in Live("routes"), c \in Code :
    /\ \A p \in StopsOf(r) : rows.stops[p].code # c
    /\ Request(s, <<Insert("stops", [route |-> r, code |-> c, deleted |-> FALSE])>>)

UpdateStop(s) == \E p \in Live("stops"), c \in Code :
    /\ \A q \in StopsOf(rows.stops[p].route) \ {p} : rows.stops[q].code # c
    /\ Request(s, <<Update("stops", p, [code |-> c])>>)

DeleteStop(s) == \E p \in Live("stops") :
    /\ \A a \in Active : p \notin rows.allocations[a].stops
    /\ Request(s, <<Update("stops", p, [deleted |-> TRUE])>>)

\* A pickup stop, a drop stop or both, by allocation type, all of the route.
StopChoices(r) == {P \in SUBSET StopsOf(r) : Cardinality(P) \in 1..2}

HasNoSeat(p, a) == \A b \in Active \ {a} : rows.allocations[b].student # p

AllocateStudent(s) == \E p \in Student, r \in Live("routes"), st \in AllocationStatus :
    \E P \in StopChoices(r) :
        /\ st = "ACTIVE" => HasNoSeat(p, 0) /\ HasSeat(r, 0)
        /\ Request(s, <<Insert("allocations", [student |-> p, route |-> r, stops |-> P,
                                               status |-> st, deleted |-> FALSE])>>)

\* The route is looked up only when it changes; its stops always are.
UpdateAllocation(s) == \E a \in Live("allocations"), st \in AllocationStatus :
    \E r \in Live("routes") \cup {rows.allocations[a].route} :
    \E P \in StopChoices(r) :
        /\ st = "ACTIVE" => HasSeat(r, a)
        /\ st = "ACTIVE" /\ rows.allocations[a].status # "ACTIVE" =>
               HasNoSeat(rows.allocations[a].student, a)
        /\ Request(s, <<Update("allocations", a, [route |-> r, stops |-> P, status |-> st])>>)

\* Neither the route nor the stops are looked up.
UpdateAllocationStatus(s) == \E a \in Live("allocations"), st \in AllocationStatus :
    /\ st = "ACTIVE" /\ rows.allocations[a].status # "ACTIVE" =>
           /\ HasSeat(rows.allocations[a].route, a)
           /\ HasNoSeat(rows.allocations[a].student, a)
    /\ Request(s, <<Update("allocations", a, [status |-> st])>>)

DeleteAllocation(s) == \E a \in Live("allocations") :
    Request(s, <<Update("allocations", a, [deleted |-> TRUE])>>)

Next == \E s \in Session :
    \/ CreateVehicle(s) \/ UpdateVehicle(s) \/ DeleteVehicle(s)
    \/ CreateDriver(s) \/ UpdateDriver(s) \/ DeleteDriver(s)
    \/ CreateRoute(s) \/ UpdateRoute(s) \/ DeleteRoute(s)
    \/ CreateStop(s) \/ UpdateStop(s) \/ DeleteStop(s)
    \/ AllocateStudent(s) \/ UpdateAllocation(s) \/ UpdateAllocationStatus(s)
    \/ DeleteAllocation(s)
    \/ Commit(s) /\ Integrity'
    \/ Abort(s)

Spec == Init /\ [][Next]_<<rows, work, served>>

-----------------------------------------------------------------------------
\* One request after the other, a seat is given only on a vehicle that has one
\* left, counting all the routes it serves.
SeatsSuffice ==
    \A v \in Live("vehicles") :
        (\E a \in Active' \ Active : rows'.allocations[a].route \in RoutesOf(v))
            => Cardinality(Seated(v)') <= rows.vehicles[v].seats

\* One request after the other, no route is left with a vehicle or a driver
\* that is gone, and no stop with a route that is.
RoutesComplete ==
    /\ \A r \in Live("routes") :
          /\ rows.routes[r].vehicle \in Live("vehicles") \cup {None}
          /\ rows.routes[r].driver \in Live("drivers") \cup {None}
    /\ \A p \in Live("stops") : rows.stops[p].route \in Live("routes")
=============================================================================
