-------------------------------- MODULE Hostel --------------------------------
(***************************************************************************)
(* Hostel buildings, rooms, beds, the students who live in them, their     *)
(* outpasses and the nightly attendance (backend/app/services/             *)
(* hostel_service.py, hostel_outpass_service.py,                           *)
(* hostel_attendance_service.py).  No handler takes a lock, and no index   *)
(* concerns allocations.  Nothing here is ever deleted.                    *)
(***************************************************************************)
EXTENDS UnitOfWork

CONSTANTS
    Boarder,     \* students
    Number,      \* building codes, room and bed numbers
    Capacity,    \* values of a room's capacity
    Night        \* dates

BedStatus     == {"AVAILABLE", "OCCUPIED", "MAINTENANCE"}
OutpassStatus == {"PENDING", "APPROVED", "REJECTED", "CHECKED_OUT", "RETURNED"}
Mark          == {"PRESENT", "ABSENT"}    \* and the marks that differ like these

HostelBuilding == [code : Number, active : BOOLEAN]
HostelRoom     == [building : DOMAIN rows.buildings, code : Number, capacity : Capacity,
                   active : BOOLEAN]
HostelBed        == [room : DOMAIN rows.rooms, code : Number, status : BedStatus, active : BOOLEAN]
HostelAllocation == [student : Boarder, bed : DOMAIN rows.beds, status : {"ACTIVE", "RELEASED"}]
HostelOutpass    == [student : Boarder, status : OutpassStatus]
HostelAttendance == [student : Boarder, night : Night, mark : Mark]

TypeOK ==
    /\ Table("buildings", HostelBuilding) /\ Table("rooms", HostelRoom) /\ Table("beds", HostelBed)
    /\ Table("allocations", HostelAllocation) /\ Table("outpasses", HostelOutpass)
    /\ Table("attendance", HostelAttendance)

\* One building, one room, and beds for all numbers, none taken.
Init == \E c \in Number, k \in Capacity :
    Start([buildings |-> <<[code |-> c, active |-> TRUE]>>,
           rooms |-> <<[building |-> 1, code |-> c, capacity |-> k, active |-> TRUE]>>,
           beds |-> [n \in 1..Cardinality(Number) |->
                       [room |-> 1, code |-> n, status |-> "AVAILABLE", active |-> TRUE]],
           allocations |-> <<>>, outpasses |-> <<>>, attendance |-> <<>>])

Living == {a \in DOMAIN rows.allocations : rows.allocations[a].status = "ACTIVE"}

BedsOf(r) == {b \in DOMAIN rows.beds : rows.beds[b].room = r}

-----------------------------------------------------------------------------
\* The unique indexes.
Numbers   == /\ Unique("buildings", LAMBDA r : TRUE, LAMBDA r : r.code)
             /\ Unique("rooms", LAMBDA r : TRUE, LAMBDA r : <<r.building, r.code>>)
             /\ Unique("beds", LAMBDA r : TRUE, LAMBDA r : <<r.room, r.code>>)
OneMark   == Unique("attendance", LAMBDA r : TRUE, LAMBDA r : <<r.student, r.night>>)
Integrity == Numbers /\ OneMark

-----------------------------------------------------------------------------
CreateBuilding(s) == \E c \in Number, a \in BOOLEAN :
    /\ \A b \in DOMAIN rows.buildings : rows.buildings[b].code # c
    /\ Request(s, <<Insert("buildings", [code |-> c, active |-> a])>>)

\* The new code is not looked up: the index refuses a second one.
UpdateBuilding(s) == \E b \in DOMAIN rows.buildings, c \in Number, a \in BOOLEAN :
    Request(s, <<Update("buildings", b, [code |-> c, active |-> a])>>)

CreateRoom(s) == \E b \in DOMAIN rows.buildings, c \in Number, k \in Capacity, a \in BOOLEAN :
    /\ \A r \in DOMAIN rows.rooms : rows.rooms[r].building = b => rows.rooms[r].code # c
    /\ Request(s, <<Insert("rooms", [building |-> b, code |-> c, capacity |-> k, active |-> a])>>)

CreateBed(s) == \E r \in DOMAIN rows.rooms, c \in Number, st \in BedStatus, a \in BOOLEAN :
    /\ \A b \in BedsOf(r) : rows.beds[b].code # c
    /\ Request(s, <<Insert("beds", [room |-> r, code |-> c, status |-> st, active |-> a])>>)

Usable(b) ==
    LET r == rows.beds[b].room IN
    /\ rows.beds[b].status = "AVAILABLE" /\ rows.beds[b].active
    /\ rows.rooms[r].active
    /\ rows.buildings[rows.rooms[r].building].active

HasPlace(r) ==
    Cardinality({b \in BedsOf(r) : rows.beds[b].status = "OCCUPIED"}) < rows.rooms[r].capacity

Settle(s, p, b) ==
    Request(s, <<Insert("allocations", [student |-> p, bed |-> b, status |-> "ACTIVE"]),
                 Update("beds", b, [status |-> "OCCUPIED"])>>)

\* Mutant: the capacity of the room is not looked at.
AllocateCrowded(s) == \E p \in Boarder, b \in DOMAIN rows.beds :
    (\A a \in Living : rows.allocations[a].student # p) /\ Usable(b) /\ Settle(s, p, b)

\* The building the client names is looked up, not compared with the room's:
\* it is taken to be the room's.
AllocateStudent(s) == \E p \in Boarder, b \in DOMAIN rows.beds :
    /\ \A a \in Living : rows.allocations[a].student # p
    /\ Usable(b)
    /\ HasPlace(rows.beds[b].room)
    /\ Settle(s, p, b)

ReleaseStudentAllocation(s) == \E a \in Living :
    Request(s, <<Update("allocations", a, [status |-> "RELEASED"]),
                 Update("beds", rows.allocations[a].bed, [status |-> "AVAILABLE"])>>)

CreateOutpassRequest(s) == \E a \in Living :
    Request(s, <<Insert("outpasses", [student |-> rows.allocations[a].student,
                                      status |-> "PENDING"])>>)

Move(s, from, to) == \E o \in DOMAIN rows.outpasses :
    /\ rows.outpasses[o].status = from
    /\ Request(s, <<Update("outpasses", o, [status |-> to])>>)

\* Mutant: a decision is written as it is called in the request.
ApproveAsAsked(s)  == \E decision \in {"APPROVE", "REJECT"} : Move(s, "PENDING", decision)
ApproveOutpass(s)  == \E decision \in {"APPROVED", "REJECTED"} : Move(s, "PENDING", decision)
CheckoutStudent(s) == Move(s, "APPROVED", "CHECKED_OUT")
ReturnStudent(s)   == Move(s, "CHECKED_OUT", "RETURNED")

\* bulk_record_attendance does this for one student after the other, each with
\* a commit of its own.
RecordAttendance(s) == \E p \in Boarder, n \in Night, k \in Mark :
    LET existing == {m \in DOMAIN rows.attendance :
                        rows.attendance[m].student = p /\ rows.attendance[m].night = n}
    IN Request(s, IF existing = {}
                  THEN <<Insert("attendance", [student |-> p, night |-> n, mark |-> k])>>
                  ELSE <<Update("attendance", CHOOSE m \in existing : TRUE, [mark |-> k])>>)

Next == \E s \in Session :
    \/ CreateBuilding(s) \/ UpdateBuilding(s) \/ CreateRoom(s) \/ CreateBed(s)
    \/ AllocateStudent(s) \/ ReleaseStudentAllocation(s)
    \/ CreateOutpassRequest(s) \/ ApproveOutpass(s) \/ CheckoutStudent(s) \/ ReturnStudent(s)
    \/ RecordAttendance(s)
    \/ Commit(s) /\ Integrity'
    \/ Abort(s)

Spec == Init /\ [][Next]_<<rows, work, served>>

-----------------------------------------------------------------------------
\* One request after the other, a student lives in one bed, a bed has one
\* student and is shown as occupied.
BedsHeld ==
    /\ \A a, b \in Living : a # b =>
          /\ rows.allocations[a].student # rows.allocations[b].student
          /\ rows.allocations[a].bed # rows.allocations[b].bed
    /\ \A a \in Living : rows.beds[rows.allocations[a].bed].status = "OCCUPIED"

\* One request after the other, no more students live in a room than its
\* capacity, however many beds it has.
RoomsWithinCapacity == \A r \in DOMAIN rows.rooms :
    Cardinality({a \in Living : rows.beds[rows.allocations[a].bed].room = r})
        <= rows.rooms[r].capacity
=============================================================================
