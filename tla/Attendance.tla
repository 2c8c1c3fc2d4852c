------------------------------ MODULE Attendance ------------------------------
(***************************************************************************)
(* The attendance of children: one record a day, created at check-in,       *)
(* changed when the child leaves, deleted.  A change loads the record with    *)
(* its child, applies the request and saves both whole.                      *)
(***************************************************************************)
EXTENDS Persons

CONSTANTS
    MaxRecord,    \* attendance ids: 1..MaxRecord
    MaxClock,     \* times of the day: 1..MaxClock
    NoTime,       \* SQL NULL
    Keep          \* a field the request omits

ASSUME AttendanceSizes == MaxRecord \in Nat /\ MaxClock \in Nat
ASSUME AttendanceSentinels == NoTime # Keep /\ {NoTime, Keep} \cap Nat = {}

RecordId == 1..MaxRecord
Clock == 1..MaxClock
Status == {"present", "absent"}    \* sick and vacation are treated like absent
Attendance == [child : PersonId, date : Day, status : Status,
               in : Clock \cup {NoTime}, out : Clock \cup {NoTime}]

AttendanceKinds == {"createAttendance", "updateAttendance", "deleteAttendance"}
AttendanceRequests ==
    {k \in [kind : AttendanceKinds, person : PersonId, record : RecordId, date : Day,
            status : Status \cup {Keep}, in : Clock \cup {NoTime, Keep}, out : Clock \cup {NoTime, Keep}] :
       k.kind = "createAttendance" => k.status \in Status}

VARIABLES
    records, nextRecord,
    held     \* per request: the id, the row to save and its child's name, once loaded

attendanceTables == <<records, nextRecord>>
attendanceVars == <<attendanceTables, held>>

NothingHeld == [id |-> 0, row |-> NoRow, who |-> NoRow]

AttendanceReply(r, code) == Answer(r, code) /\ UNCHANGED <<attendanceTables, persons>>
AttendanceGoto(r, stage) == Goto(r, stage) /\ UNCHANGED <<attendanceTables, persons>>

OnDay(c, d) == {a \in RecordId : records[a] # NoRow /\ records[a].child = c /\ records[a].date = d}

\* The record, behind the path's child.
Owned(r) == records[q[r].record] # NoRow /\ records[q[r].record].child = q[r].person

---------------------------------------------------------------------------

FindAttendanceChild(r) ==
    /\ pc[r] = "createAttendance" /\ UNCHANGED held
    /\ IF ~Found(q[r].person) THEN AttendanceReply(r, "notFound") ELSE AttendanceGoto(r, "findDay")

FindDay(r) ==
    /\ pc[r] = "findDay" /\ UNCHANGED held
    /\ IF OnDay(q[r].person, q[r].date) # {} THEN AttendanceReply(r, "conflict")
       ELSE AttendanceGoto(r, "insertAttendance")

\* A present child without a time is checked in now.
CheckIn(k, now) ==
    IF k.status # "present" THEN NoTime ELSE IF k.in \in Clock THEN k.in ELSE now

InsertAttendance(r) ==
    LET k == q[r]
    IN  /\ pc[r] = "insertAttendance" /\ nextRecord \in RecordId
        /\ IF OnDay(k.person, k.date) # {} \/ ~Found(k.person)
           THEN AttendanceReply(r, "error") /\ UNCHANGED held
           ELSE \E now \in Clock :
                  /\ records' = [records EXCEPT ![nextRecord] =
                        [child |-> k.person, date |-> k.date, status |-> k.status,
                         in |-> CheckIn(k, now), out |-> NoTime]]
                  /\ nextRecord' = nextRecord + 1
                  /\ held' = [held EXCEPT ![r].id = nextRecord]
                  /\ Goto(r, "reloadAttendance") /\ UNCHANGED persons

ReloadAttendance(r) ==
    /\ pc[r] = "reloadAttendance" /\ UNCHANGED held
    /\ AttendanceReply(r, IF records[held[r].id] = NoRow THEN "error" ELSE "ok")

Pick(new, old) == IF new = Keep THEN old ELSE new

\* An explicit null clears a time; an absent child has none; a present one was
\* checked in at some time.
Applied(row, k, now) ==
    LET in == Pick(k.in, row.in)
        out == Pick(k.out, row.out)
        present == k.status = "present"
    IN  [row EXCEPT !.status = Pick(k.status, row.status),
                    !.in = IF k.status = Keep THEN in
                           ELSE IF ~present THEN NoTime ELSE IF in = NoTime THEN now ELSE in,
                    !.out = IF k.status = Keep \/ present THEN out ELSE NoTime]

InBeforeOut(row) == row.in \in Clock /\ row.out \in Clock => row.in < row.out

LoadAttendance(r) ==
    LET a == q[r].record
    IN  /\ pc[r] = "updateAttendance"
        /\ IF ~Owned(r) THEN AttendanceReply(r, "notFound") /\ UNCHANGED held
           ELSE \E now \in Clock :
                  LET row == Applied(records[a], q[r], now)
                  IN  IF ~InBeforeOut(row) THEN AttendanceReply(r, "badRequest") /\ UNCHANGED held
                      ELSE /\ AttendanceGoto(r, "saveAttendance")
                           /\ held' = [held EXCEPT ![r] =
                                [id |-> a, row |-> row, who |-> persons[row.child]]]

\* Mutant: only the columns the request names are written.
SaveNamedColumns(r) ==
    LET k == q[r]
        a == held[r].id
    IN  /\ pc[r] = "saveAttendance" /\ UNCHANGED <<persons, nextRecord>>
        /\ held' = [held EXCEPT ![r] = NothingHeld] /\ Answer(r, "ok")
        /\ records' = IF records[a] = NoRow THEN records
                      ELSE [records EXCEPT ![a] =
                              [@ EXCEPT !.in = IF k.in = Keep THEN @ ELSE held[r].row.in,
                                        !.out = IF k.out = Keep THEN @ ELSE held[r].row.out]]

\* Save inserts the child first when it is gone, then writes the row or, when that is
\* gone, inserts it again unless the day was taken.
SaveAttendance(r) ==
    LET h == held[r]
        taken == OnDay(h.row.child, h.row.date) \ {h.id} # {}
    IN  /\ pc[r] = "saveAttendance" /\ ~Locked(h.row.child) /\ UNCHANGED nextRecord
        /\ held' = [held EXCEPT ![r] = NothingHeld]
        /\ persons' = [persons EXCEPT ![h.row.child] = IF @ = NoRow THEN h.who ELSE @]
        /\ IF taken THEN Answer(r, "error") /\ UNCHANGED records
           ELSE Answer(r, "ok") /\ records' = [records EXCEPT ![h.id] = h.row]

FindAttendance(r) ==
    /\ pc[r] = "deleteAttendance" /\ UNCHANGED held
    /\ IF ~Owned(r) THEN AttendanceReply(r, "notFound") ELSE AttendanceGoto(r, "removeAttendance")

RemoveAttendance(r) ==
    /\ pc[r] = "removeAttendance" /\ Answer(r, "ok") /\ UNCHANGED <<held, persons, nextRecord>>
    /\ records' = [records EXCEPT ![q[r].record] = NoRow]

AttendanceStep(r) ==
    \/ FindAttendanceChild(r) \/ FindDay(r) \/ InsertAttendance(r) \/ ReloadAttendance(r)
    \/ LoadAttendance(r) \/ SaveAttendance(r) \/ FindAttendance(r) \/ RemoveAttendance(r)

---------------------------------------------------------------------------

\* A record is a child's, there is one for a child and a day, and nobody left before
\* coming: each save writes every column of the row that was checked.
AttendanceConsistent ==
    \A a \in RecordId : records[a] # NoRow =>
        /\ Found(records[a].child) /\ OnDay(records[a].child, records[a].date) = {a}
        /\ InBeforeOut(records[a])
=============================================================================
