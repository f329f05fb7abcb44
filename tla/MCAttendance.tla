---------------------------- MODULE MCAttendance ----------------------------
(* Attendance on a small instance.  The second of two days is a day off.     *)
EXTENDS Attendance
DaysOff == {2}
=============================================================================
