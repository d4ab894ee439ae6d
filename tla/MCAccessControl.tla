-------------------------- MODULE MCAccessControl --------------------------
(* Small instances of AccessControl for TLC. *)
EXTENDS AccessControl

CONSTANTS a, b, c

Three == {a, b, c}
Plain == {[threshold |-> 1, critical_threshold |-> 2, time_lock_duration |-> 1]}
Strict == {[threshold |-> 2, critical_threshold |-> 3, time_lock_duration |-> 1]}
Changing == Plain \cup Strict

SetStaff == [kind |-> "SetRole", user |-> b, role |-> Staff]
Demote == [kind |-> "RemoveRole", user |-> b]
Elect == [kind |-> "SetAdmin", user |-> c]
Upgrade == [kind |-> "ScheduleUpgrade"]

AllActions == {SetStaff, Demote, Elect, Upgrade}
RoleActions == {SetStaff, Demote}
=============================================================================
