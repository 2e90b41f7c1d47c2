----------------------------- MODULE MCSchedule -----------------------------
(* Small instances of the schedule for TLC. *)
EXTENDS ScheduleOrder
=============================================================================
