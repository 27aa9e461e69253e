-------------------------- MODULE MCScheduleDispatch --------------------------
(* A small instance of ScheduleDispatch for TLC.                           *)
EXTENDS ScheduleDispatchInv
=============================================================================
