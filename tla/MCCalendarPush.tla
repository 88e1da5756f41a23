--------------------------- MODULE MCCalendarPush ---------------------------
(* The instance of CalendarPush that TLC checks.                             *)
EXTENDS CalendarPush, TLC
=============================================================================
