------------------------------ MODULE Calendar ------------------------------
(***************************************************************************)
(* Utils.timestamp(), as the day it is in: timestamp_today() is the        *)
(* midnight before it, timestamp_yesterday() 24 hours earlier.             *)
(***************************************************************************)
EXTENDS Naturals

CONSTANT MaxDay  \* bound

ASSUME CalendarConstantsOK == MaxDay \in Nat \ {0}

VARIABLE day

Days == 0 .. MaxDay

midnight == day < MaxDay /\ day' = day + 1

Today(time) == time >= day
Yesterday(time) == time = day - 1
=============================================================================
