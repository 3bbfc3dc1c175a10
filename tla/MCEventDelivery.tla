-------------------------- MODULE MCEventDelivery --------------------------
(* EventDelivery for TLC: the sizes of the rings are the smallest that     *)
(* still let a reader be behind without being overrun.                     *)
EXTENDS EventDelivery

CONSTANTS yard, hall, browser
=============================================================================
