--------------------------- MODULE MCEventDelivery ---------------------------
(* A queue of three events and up to nine pushes: the queue overflows with *)
(* every mix of events that must be kept and events that may be dropped.   *)
EXTENDS EventDelivery
=============================================================================
