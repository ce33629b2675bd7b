--------------------------- MODULE MCEventStorage ---------------------------
(* Values for EventStorage: new memory that reads as an early or a late time. *)
EXTENDS EventStorage

GarbageTimes == {0, 3}

=============================================================================
