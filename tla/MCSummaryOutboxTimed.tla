------------------------- MODULE MCSummaryOutboxTimed -------------------------
(* Instances of SummaryOutboxTimed for TLC.                                *)
EXTENDS SummaryOutboxTimed

Policy == INSTANCE RetryPolicy WITH Width <- 8

MCBackoff == [a \in 1 .. AttemptCap |-> Policy!CalculateBackoff(1, 2, a)]
===============================================================================
