--------------------------- MODULE MCSummaryOutbox ---------------------------
(* Instances of SummaryOutbox for TLC.                                     *)
EXTENDS SummaryOutbox

Policy == INSTANCE RetryPolicy WITH Width <- 8

(* backoff_base 1 and backoff_max 2 ticks: the delay grows, then is capped. *)
MCBackoff == [a \in 1 .. AttemptCap |-> Policy!CalculateBackoff(1, 2, a)]
==============================================================================
