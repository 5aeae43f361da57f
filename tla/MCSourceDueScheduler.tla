------------------------- MODULE MCSourceDueScheduler -------------------------
(* Instances of SourceDueScheduler for TLC.                                *)
EXTENDS SourceDueScheduler
===============================================================================
