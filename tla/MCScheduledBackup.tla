------------------------- MODULE MCScheduledBackup --------------------------
(* ScheduledBackup for TLC.                                                *)
EXTENDS ScheduledBackup

\* The workers as model values; the process they belong to.
CONSTANTS r1, o1

MCOneReplica == {{r1, o1}}

MCEach == [f \in Faults |-> 1]
MCNoFault == [f \in Faults |-> 0]
=============================================================================
