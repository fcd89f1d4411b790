---------------------- MODULE MCRequestedBackupAction -----------------------
(***************************************************************************)
(* RequestedBackupAction for TLC.  A template that renders a Job with      *)
(* generateName and one with a fixed name reaches every branch of          *)
(* CreateOrUpdate.                                                         *)
(***************************************************************************)
EXTENDS RequestedBackupAction

Generated == [named |-> FALSE]
Named == [named |-> TRUE]

MCDocs == <<Named, Generated>>
MCOneJob == <<Generated>>

\* The workers as model values, and the processes they belong to.
CONSTANTS r1, r2, o1, o2

MCOneReplica == {{r1, o1}}
MCTwoReplicas == {{r1, o1}, {r2, o2}}

Limit(n, fs) == [f \in Faults |-> IF f \in fs THEN n ELSE 0]

\* Every fault once; and with it as many edits as an update has attempts.
MCEach == Limit(1, Faults)
MCEachAndTouches == [MCEach EXCEPT !["touch"] = RetrySteps]
MCCrash == Limit(1, {"crash"})
MCNoFault == Limit(0, {})
=============================================================================
