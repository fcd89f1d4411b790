---------------------------- MODULE HealthReport ----------------------------
(***************************************************************************)
(* How the jobs observers judge the Jobs an object owns:                   *)
(* createOwnedReferencesHealthReport (pkg/controllers) and the Job         *)
(* integration behind it (pkg/integration).                                *)
(*                                                                         *)
(* A Job is kept as the phase its .status counters can be in:              *)
(*     pending    nothing counted yet     Active = 0, Failed = 0           *)
(*     active     its pod runs            Active > 0, Failed = 0           *)
(*     retrying   a pod failed, another is tried          Failed > 0       *)
(*     complete   its pod succeeded       Active = 0, Failed = 0           *)
(*     recovered  succeeded after a failed pod            Failed > 0       *)
(*     failed     gave up                                 Failed > 0       *)
(***************************************************************************)
EXTENDS Naturals, Sequences

Phases == {"pending", "active", "retrying", "complete", "recovered", "failed"}
Verdicts == {"failed", "running", "succeeded"}

\* What the Job controller of Kubernetes may do next with a Job.
NextPhases(phase) == CASE phase = "pending"  -> {"active"}
                       [] phase = "active"   -> {"complete", "retrying", "failed"}
                       [] phase = "retrying" -> {"recovered", "failed"}
                       [] OTHER              -> {}

\* Mutant of HasFailed: a Job that succeeded after all has not failed.
NotRecovered(phase) == phase \in {"retrying", "failed"}

HasFailed(phase) == phase \in {"retrying", "recovered", "failed"}   \* Status.Failed > 0
IsActive(phase) == phase = "active"          \* Status.Active > 0, no failed pod

\* The Job integration's verdict on the Jobs that carry one tracking id.  A
\* tracking id no Job carries is an error.  (Jobs are the only kind there is an
\* integration for, and the only kind a RequestedBackupAction refers to.)
GetScheduledJobHealthStatus(phases) ==
    IF phases = {} THEN "error"
    ELSE IF \E phase \in phases : HasFailed(phase) THEN "failed"
    ELSE IF \E phase \in phases : IsActive(phase) THEN "running"
    ELSE "succeeded"

\* The Job is finished: its counters do not change any more.
IsTerminal(phase) == NextPhases(phase) = {}
=============================================================================
