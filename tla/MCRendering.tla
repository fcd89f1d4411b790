---------------------------- MODULE MCRendering -----------------------------
(***************************************************************************)
(* Rendering for TLC: the reconciler of a ScheduledBackup and the one of a *)
(* RequestedBackupAction that restores from it, in one process.            *)
(***************************************************************************)
EXTENDS Rendering

CONSTANTS s1, a1, b1

MCReplicas == {{s1, a1}}

MCRequest == [l \in Loops |->
    [backup |-> b1, action |-> IF l = a1 THEN "restore" ELSE ""]]

MCRef == [b \in {b1} |->
    [publicKey |-> "public", privateKey |-> "private", passphraseKey |-> ""]]

\* A nightly backup.  Later the key may be provided and vars come from a Secret,
\* or a template of BMG's own be used to restore every night.
Nightly == [operation |-> "backup", cron |-> TRUE, create |-> TRUE,
            internal |-> FALSE, vars |-> FALSE]
MCFirstSpecs == [b \in {b1} |-> Nightly]
MCLaterSpecs == {[Nightly EXCEPT !.create = FALSE, !.vars = TRUE],
                 [Nightly EXCEPT !.internal = TRUE, !.operation = "restore"]}

MCBudget == [f \in Faults |-> 1]
=============================================================================
