---------------------------- MODULE MCHydration -----------------------------
(***************************************************************************)
(* Rendering for TLC, with nobody rendering: two controllers that observe, *)
(* each in a process of its own and each with a ScheduledBackup of its     *)
(* own.  Their keys are in one Secret, under indexes of their own but for  *)
(* the passphrase's, which both leave to the default.  The second          *)
(* ScheduledBackup waits for its key, until a user asks for one.           *)
(***************************************************************************)
EXTENDS Rendering

CONSTANTS s1, s2, b1, b2

MCReplicas == {{s1}, {s2}}

MCRequest == [l \in Loops |-> [backup |-> IF l = s1 THEN b1 ELSE b2, action |-> ""]]

MCRef == [b \in {b1, b2} |-> IF b = b1
    THEN [publicKey |-> "public", privateKey |-> "private", passphraseKey |-> ""]
    ELSE [publicKey |-> "public2", privateKey |-> "private2", passphraseKey |-> ""]]

Nightly == [operation |-> "backup", cron |-> TRUE, create |-> TRUE,
            internal |-> FALSE, vars |-> FALSE]
MCFirstSpecs == [b \in {b1, b2} |-> [Nightly EXCEPT !.create = (b = b1)]]
MCLaterSpecs == {Nightly}

MCBudget == [f \in Faults |-> IF f \in {"template", "render", "keygen"} THEN 0 ELSE 1]
=============================================================================
