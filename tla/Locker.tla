------------------------------- MODULE Locker -------------------------------
(***************************************************************************)
(* What the controllers expect of a `locking.Locker` (pkg/locking): at     *)
(* most one caller at a time is inside a session of a resource.  This is   *)
(* the abstract specification; RedisLocker and InMemoryLocker are the two  *)
(* implementations the program can be started with.                        *)
(***************************************************************************)
EXTENDS FiniteSets, Naturals

CONSTANTS Procs,    \* the reconcile loops that share the locker
          Keys      \* resource names: the output of createLockingId

VARIABLE holders    \* holders[k]: the callers inside a session of k

LInit == holders = [k \in Keys |-> {}]

\* Obtain answers without an error: p is inside a session of k.
Acquire(p, k) ==
    /\ holders[k] = {}
    /\ \A j \in Keys : p \notin holders[j]
    /\ holders' = [holders EXCEPT ![k] = {p}]

\* The callers ps stop being protected: Done, a crash, or the end of a lease.
Release(ps) == holders' = [k \in Keys |-> holders[k] \ ps]

LNext == \/ \E p \in Procs, k \in Keys : Acquire(p, k)
         \/ \E ps \in SUBSET Procs : Release(ps)

LSpec == LInit /\ [][LNext]_holders
=============================================================================
