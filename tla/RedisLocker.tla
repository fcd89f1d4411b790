---------------------------- MODULE RedisLocker -----------------------------
(***************************************************************************)
(* RedisDistributedLocker (pkg/locking/redis.go).                          *)
(*                                                                         *)
(* Obtain is one SET NX PX 60s carrying a random token, without retries    *)
(* and without a later refresh; Done releases the key only if it still     *)
(* holds the caller's token.  A caller is sequential and never obtains a   *)
(* key it is already in a session of, so the caller's own identity can     *)
(* stand for its token.                                                    *)
(***************************************************************************)
EXTENDS FiniteSets, Naturals

CONSTANTS Procs,   \* the reconcile loops that share the Redis server
          Keys,    \* resource names: createLockingId(req)
          None     \* no key, no token

ASSUME NoneAssumption == None \notin Procs /\ None \notin Keys

VARIABLES store,    \* Redis: the token kept under each key, or None
          session,  \* the key each caller is in a session of, or None
          overrun   \* callers whose lease ended while they were in a session

lockVars == <<store, session, overrun>>

\* The types of the locker's state.  A session is a key: Done asserts that it is
\* the redislock.Lock of one, and panics on anything else.
LockTypeOK == /\ store \in [Keys -> Procs \cup {None}]
              /\ session \in [Procs -> Keys \cup {None}]
              /\ overrun \in SUBSET Procs

LockInit == /\ store = [k \in Keys |-> None]
            /\ session = [p \in Procs |-> None]
            /\ overrun = {}

-----------------------------------------------------------------------------
(* The client's calls.                                                     *)

\* Mutant of Obtain: SET without NX.
ObtainNoNX(p, k) ==
    /\ session[p] = None
    /\ store' = [store EXCEPT ![k] = p]
    /\ session' = [session EXCEPT ![p] = k]
    /\ UNCHANGED overrun

\* Mutant of Obtain: LockSession{lock.Token(), err}, which Done cannot release.
ObtainTokenOnly(p, k) ==
    /\ session[p] = None /\ store[k] = None
    /\ store' = [store EXCEPT ![k] = p]
    /\ session' = [session EXCEPT ![p] = p]
    /\ UNCHANGED overrun

\* SET NX succeeded and its answer arrived.  When the key is taken the call
\* answers ErrAlreadyLocked and nothing changes: a stuttering step.
Obtain(p, k) ==
    /\ session[p] = None
    /\ store[k] = None
    /\ store' = [store EXCEPT ![k] = p]
    /\ session' = [session EXCEPT ![p] = k]
    /\ UNCHANGED overrun

\* SET NX took effect but the answer was lost: the caller sees an error
\* (HasFailure), has no session, and its token stays in Redis.
ObtainReplyLost(p, k) ==
    /\ session[p] = None
    /\ store[k] = None
    /\ store' = [store EXCEPT ![k] = p]
    /\ UNCHANGED <<session, overrun>>

\* Mutant of Released: DEL without comparing the token.
ReleasedAnyToken(p) == [store EXCEPT ![session[p]] = None]

\* redislock's release script: DEL only if the stored token is the caller's.
Released(p) == [k \in Keys |-> IF session[p] = k /\ store[k] = p
                                 THEN None ELSE store[k]]

\* Done: the session ends whatever Release answers.
Done(p) ==
    /\ session[p] # None
    /\ store' = Released(p)
    /\ session' = [session EXCEPT ![p] = None]
    /\ overrun' = overrun \ {p}

\* Release failed before it reached Redis; the error is dropped.
DoneLost(p) ==
    /\ session[p] # None
    /\ session' = [session EXCEPT ![p] = None]
    /\ overrun' = overrun \ {p}
    /\ UNCHANGED store

-----------------------------------------------------------------------------
(* The 60 s TTL and the failure of a process.                              *)

Abandoned(k) == store[k] # None /\ session[store[k]] # k

\* Mutant of ExpireAbandoned: SET NX without PX.
NoExpiry(k) == FALSE /\ UNCHANGED lockVars

\* The TTL removes a token nobody is in a session for.
ExpireAbandoned(k) ==
    /\ Abandoned(k)
    /\ store' = [store EXCEPT ![k] = None]
    /\ UNCHANGED <<session, overrun>>

\* The TTL ends while the session is still open: nothing refreshes it.
ExpireHeld(k) ==
    /\ store[k] # None /\ session[store[k]] = k
    /\ store' = [store EXCEPT ![k] = None]
    /\ overrun' = overrun \cup {store[k]}
    /\ UNCHANGED session

\* The process that runs the loops ps dies: Done is never called.
Crash(ps) ==
    /\ session' = [p \in Procs |-> IF p \in ps THEN None ELSE session[p]]
    /\ overrun' = overrun \ ps
    /\ UNCHANGED store

-----------------------------------------------------------------------------
LockNext ==
    \/ \E p \in Procs, k \in Keys : Obtain(p, k) \/ ObtainReplyLost(p, k)
    \/ \E p \in Procs : Done(p) \/ DoneLost(p)
    \/ \E k \in Keys : ExpireAbandoned(k) \/ ExpireHeld(k)
    \/ \E ps \in SUBSET Procs : Crash(ps)

LockSpec == LockInit /\ [][LockNext]_lockVars

\* Redis applies the TTL, and a reconcile function that is not killed returns.
LockFairness == /\ \A k \in Keys : WF_lockVars(ExpireAbandoned(k))
                /\ \A p \in Procs : WF_lockVars(Done(p))

FairLockSpec == LockSpec /\ LockFairness

-----------------------------------------------------------------------------
(* Properties.                                                             *)

\* A session whose lease has not ended owns the key in Redis: neither the late
\* Done of a caller that overran its lease nor an Obtain takes it away.
LeaseInv ==
    \A p \in Procs, k \in Keys :
        session[p] = k /\ p \notin overrun => store[k] = p

\* locking/README.md: "a single ScheduledBackup or RequestedBackupAction is
\* processed only by one controller at a time", for sessions within 60 s: the
\* lease is not refreshed, and ExpireHeld lets others in after that.
InLeaseExclusion ==
    \A p, q \in Procs :
        /\ session[p] # None /\ session[p] = session[q]
        /\ p \notin overrun /\ q \notin overrun
        => p = q

\* Every token leaves Redis: the token of a crashed process, of a lost answer
\* or of a lost Release cannot lock a resource for ever.
LockFreed == \A k \in Keys : store[k] # None ~> store[k] = None

\* The sessions that are within their lease implement the abstract locker.
inLease == [k \in Keys |-> {p \in Procs \ overrun : session[p] = k}]
Abs == INSTANCE Locker WITH holders <- inLease
ImplementsLocker == Abs!LSpec
=============================================================================
