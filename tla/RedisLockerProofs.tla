------------------------- MODULE RedisLockerProofs --------------------------
(* Proofs about RedisLocker, for any sets of callers and resource names.   *)
EXTENDS RedisLocker, TLAPS

\* The inductive invariant: a session within its lease owns its key.
LockInv == LockTypeOK /\ LeaseInv

\* The lock server is empty and nobody is in a session at the start.
LEMMA LockInitInv == LockInit => LockInv
BY NoneAssumption DEF LockInit, LockInv, LockTypeOK, LeaseInv

\* Every call, expiry and crash keeps the key with the session that leased it.
LEMMA LockNextInv == LockInv /\ [LockNext]_lockVars => LockInv'
<1> SUFFICES ASSUME LockInv, [LockNext]_lockVars PROVE LockInv'
  OBVIOUS
<1> USE NoneAssumption DEF LockInv, LockTypeOK, LeaseInv
<1>1. CASE UNCHANGED lockVars
  BY <1>1 DEF lockVars
<1>2. ASSUME NEW p \in Procs, NEW k \in Keys, Obtain(p, k) PROVE LockInv'
  BY <1>2 DEF Obtain
<1>3. ASSUME NEW p \in Procs, NEW k \in Keys, ObtainReplyLost(p, k) PROVE LockInv'
  BY <1>3 DEF ObtainReplyLost
<1>4. ASSUME NEW p \in Procs, Done(p) PROVE LockInv'
  BY <1>4 DEF Done, Released
<1>5. ASSUME NEW p \in Procs, DoneLost(p) PROVE LockInv'
  BY <1>5 DEF DoneLost
<1>6. ASSUME NEW k \in Keys, ExpireAbandoned(k) PROVE LockInv'
  BY <1>6 DEF ExpireAbandoned, Abandoned
<1>7. ASSUME NEW k \in Keys, ExpireHeld(k) PROVE LockInv'
  BY <1>7 DEF ExpireHeld
<1>8. ASSUME NEW ps \in SUBSET Procs, Crash(ps) PROVE LockInv'
  BY <1>8 DEF Crash
<1> QED
  BY <1>1, <1>2, <1>3, <1>4, <1>5, <1>6, <1>7, <1>8 DEF LockNext

\* RedisDistributedLocker keeps the types of its state: who set each key, which key
\* each session holds and whose lease has ended.
THEOREM LockTypesCorrect == LockSpec => []LockTypeOK
<1>1. LockInv => LockTypeOK
  BY DEF LockInv
<1> QED
  BY <1>1, LockInitInv, LockNextInv, PTL DEF LockSpec

\* A session whose 60 s lease has not ended owns its key in Redis.
THEOREM LeaseInvariant == LockSpec => [](LockTypeOK /\ LeaseInv)
BY LockInitInv, LockNextInv, PTL DEF LockSpec, LockInv

\* Two callers are never both within the lease of the same resource.
THEOREM InLeaseExclusive == LockSpec => []InLeaseExclusion
<1>1. LockInv => InLeaseExclusion
  BY NoneAssumption DEF LockInv, LockTypeOK, LeaseInv, InLeaseExclusion
<1> QED
  BY <1>1, LockInitInv, LockNextInv, PTL DEF LockSpec

\* RedisDistributedLocker, seen through the sessions within their lease,
\* implements the abstract locker.
THEOREM RedisImplementsLocker == LockSpec => ImplementsLocker
<1>1. LockInit => Abs!LInit
  BY NoneAssumption DEF LockInit, Abs!LInit, inLease
<1>2. LockInv /\ [LockNext]_lockVars => [Abs!LNext]_inLease
  <2> SUFFICES ASSUME LockInv, [LockNext]_lockVars PROVE [Abs!LNext]_inLease
    OBVIOUS
  <2> USE NoneAssumption DEF LockInv, LockTypeOK, LeaseInv
  <2>1. CASE UNCHANGED lockVars
    BY <2>1 DEF lockVars, inLease
  <2>2. ASSUME NEW p \in Procs, NEW k \in Keys, Obtain(p, k)
        PROVE  Abs!LNext \/ inLease' = inLease
    <3>1. CASE p \in overrun
      BY <2>2, <3>1 DEF Obtain, inLease
    <3>2. CASE p \notin overrun
      <4>1. inLease[k] = {}
        BY <2>2 DEF Obtain, inLease
      <4>2. \A j \in Keys : p \notin inLease[j]
        BY <2>2 DEF Obtain, inLease
      <4>3. inLease' = [inLease EXCEPT ![k] = {p}]
        <5>1. \A j \in Keys : inLease'[j] = IF j = k THEN {p} ELSE inLease[j]
          BY <2>2, <3>2, <4>1 DEF Obtain, inLease
        <5> QED
          BY <5>1 DEF inLease
      <4> QED
        BY <4>1, <4>2, <4>3 DEF Abs!LNext, Abs!Acquire
    <3> QED
      BY <3>1, <3>2
  <2>3. ASSUME NEW p \in Procs, NEW k \in Keys, ObtainReplyLost(p, k)
        PROVE  inLease' = inLease
    BY <2>3 DEF ObtainReplyLost, inLease
  <2>4. ASSUME NEW ps \in SUBSET Procs, Abs!Release(ps) PROVE Abs!LNext
    BY <2>4 DEF Abs!LNext
  <2>5. ASSUME NEW p \in Procs, Done(p) \/ DoneLost(p) PROVE Abs!LNext
    <3>1. Abs!Release({p})
      BY <2>5 DEF Done, DoneLost, inLease, Abs!Release
    <3> QED
      BY <2>4, <3>1
  <2>6. ASSUME NEW k \in Keys, ExpireAbandoned(k) PROVE inLease' = inLease
    BY <2>6 DEF ExpireAbandoned, inLease
  <2>7. ASSUME NEW k \in Keys, ExpireHeld(k) PROVE Abs!LNext
    <3>1. Abs!Release({store[k]})
      BY <2>7 DEF ExpireHeld, inLease, Abs!Release
    <3>2. store[k] \in Procs
      BY <2>7 DEF ExpireHeld
    <3> QED
      BY <2>4, <3>1, <3>2
  <2>8. ASSUME NEW ps \in SUBSET Procs, Crash(ps) PROVE Abs!LNext
    <3>1. Abs!Release(ps)
      BY <2>8 DEF Crash, inLease, Abs!Release
    <3> QED
      BY <2>4, <3>1
  <2> HIDE DEF LockInv, LockTypeOK, LeaseInv
  <2> QED
    BY <2>1, <2>2, <2>3, <2>5, <2>6, <2>7, <2>8 DEF LockNext
<1> QED
  BY <1>1, <1>2, LockInitInv, LockNextInv, PTL
    DEF LockSpec, ImplementsLocker, Abs!LSpec
=============================================================================
