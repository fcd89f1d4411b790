-------------------- MODULE RequestedBackupActionProofs ---------------------
(* Proofs about RequestedBackupAction, for any number of replicas and      *)
(* documents and any bounds on faults.                                     *)
EXTENDS RequestedBackupAction, SequenceTheorems, TLAPS

-----------------------------------------------------------------------------
(* Lemmas about the operators of the model.                                *)

\* A status keeps its type under each of the changes a worker makes to it.
LEMMA StatusChanges ==
  ASSUME NEW s \in Status, NEW d \in 1 .. Len(Docs), issued \in Nat
  PROVE  /\ WithReference(s, d) \in Status
         /\ AfterApply(s, d) \in Status
         /\ Failed(s) \in Status
         /\ [s EXCEPT !.report = <<>>, !.healthy = TRUE] \in Status
         /\ [s EXCEPT !.healthy = FALSE] \in Status
         /\ \A tid \in Nat, verdict \in Verdicts : WithVerdict(s, tid, verdict) \in Status
<1>1. WithReference(s, d) \in Status
  <2>1. [doc |-> d, tid |-> issued + 1] \in Refs
    BY DEF Refs
  <2>2. Append(s.refs, [doc |-> d, tid |-> issued + 1]) \in Seq(Refs)
    BY <2>1, AppendProperties DEF Status
  <2> QED
    BY <2>2 DEF WithReference, Status
<1>2. AfterApply(s, d) \in Status
  BY DEF AfterApply, Status
<1>3. Failed(s) \in Status
  BY DEF Failed, Status
<1>4. [s EXCEPT !.report = <<>>, !.healthy = TRUE] \in Status
  <2>1. <<>> \in Seq([tid : Nat, verdict : Verdicts])
    BY EmptySeq
  <2> QED
    BY <2>1 DEF Status
<1>5. [s EXCEPT !.healthy = FALSE] \in Status
  BY DEF Status
<1>6. ASSUME NEW tid \in Nat, NEW verdict \in Verdicts
      PROVE  WithVerdict(s, tid, verdict) \in Status
  <2>1. Append(s.report, [tid |-> tid, verdict |-> verdict])
          \in Seq([tid : Nat, verdict : Verdicts])
    BY AppendProperties DEF Status
  <2>2. (s.healthy /\ verdict # "failed") \in BOOLEAN
    OBVIOUS
  <2> QED
    BY <2>1, <2>2 DEF WithVerdict, Status
<1> QED
  BY <1>1, <1>2, <1>3, <1>4, <1>5, <1>6

\* A list extends itself.
LEMMA PrefixReflexive == ASSUME NEW S, NEW s \in Seq(S) PROVE IsPrefix(s, s)
BY LenProperties DEF IsPrefix

\* A list that grows by one entry still extends what it extended.
LEMMA PrefixAppend ==
  ASSUME NEW S, NEW s \in Seq(S), NEW t \in Seq(S), NEW e \in S, IsPrefix(s, t)
  PROVE  IsPrefix(s, Append(t, e))
<1>1. /\ Append(t, e) \in Seq(S)
      /\ Len(Append(t, e)) = Len(t) + 1
      /\ \A i \in 1 .. Len(t) : Append(t, e)[i] = t[i]
  BY AppendProperties, LenProperties
<1>2. /\ Len(s) \in Nat /\ Len(t) \in Nat /\ Len(s) <= Len(t)
  BY LenProperties DEF IsPrefix
<1>3. /\ Len(SubSeq(t, 1, Len(s))) = Len(s)
      /\ SubSeq(t, 1, Len(s)) \in Seq(S)
      /\ \A i \in 1 .. Len(s) : SubSeq(t, 1, Len(s))[i] = t[i]
  <2>1. \A i \in 1 .. Len(s) : t[i] \in S
    BY <1>2, ElementOfSeq
  <2> QED
    BY <1>2, <2>1, SubSeqProperties
<1>4. /\ Len(SubSeq(Append(t, e), 1, Len(s))) = Len(s)
      /\ SubSeq(Append(t, e), 1, Len(s)) \in Seq(S)
      /\ \A i \in 1 .. Len(s) : SubSeq(Append(t, e), 1, Len(s))[i] = Append(t, e)[i]
  <2>1. \A i \in 1 .. Len(s) : Append(t, e)[i] \in S
    BY <1>1, <1>2, ElementOfSeq
  <2> QED
    BY <1>2, <2>1, SubSeqProperties
<1>5. SubSeq(Append(t, e), 1, Len(s)) = SubSeq(t, 1, Len(s))
  BY <1>1, <1>2, <1>3, <1>4, SeqEqual
<1> QED
  BY <1>1, <1>2, <1>5 DEF IsPrefix

\* The status of a new object has the type of a status.
LEMMA EmptyStatusType == EmptyStatus \in Status
BY EmptySeq DEF EmptyStatus, Status

\* CreateOrUpdate keeps the type of the objects.
LEMMA ObjectTypes ==
  ASSUME NEW d \in 1 .. Len(Docs), CreateOrUpdate(d), issued \in Nat,
         objs \in Seq([doc : 1 .. Len(Docs), tid : Nat, phase : Phases])
  PROVE  /\ issued' \in Nat
         /\ objs' \in Seq([doc : 1 .. Len(Docs), tid : Nat, phase : Phases])
<1> DEFINE Obj == [doc : 1 .. Len(Docs), tid : Nat, phase : Phases]
<1>1. issued + 1 \in Nat /\ issued' = issued + 1
  BY DEF CreateOrUpdate
<1>2. CASE Existing(d) = {}
  <2>1. [doc |-> d, tid |-> issued + 1, phase |-> "pending"] \in Obj
    BY <1>1 DEF Phases
  <2>2. objs' = Append(objs, [doc |-> d, tid |-> issued + 1, phase |-> "pending"])
    BY <1>2 DEF CreateOrUpdate
  <2> QED
    BY <1>1, <2>1, <2>2, AppendProperties
<1>3. CASE Existing(d) # {}
  <2>1. Len(objs) \in Nat /\ DOMAIN objs = 1 .. Len(objs)
    BY LenProperties
  <2>2. \A i \in 1 .. Len(objs) : objs[i] \in Obj
    BY ElementOfSeq
  <2>3. objs' = [i \in 1 .. Len(objs) |-> IF i \in Existing(d)
                    THEN [objs[i] EXCEPT !.tid = issued + 1] ELSE objs[i]]
    BY <1>3, <2>1 DEF CreateOrUpdate
  <2>4. \A i \in 1 .. Len(objs) : [objs[i] EXCEPT !.tid = issued + 1] \in Obj
    BY <1>1, <2>2
  <2>5. objs' \in [1 .. Len(objs) -> Obj]
    BY <2>2, <2>3, <2>4
  <2>6. objs' \in Seq(Obj)
    <3> HIDE DEF Obj
    <3>1. Seq(Obj) = UNION {[1 .. n -> Obj] : n \in Nat}
      BY SeqDef, Zenon
    <3>2. [1 .. Len(objs) -> Obj] \in {[1 .. n -> Obj] : n \in Nat}
      BY <2>1, Zenon
    <3> QED
      BY <2>5, <3>1, <3>2, Zenon
  <2> QED
    BY <1>1, <2>6
<1> QED
  BY <1>2, <1>3

-----------------------------------------------------------------------------
(* Type correctness.                                                       *)

\* A worker's index points at a rendered document or at a reference.
IndexInv ==
    \A w \in Workers : /\ pc[w] = "apply" => at[w] \in 1 .. Len(Docs)
                       /\ pc[w] = "list" => at[w] \in 1 .. Len(snap[w].refs)

TypeInv == TypeOK /\ IndexInv

\* A new object and idle workers have the right types.
LEMMA InitTypeInv == Init => TypeInv
<1> SUFFICES ASSUME Init PROVE TypeInv
  OBVIOUS
<1>1. Lock!LockTypeOK
  BY DEF Init, Lock!LockInit, Lock!LockTypeOK
<1>2. objs \in Seq([doc : 1 .. Len(Docs), tid : Nat, phase : Phases])
  BY EmptySeq DEF Init
<1>3. status \in Status /\ snap \in [Workers -> Status]
  BY EmptyStatusType DEF Init
<1>4. TypeOK
  BY <1>1, <1>2, <1>3 DEF Init, TypeOK, Steps
<1> QED
  BY <1>4 DEF Init, TypeInv, IndexInv

\* A fault is counted.
LEMMA SpendType ==
  ASSUME NEW f \in Faults, spent \in [Faults -> Nat], Spend(f)
  PROVE  spent' \in [Faults -> Nat]
BY DEF Spend

\* The ways a worker's locals change keep their types.
LEMMA LocalTypes ==
  ASSUME TypeInv, NEW w \in Workers
  PROVE  /\ \A ws \in SUBSET Workers, step \in {"idle", "done"} :
                Forget(ws, step) => /\ pc' \in [Workers -> Steps]
                                    /\ snap' \in [Workers -> Status]
                                    /\ at' \in [Workers -> Nat]
                                    /\ tries' \in [Workers -> Nat]
                                    /\ IndexInv'
         /\ Return(w) => Forget({w}, "done")
<1>1. ASSUME NEW ws \in SUBSET Workers, NEW step \in {"idle", "done"}, Forget(ws, step)
      PROVE  /\ pc' \in [Workers -> Steps]
             /\ snap' \in [Workers -> Status]
             /\ at' \in [Workers -> Nat]
             /\ tries' \in [Workers -> Nat]
             /\ IndexInv'
  BY <1>1, EmptyStatusType DEF Forget, TypeInv, TypeOK, IndexInv, Steps
<1>2. Return(w) => Forget({w}, "done")
  BY DEF Return
<1> QED
  BY <1>1, <1>2

-----------------------------------------------------------------------------
(* The lock, from the proofs about RedisLocker.                            *)

LockProofs == INSTANCE RedisLockerProofs WITH Procs <- Workers, Keys <- {Key}

\* A step of the locker keeps the locker's own inductive invariant.
LEMMA LockStepInv ==
  LockProofs!LockInv /\ [LockProofs!LockNext]_lockVars => LockProofs!LockInv'
<1>1. None \notin Workers /\ None \notin {Key}
  BY ConstantsAssumption
<1> QED
  BY <1>1, LockProofs!LockNextInv DEF LockProofs!lockVars, lockVars

\* Every action keeps the types, given that the locker keeps its own.
LEMMA NextTypeInv == TypeInv /\ Lock!LockTypeOK' /\ [Next]_vars => TypeInv'
<1> SUFFICES ASSUME TypeInv, Lock!LockTypeOK', [Next]_vars PROVE TypeInv'
  OBVIOUS
<1> USE DEF TypeInv, TypeOK
<1> DEFINE Objs == Seq([doc : 1 .. Len(Docs), tid : Nat, phase : Phases])
<1>1. CASE UNCHANGED vars
  BY <1>1 DEF vars, apiVars, localVars, IndexInv
<1>2. ASSUME NEW w \in Workers, Obtain(w) PROVE TypeInv'
  BY <1>2 DEF Obtain, Goto, apiVars, Steps, IndexInv
<1>3. ASSUME NEW w \in Workers, ObtainReplyLost(w) PROVE TypeInv'
  <2>1. spent' \in [Faults -> Nat]
    BY <1>3, SpendType DEF ObtainReplyLost, Faults
  <2> QED
    BY <1>3, <2>1 DEF ObtainReplyLost, apiVars, localVars, IndexInv
<1>4. ASSUME NEW w \in Workers, Fetch(w) PROVE TypeInv'
  <2>1. UNCHANGED <<apiVars, pending, spent>>
    BY <1>4 DEF Fetch
  <2>2. CASE Return(w)
    BY <2>1, <2>2, LocalTypes DEF apiVars
  <2>3. ASSUME NEW s \in Status, NEW step \in Steps, Enter(w, s, step),
               step = "list" => s.refs # <<>>
        PROVE  TypeInv'
    <3>1. 1 \in 1 .. Len(Docs)
      BY ConstantsAssumption, EmptySeq
    <3>2. step = "list" => 1 \in 1 .. Len(s.refs)
      BY <2>3, EmptySeq DEF Status
    <3> QED
      BY <2>1, <2>3, <3>1, <3>2 DEF Enter, Goto, apiVars, IndexInv
  <2>4. CASE FetchReconciler(w)
    BY <2>2, <2>3, <2>4 DEF FetchReconciler, Steps
  <2>5. CASE FetchObserver(w)
    <3>1. [status EXCEPT !.report = <<>>, !.healthy = TRUE] \in Status
      BY EmptySeq DEF Status
    <3>2. [status EXCEPT !.report = <<>>, !.healthy = TRUE].refs = status.refs
      BY DEF Status
    <3> QED
      BY <2>3, <2>5, <3>1, <3>2 DEF FetchObserver, Steps
  <2> QED
    BY <1>4, <2>4, <2>5 DEF Fetch
<1>5. ASSUME NEW w \in Workers, FetchFail(w) PROVE TypeInv'
  <2>1. spent' \in [Faults -> Nat]
    BY <1>5, SpendType DEF FetchFail, Faults
  <2> QED
    BY <1>5, <2>1, LocalTypes DEF FetchFail, Requeue, apiVars
<1>6. ASSUME NEW w \in Workers, ApplyDoc(w) PROVE TypeInv'
  <2>1. at[w] \in 1 .. Len(Docs) /\ Len(Docs) \in Nat
    BY <1>6, ConstantsAssumption, LenProperties DEF ApplyDoc, IndexInv
  <2>2. issued' \in Nat /\ objs' \in Objs
    BY <1>6, <2>1, ObjectTypes DEF ApplyDoc
  <2>3. AfterApply(WithReference(snap[w], at[w]), at[w]) \in Status
    BY <2>1, StatusChanges
  <2>4. snap' \in [Workers -> Status]
    BY <1>6, <2>3 DEF ApplyDoc
  <2>5. pc' \in [Workers -> Steps] /\ at' \in [Workers -> Nat] /\ IndexInv'
    BY <1>6, <2>1 DEF ApplyDoc, Goto, Steps, IndexInv
  <2> QED
    BY <1>6, <2>2, <2>4, <2>5 DEF ApplyDoc
<1>7. ASSUME NEW w \in Workers, ApplyFail(w) \/ ApplyReplyLost(w) PROVE TypeInv'
  <2>1. spent' \in [Faults -> Nat]
    BY <1>7, SpendType DEF ApplyFail, ApplyReplyLost, Faults
  <2>2. at[w] \in 1 .. Len(Docs)
    BY <1>7 DEF ApplyFail, ApplyReplyLost, IndexInv
  <2>3. issued' \in Nat /\ objs' \in Objs
    BY <1>7, <2>2, ObjectTypes DEF ApplyFail, ApplyReplyLost, apiVars
  <2>4. Failed(snap[w]) \in Status
    BY <2>2, StatusChanges
  <2>5. status' \in Status /\ fresh' \in SUBSET Workers
    BY <1>7 DEF ApplyFail, ApplyReplyLost, apiVars
  <2> QED
    BY <1>7, <2>1, <2>3, <2>4, <2>5
      DEF ApplyFail, ApplyReplyLost, Goto, Requeue, Steps, IndexInv
<1>8. ASSUME NEW w \in Workers, NEW s \in Status, EndOfReport(w, s),
             UNCHANGED apiVars, spent' \in [Faults -> Nat]
      PROVE  TypeInv'
  <2>1. CASE Requeue(w) /\ Return(w)
    BY <1>8, <2>1, LocalTypes DEF Requeue, apiVars
  <2>2. CASE /\ snap' = [snap EXCEPT ![w] = s]
             /\ Goto(w, "get")
             /\ UNCHANGED <<at, tries, pending>>
    BY <1>8, <2>2 DEF Goto, apiVars, Steps, IndexInv
  <2> QED
    BY <1>8, <2>1, <2>2 DEF EndOfReport
<1>9. ASSUME NEW w \in Workers, ListJobs(w) PROVE TypeInv'
  <2> DEFINE ref == snap[w].refs[at[w]]
  <2>1. pc[w] = "list" /\ at[w] \in 1 .. Len(snap[w].refs) /\ snap[w] \in Status
    BY <1>9 DEF ListJobs, IndexInv
  <2>2. ref \in Refs
    BY <2>1, ElementOfSeq DEF Status
  <2>3. ref.tid \in Nat /\ ref.doc \in 1 .. Len(Docs)
    BY <2>2 DEF Refs
  <2>4. UNCHANGED apiVars /\ spent' \in [Faults -> Nat]
    BY <1>9 DEF ListJobs
  <2>5. [snap[w] EXCEPT !.healthy = FALSE] \in Status
    BY <2>1, <2>3, StatusChanges
  <2>6. \A verdict \in Verdicts : /\ WithVerdict(snap[w], ref.tid, verdict) \in Status
                                  /\ WithVerdict(snap[w], ref.tid, verdict).refs = snap[w].refs
    <3>1. \A verdict \in Verdicts : WithVerdict(snap[w], ref.tid, verdict) \in Status
      BY <2>1, <2>3, StatusChanges
    <3>2. \A verdict \in Verdicts : WithVerdict(snap[w], ref.tid, verdict).refs = snap[w].refs
      BY <2>1 DEF WithVerdict, Status
    <3> QED
      BY <3>1, <3>2
  <2>7. ASSUME NEW s \in Status, s.refs = snap[w].refs, NextReference(w, s)
        PROVE  TypeInv'
    <3>1. CASE EndOfReport(w, s)
      BY <1>8, <2>4, <3>1
    <3>2. CASE /\ at[w] < Len(s.refs)
               /\ snap' = [snap EXCEPT ![w] = s]
               /\ at' = [at EXCEPT ![w] = @ + 1]
               /\ UNCHANGED <<pc, tries, pending>>
      <4>1. at[w] + 1 \in 1 .. Len(s.refs)
        BY <2>1, <2>7, <3>2, LenProperties DEF Status
      <4> QED
        BY <2>1, <2>4, <2>7, <3>2, <4>1 DEF apiVars, IndexInv
    <3> QED
      BY <2>7, <3>1, <3>2 DEF NextReference
  <2> HIDE DEF ref
  <2>8. \/ NextReference(w, snap[w])
        \/ EndOfReport(w, [snap[w] EXCEPT !.healthy = FALSE])
        \/ \E verdict \in Verdicts : NextReference(w, WithVerdict(snap[w], ref.tid, verdict))
    BY <1>9 DEF ListJobs, ref
  <2> QED
    BY <1>8, <2>1, <2>4, <2>5, <2>6, <2>7, <2>8
<1>10. ASSUME NEW w \in Workers, ListFail(w) PROVE TypeInv'
  <2>1. spent' \in [Faults -> Nat]
    BY <1>10, SpendType DEF ListFail, Faults
  <2>2. [snap[w] EXCEPT !.healthy = FALSE] \in Status
    BY DEF Status
  <2> QED
    BY <1>8, <1>10, <2>1, <2>2 DEF ListFail
<1>11. ASSUME NEW w \in Workers, Get(w) PROVE TypeInv'
  BY <1>11 DEF Get, Goto, Steps, IndexInv
<1>12. ASSUME NEW w \in Workers, UpdateFail(w) PROVE TypeInv'
  <2>1. spent' \in [Faults -> Nat]
    BY <1>12, SpendType DEF UpdateFail, Faults
  <2> QED
    BY <1>12, <2>1, LocalTypes DEF UpdateFail, apiVars
<1>13. ASSUME NEW w \in Workers, Put(w) PROVE TypeInv'
  BY <1>13, LocalTypes DEF Put, UpdateStatus, Modified
<1>14. ASSUME NEW w \in Workers, PutConflict(w) PROVE TypeInv'
  <2>1. UNCHANGED <<apiVars, pending, spent>>
    BY <1>14 DEF PutConflict
  <2>2. CASE Return(w)
    BY <2>1, <2>2, LocalTypes DEF apiVars
  <2>3. CASE /\ tries' = [tries EXCEPT ![w] = @ + 1]
             /\ Goto(w, "get")
             /\ UNCHANGED <<snap, at>>
    BY <2>1, <2>3 DEF Goto, apiVars, Steps, IndexInv
  <2> QED
    BY <1>14, <2>2, <2>3 DEF PutConflict
<1>15. ASSUME NEW w \in Workers, Finish(w) PROVE TypeInv'
  BY <1>15 DEF Finish, Goto, apiVars, Steps, IndexInv
<1>16. ASSUME NEW w \in Workers, FinishReleaseLost(w) PROVE TypeInv'
  <2>1. spent' \in [Faults -> Nat]
    BY <1>16, SpendType DEF FinishReleaseLost, Faults
  <2> QED
    BY <1>16, <2>1 DEF FinishReleaseLost, Goto, apiVars, Steps, IndexInv
<1>17. ASSUME NEW ws \in Replicas, Crash(ws) PROVE TypeInv'
  <2>1. spent' \in [Faults -> Nat]
    BY <1>17, SpendType DEF Crash, Faults
  <2>2. ws \in SUBSET Workers
    BY ConstantsAssumption
  <2>3. /\ pc' \in [Workers -> Steps] /\ snap' \in [Workers -> Status]
        /\ at' \in [Workers -> Nat] /\ tries' \in [Workers -> Nat] /\ IndexInv'
    BY <1>17, <2>2, EmptyStatusType DEF Crash, Forget, Steps, IndexInv
  <2> QED
    BY <1>17, <2>1, <2>2, <2>3 DEF Crash, apiVars
<1>18. CASE ExpireAbandoned \/ ExpireHeld \/ Resync
  <2>1. spent' \in [Faults -> Nat]
    BY <1>18, SpendType DEF ExpireAbandoned, ExpireHeld, Resync, Faults
  <2> QED
    BY <1>18, <2>1 DEF ExpireAbandoned, ExpireHeld, Resync, apiVars, localVars, IndexInv
<1>19. ASSUME NEW i \in DOMAIN objs, JobStep(i) PROVE TypeInv'
  <2>1. PICK phase \in NextPhases(objs[i].phase) : objs' = [objs EXCEPT ![i].phase = phase]
    BY <1>19 DEF JobStep
  <2>2. phase \in Phases
    BY <2>1 DEF NextPhases, Phases
  <2>3. i \in 1 .. Len(objs)
    BY LenProperties
  <2>4. objs[i] \in [doc : 1 .. Len(Docs), tid : Nat, phase : Phases]
    BY <2>3, ElementOfSeq
  <2>5. [objs[i] EXCEPT !.phase = phase] \in [doc : 1 .. Len(Docs), tid : Nat, phase : Phases]
    BY <2>2, <2>4
  <2>6. objs' \in Objs
    BY <2>1, <2>3, <2>5, ExceptSeq
  <2> QED
    BY <1>19, <2>6 DEF JobStep, localVars, IndexInv
<1>20. CASE Touch
  <2>1. spent' \in [Faults -> Nat]
    BY <1>20, SpendType DEF Touch, Faults
  <2> QED
    BY <1>20, <2>1 DEF Touch, Modified, localVars, IndexInv
<1> QED
  BY <1>1, <1>2, <1>3, <1>4, <1>5, <1>6, <1>7, <1>9, <1>10, <1>11, <1>12, <1>13,
     <1>14, <1>15, <1>16, <1>17, <1>18, <1>19, <1>20 DEF Next, Work, Disturbed

-----------------------------------------------------------------------------
(* The lock as the workers use it.                                         *)

\* A worker is in a session exactly while it is inside its Reconcile, and a
\* session that outlived its lease has been counted as a fault.
SessionInv ==
    /\ \A w \in Workers : session[w] = Key <=> pc[w] # "idle"
    /\ overrun # {} => spent["overrun"] > 0

\* Every step of the composition is a step of the locker, or none of its
\* business.
LEMMA StepsOfLocker == [Next]_vars => [LockProofs!LockNext]_lockVars
<1> SUFFICES ASSUME [Next]_vars PROVE [LockProofs!LockNext]_lockVars
  OBVIOUS
<1> USE DEF lockVars
<1>1. CASE UNCHANGED vars
  BY <1>1 DEF vars
<1>2. ASSUME NEW w \in Workers, Obtain(w) \/ ObtainReplyLost(w) PROVE LockProofs!LockNext
  BY <1>2 DEF Obtain, ObtainReplyLost, LockProofs!LockNext,
              Lock!Obtain, Lock!ObtainReplyLost, LockProofs!Obtain, LockProofs!ObtainReplyLost
<1>3. ASSUME NEW w \in Workers, Finish(w) \/ FinishReleaseLost(w) PROVE LockProofs!LockNext
  BY <1>3 DEF Finish, FinishReleaseLost, LockProofs!LockNext, Lock!Done, Lock!DoneLost,
              LockProofs!Done, LockProofs!DoneLost, Lock!Released, LockProofs!Released
<1>4. ASSUME NEW ws \in Replicas, Crash(ws) PROVE LockProofs!LockNext
  BY <1>4, ConstantsAssumption DEF Crash, LockProofs!LockNext, Lock!Crash, LockProofs!Crash
<1>5. CASE ExpireAbandoned \/ ExpireHeld
  BY <1>5 DEF ExpireAbandoned, ExpireHeld, LockProofs!LockNext, Lock!Abandoned,
              Lock!ExpireAbandoned, Lock!ExpireHeld, LockProofs!Abandoned,
              LockProofs!ExpireAbandoned, LockProofs!ExpireHeld
<1>6. ASSUME NEW w \in Workers,
             \/ Fetch(w) \/ ApplyDoc(w) \/ ListJobs(w) \/ Get(w) \/ Put(w) \/ PutConflict(w)
             \/ FetchFail(w) \/ ApplyFail(w) \/ ApplyReplyLost(w) \/ ListFail(w) \/ UpdateFail(w)
      PROVE  UNCHANGED lockVars
  BY <1>6 DEF Fetch, ApplyDoc, ListJobs, Get, Put, UpdateStatus, PutConflict, FetchFail, ApplyFail,
              ApplyReplyLost, ListFail, UpdateFail
<1>7. ASSUME NEW i \in DOMAIN objs, JobStep(i) PROVE UNCHANGED lockVars
  BY <1>7 DEF JobStep
<1>8. CASE Touch \/ Resync
  BY <1>8 DEF Touch, Resync
<1> QED
  BY <1>1, <1>2, <1>3, <1>4, <1>5, <1>6, <1>7, <1>8 DEF Next, Work, Disturbed

\* At the start nobody is in a session and nobody is inside a Reconcile.
LEMMA InitLockInv == Init => LockProofs!LockInv /\ SessionInv
<1>1. None \notin Workers /\ None \notin {Key}
  BY ConstantsAssumption
<1>2. Init => LockProofs!LockInv
  BY <1>1, LockProofs!LockInitInv DEF Init, Lock!LockInit, LockProofs!LockInit
<1>3. Init => SessionInv
  BY <1>1 DEF Init, Lock!LockInit, SessionInv
<1> QED
  BY <1>2, <1>3

\* The invariant that ties the types to the lock.
BaseInv == TypeInv /\ LockProofs!LockInv /\ SessionInv

\* Faults are only ever added.
LEMMA SpendCounts ==
  ASSUME NEW f \in Faults, spent \in [Faults -> Nat], Spend(f)
  PROVE  /\ \A g \in Faults : spent'[g] \in Nat /\ spent'[g] >= spent[g]
         /\ spent'[f] > 0
BY DEF Spend

\* Every action keeps sessions and Reconcile functions in step: a worker that
\* is inside its Reconcile is in a session of the locker.
LEMMA NextSessionInv == TypeInv /\ SessionInv /\ [Next]_vars => SessionInv'
<1> SUFFICES ASSUME TypeInv, SessionInv, [Next]_vars PROVE SessionInv'
  OBVIOUS
<1> USE DEF TypeInv, TypeOK, SessionInv, lockVars
<1>0. "overrun" \in Faults /\ None # Key /\ spent["overrun"] \in Nat
      /\ Lock!LockTypeOK
  BY ConstantsAssumption DEF Faults
<1>1. CASE UNCHANGED vars
  BY <1>1 DEF vars, localVars
<1>2. ASSUME NEW w \in Workers, Obtain(w) PROVE SessionInv'
  BY <1>0, <1>2 DEF Obtain, Goto, Lock!Obtain, Lock!LockTypeOK
<1>3. ASSUME NEW w \in Workers, ObtainReplyLost(w) PROVE SessionInv'
  <2>1. spent'["overrun"] >= spent["overrun"] /\ spent'["overrun"] \in Nat
    BY <1>0, <1>3, SpendCounts DEF ObtainReplyLost, Faults
  <2> QED
    BY <1>0, <1>3, <2>1 DEF ObtainReplyLost, Lock!ObtainReplyLost, localVars
<1>4. ASSUME NEW w \in Workers, Finish(w) PROVE SessionInv'
  BY <1>0, <1>4 DEF Finish, Goto, Lock!Done, Lock!LockTypeOK
<1>5. ASSUME NEW w \in Workers, FinishReleaseLost(w) PROVE SessionInv'
  <2>1. spent'["overrun"] >= spent["overrun"] /\ spent'["overrun"] \in Nat
    BY <1>0, <1>5, SpendCounts DEF FinishReleaseLost, Faults
  <2> QED
    BY <1>0, <1>5, <2>1 DEF FinishReleaseLost, Goto, Lock!DoneLost, Lock!LockTypeOK
<1>6. ASSUME NEW ws \in Replicas, Crash(ws) PROVE SessionInv'
  <2>1. spent'["overrun"] >= spent["overrun"] /\ spent'["overrun"] \in Nat
    BY <1>0, <1>6, SpendCounts DEF Crash, Faults
  <2> QED
    BY <1>0, <1>6, <2>1 DEF Crash, Forget, Lock!Crash, Lock!LockTypeOK
<1>7. CASE ExpireAbandoned
  BY <1>7 DEF ExpireAbandoned, Lock!ExpireAbandoned, localVars
<1>8. CASE ExpireHeld
  <2>1. spent'["overrun"] > 0
    BY <1>0, <1>8, SpendCounts DEF ExpireHeld
  <2> QED
    BY <1>8, <2>1 DEF ExpireHeld, Lock!ExpireHeld, localVars
\* The other steps of a worker leave the lock alone and keep it inside.
<1>9. ASSUME NEW w \in Workers, NEW step \in Steps \ {"idle"}, pc[w] # "idle",
             pc' = [pc EXCEPT ![w] = step], UNCHANGED lockVars,
             spent'["overrun"] >= spent["overrun"], spent'["overrun"] \in Nat
      PROVE  SessionInv'
  BY <1>0, <1>9
<1>10. ASSUME NEW w \in Workers, Return(w) PROVE pc' = [pc EXCEPT ![w] = "done"]
  BY <1>10 DEF Return, Forget
<1>11. ASSUME NEW w \in Workers,
              \/ Fetch(w) \/ ApplyDoc(w) \/ ListJobs(w) \/ Get(w) \/ Put(w) \/ PutConflict(w)
       PROVE  SessionInv'
  <2>1. UNCHANGED lockVars /\ spent' = spent /\ pc[w] # "idle"
    BY <1>11 DEF Fetch, ApplyDoc, ListJobs, Get, Put, UpdateStatus, PutConflict
  <2>2. \E step \in Steps \ {"idle"} : pc' = [pc EXCEPT ![w] = step]
    <3>1. CASE Fetch(w)
      BY <3>1, <1>10 DEF Fetch, FetchReconciler, FetchObserver, Enter, Goto, Steps
    <3>2. CASE ApplyDoc(w) \/ Get(w)
      BY <3>2 DEF ApplyDoc, Get, Goto, Steps
    <3>3. CASE ListJobs(w)
      <4>1. \A s : EndOfReport(w, s) => \E step \in {"done", "get"} : pc' = [pc EXCEPT ![w] = step]
        BY <1>10 DEF EndOfReport, Goto
      <4>2. pc' = pc => pc' = [pc EXCEPT ![w] = "list"]
        BY <3>3 DEF ListJobs
      <4>3. \E s : NextReference(w, s) \/ EndOfReport(w, s)
        BY <3>3 DEF ListJobs
      <4> QED
        BY <4>1, <4>2, <4>3 DEF NextReference, Steps
    <3>4. CASE Put(w) \/ PutConflict(w)
      BY <3>4, <1>10 DEF Put, UpdateStatus, PutConflict, Goto, Steps
    <3> QED
      BY <1>11, <3>1, <3>2, <3>3, <3>4
  <2> QED
    BY <1>0, <1>9, <2>1, <2>2
<1>12. ASSUME NEW w \in Workers,
              \/ FetchFail(w) \/ ApplyFail(w) \/ ApplyReplyLost(w) \/ ListFail(w) \/ UpdateFail(w)
       PROVE  SessionInv'
  <2>1. UNCHANGED lockVars /\ pc[w] # "idle" /\ \E f \in Faults : Spend(f)
    BY <1>12 DEF FetchFail, ApplyFail, ApplyReplyLost, ListFail, UpdateFail, Faults
  <2>2. spent'["overrun"] >= spent["overrun"] /\ spent'["overrun"] \in Nat
    BY <1>0, <2>1, SpendCounts
  <2>3. \E step \in Steps \ {"idle"} : pc' = [pc EXCEPT ![w] = step]
    BY <1>12, <1>10 DEF FetchFail, ApplyFail, ApplyReplyLost, ListFail, UpdateFail,
                        EndOfReport, Goto, Steps
  <2> QED
    BY <1>9, <2>1, <2>2, <2>3
<1>13. ASSUME NEW i \in DOMAIN objs, JobStep(i) PROVE SessionInv'
  BY <1>13 DEF JobStep, localVars
<1>14. CASE Touch
  <2>1. spent'["overrun"] >= spent["overrun"] /\ spent'["overrun"] \in Nat
    BY <1>0, <1>14, SpendCounts DEF Touch, Faults
  <2> QED
    BY <1>0, <1>14, <2>1 DEF Touch, localVars
<1>15. CASE Resync
  BY <1>15 DEF Resync, localVars
<1> QED
  BY <1>1, <1>2, <1>3, <1>4, <1>5, <1>6, <1>7, <1>8, <1>11, <1>12, <1>13, <1>14, <1>15
    DEF Next, Work, Disturbed

\* The types, the locker's invariant and the sessions are inductive together.
LEMMA NextBaseInv == BaseInv /\ [Next]_vars => BaseInv'
<1> SUFFICES ASSUME BaseInv, [Next]_vars PROVE BaseInv'
  OBVIOUS
<1>1. LockProofs!LockInv'
  BY StepsOfLocker, LockStepInv DEF BaseInv
<1>2. Lock!LockTypeOK'
  BY <1>1 DEF LockProofs!LockInv, LockProofs!LockTypeOK, Lock!LockTypeOK
<1>3. TypeInv'
  BY <1>2, NextTypeInv DEF BaseInv
<1>4. SessionInv'
  BY NextSessionInv DEF BaseInv
<1> QED
  BY <1>1, <1>3, <1>4 DEF BaseInv

\* They hold at the start.
LEMMA InitBaseInv == Init => BaseInv
BY InitTypeInv, InitLockInv DEF BaseInv

\* The composition of the two controllers, the locker and the API server keeps
\* the types of its state.
THEOREM TypeCorrect == Spec => []TypeOK
<1>1. BaseInv => TypeOK
  BY DEF BaseInv, TypeInv
<1> QED
  BY <1>1, InitBaseInv, NextBaseInv, PTL DEF Spec

-----------------------------------------------------------------------------
(* No controller undoes another's status.                                  *)

\* t keeps what the status s promises.
Covers(s, t) == (s.processed => t.processed) /\ IsPrefix(s.refs, t.refs)

Inside == {"apply", "list", "get", "put"}    \* the steps that have an aggregate

\* As long as no lease was overrun, the status a worker is going to write
\* covers the one in the API server.
SnapInv == spent["overrun"] = 0 =>
               \A w \in Workers : pc[w] \in Inside => Covers(status, snap[w])

\* Without an overrun two workers are never inside their Reconcile together.
LEMMA OneInside ==
  ASSUME BaseInv, spent["overrun"] = 0, NEW v \in Workers, NEW w \in Workers,
         pc[v] # "idle", pc[w] # "idle"
  PROVE  v = w
<1>1. overrun = {} /\ session[v] = Key /\ session[w] = Key
  BY DEF BaseInv, SessionInv
<1> QED
  BY <1>1 DEF BaseInv, LockProofs!LockInv, LockProofs!LeaseInv

\* A status covers itself.
LEMMA CoversSelf == ASSUME NEW s \in Status PROVE Covers(s, s)
BY PrefixReflexive DEF Covers, Status

\* The changes a worker makes to its aggregate keep the cover.
LEMMA CoversChanges ==
  ASSUME NEW s \in Status, NEW t \in Status, Covers(s, t), issued \in Nat
  PROVE  /\ \A d \in 1 .. Len(Docs) : Covers(s, AfterApply(WithReference(t, d), d))
         /\ Covers(s, Failed(t))
         /\ Covers(s, [t EXCEPT !.report = <<>>, !.healthy = TRUE])
         /\ Covers(s, [t EXCEPT !.healthy = FALSE])
         /\ \A tid, verdict : Covers(s, WithVerdict(t, tid, verdict))
<1>1. ASSUME NEW d \in 1 .. Len(Docs)
      PROVE  Covers(s, AfterApply(WithReference(t, d), d))
  <2>1. [doc |-> d, tid |-> issued + 1] \in Refs
    BY DEF Refs
  <2>2. s.refs \in Seq(Refs) /\ t.refs \in Seq(Refs) /\ IsPrefix(s.refs, t.refs)
    BY DEF Covers, Status
  <2>3. IsPrefix(s.refs, Append(t.refs, [doc |-> d, tid |-> issued + 1]))
    BY <2>1, <2>2, PrefixAppend
  <2>4. /\ WithReference(t, d).refs = Append(t.refs, [doc |-> d, tid |-> issued + 1])
        /\ WithReference(t, d).processed = t.processed
        /\ WithReference(t, d) \in Status
    BY StatusChanges DEF WithReference, Status
  <2>5. /\ AfterApply(WithReference(t, d), d).refs = WithReference(t, d).refs
        /\ WithReference(t, d).processed => AfterApply(WithReference(t, d), d).processed
    BY <2>4 DEF AfterApply, Status
  <2> QED
    BY <2>3, <2>4, <2>5 DEF Covers
<1>2. Covers(s, Failed(t))
  BY DEF Covers, Failed, Status
<1>3. Covers(s, [t EXCEPT !.report = <<>>, !.healthy = TRUE])
  BY DEF Covers, Status
<1>4. Covers(s, [t EXCEPT !.healthy = FALSE])
  BY DEF Covers, Status
<1>5. ASSUME NEW tid, NEW verdict PROVE Covers(s, WithVerdict(t, tid, verdict))
  BY DEF Covers, WithVerdict, Status
<1> QED
  BY <1>1, <1>2, <1>3, <1>4, <1>5

\* Only a status update that goes through changes the status.
LEMMA OnlyPutWrites ==
  ASSUME [Next]_vars, status' # status
  PROVE  \E w \in Workers : Put(w)
BY DEF Next, Work, Disturbed, vars, apiVars, Obtain, ObtainReplyLost, Fetch, FetchFail,
       ApplyDoc, ApplyFail, ApplyReplyLost, ListJobs, ListFail, Get, UpdateFail, PutConflict,
       Finish, FinishReleaseLost, Crash, JobStep, ExpireAbandoned, ExpireHeld, Touch, Resync

\* No action takes back an overrun.
LEMMA FaultsAdd == TypeInv /\ [Next]_vars => spent["overrun"] \in Nat
                                          /\ spent'["overrun"] >= spent["overrun"]
<1> SUFFICES ASSUME TypeInv, [Next]_vars
             PROVE  spent["overrun"] \in Nat /\ spent'["overrun"] >= spent["overrun"]
  OBVIOUS
<1>1. spent \in [Faults -> Nat] /\ "overrun" \in Faults
  BY DEF TypeInv, TypeOK, Faults
<1>2. spent' = spent \/ \E f \in Faults : Spend(f)
  BY DEF Next, Work, Disturbed, vars, Obtain, ObtainReplyLost, Fetch, FetchFail, Faults,
         ApplyDoc, ApplyFail, ApplyReplyLost, ListJobs, ListFail, Get, UpdateFail, Put, UpdateStatus,
         PutConflict, Finish, FinishReleaseLost, Crash, JobStep, ExpireAbandoned, ExpireHeld,
         Touch, Resync
<1> QED
  BY <1>1, <1>2, SpendCounts

\* At the start no worker has a copy of the status.
LEMMA InitSnapInv == Init => SnapInv
BY DEF Init, SnapInv, Inside

\* Every action keeps this: the copy a worker will write covers the status, for
\* nobody else writes while it is inside its Reconcile.
LEMMA NextSnapInv == BaseInv /\ SnapInv /\ [Next]_vars => SnapInv'
<1> SUFFICES ASSUME BaseInv, SnapInv, [Next]_vars, spent'["overrun"] = 0,
                    NEW v \in Workers, pc'[v] \in Inside
             PROVE  Covers(status', snap'[v])
  BY DEF SnapInv
<1>1. spent["overrun"] = 0
  BY FaultsAdd DEF BaseInv
<1>2. /\ TypeInv /\ status \in Status /\ snap \in [Workers -> Status]
      /\ pc \in [Workers -> Steps] /\ issued \in Nat
  BY DEF BaseInv, TypeInv, TypeOK
<1>3. pc[v] \in Inside => Covers(status, snap[v])
  BY <1>1 DEF SnapInv
\* A worker whose locals are as before, in a state with the same status.
<1>4. ASSUME status' = status, pc'[v] = pc[v], snap'[v] = snap[v]
      PROVE  Covers(status', snap'[v])
  BY <1>3, <1>4
<1>5. CASE UNCHANGED vars
  BY <1>4, <1>5 DEF vars, apiVars, localVars
<1>6. ASSUME NEW w \in Workers, Obtain(w) PROVE Covers(status', snap'[v])
  BY <1>2, <1>4, <1>6 DEF Obtain, Goto, apiVars, Inside
<1>7. ASSUME NEW w \in Workers, Return(w), status' = status PROVE Covers(status', snap'[v])
  BY <1>2, <1>4, <1>7 DEF Return, Forget, Inside
<1>8. ASSUME NEW w \in Workers, Fetch(w) PROVE Covers(status', snap'[v])
  <2>1. status' = status
    BY <1>8 DEF Fetch, apiVars
  <2>2. CASE Return(w)
    BY <1>7, <2>1, <2>2
  <2>3. ASSUME NEW s \in Status, NEW step, Enter(w, s, step), Covers(status, s)
        PROVE  Covers(status', snap'[v])
    BY <1>2, <1>4, <2>1, <2>3 DEF Enter, Goto
  <2>4. /\ Covers(status, status)
        /\ Covers(status, [status EXCEPT !.report = <<>>, !.healthy = TRUE])
        /\ [status EXCEPT !.report = <<>>, !.healthy = TRUE] \in Status
    <3>1. [status EXCEPT !.report = <<>>, !.healthy = TRUE] \in Status
      BY <1>2, EmptySeq DEF Status
    <3> QED
      BY <1>2, <3>1, CoversSelf, CoversChanges
  <2> QED
    BY <1>2, <1>8, <2>2, <2>3, <2>4 DEF Fetch, FetchReconciler, FetchObserver
<1>9. ASSUME NEW w \in Workers, ApplyDoc(w) PROVE Covers(status', snap'[v])
  <2>1. at[w] \in 1 .. Len(Docs)
    BY <1>2, <1>9 DEF ApplyDoc, TypeInv, IndexInv
  <2>2. Covers(status, snap[w])
    BY <1>1, <1>9 DEF ApplyDoc, SnapInv, Inside
  <2>3. Covers(status, AfterApply(WithReference(snap[w], at[w]), at[w]))
    BY <1>2, <2>1, <2>2, CoversChanges
  <2> QED
    BY <1>2, <1>4, <1>9, <2>3 DEF ApplyDoc, Goto
<1>10. ASSUME NEW w \in Workers, ApplyFail(w) \/ ApplyReplyLost(w)
       PROVE  Covers(status', snap'[v])
  <2>1. Covers(status, snap[w])
    BY <1>1, <1>10 DEF ApplyFail, ApplyReplyLost, SnapInv, Inside
  <2>2. Covers(status, Failed(snap[w]))
    BY <1>2, <2>1, CoversChanges
  <2> QED
    BY <1>2, <1>4, <1>10, <2>2 DEF ApplyFail, ApplyReplyLost, Goto, apiVars
<1>11. ASSUME NEW w \in Workers, NEW s, EndOfReport(w, s), Covers(status, s), status' = status
       PROVE  Covers(status', snap'[v])
  BY <1>2, <1>4, <1>7, <1>11 DEF EndOfReport, Goto
<1>12. ASSUME NEW w \in Workers, ListJobs(w) \/ ListFail(w) PROVE Covers(status', snap'[v])
  <2>1. status' = status /\ Covers(status, snap[w])
    BY <1>1, <1>12 DEF ListJobs, ListFail, apiVars, SnapInv, Inside
  <2>2. Covers(status, [snap[w] EXCEPT !.healthy = FALSE])
    BY <1>2, <2>1, CoversChanges
  <2>3. \A tid, verdict : Covers(status, WithVerdict(snap[w], tid, verdict))
    BY <1>2, <2>1, CoversChanges
  <2>4. \E s : Covers(status, s) /\ (NextReference(w, s) \/ EndOfReport(w, s))
    BY <1>12, <2>1, <2>2, <2>3 DEF ListJobs, ListFail
  <2> QED
    BY <1>2, <1>4, <1>11, <2>1, <2>4 DEF NextReference
<1>13. ASSUME NEW w \in Workers, Get(w) PROVE Covers(status', snap'[v])
  BY <1>1, <1>2, <1>4, <1>13 DEF Get, Goto, SnapInv, Inside
<1>14. ASSUME NEW w \in Workers, Put(w) PROVE Covers(status', snap'[v])
  <2>1. pc'[w] = "done" /\ \A u \in Workers \ {w} : pc'[u] = pc[u]
    BY <1>14 DEF Put, UpdateStatus, Return, Forget
  <2>2. v # w /\ pc[v] # "idle" /\ pc[w] # "idle"
    BY <1>14, <2>1 DEF Put, UpdateStatus, Inside
  <2> QED
    BY <1>1, <2>2, OneInside
<1>15. ASSUME NEW w \in Workers, PutConflict(w) PROVE Covers(status', snap'[v])
  <2>1. status' = status
    BY <1>15 DEF PutConflict, apiVars
  <2>2. CASE Return(w)
    BY <1>7, <2>1, <2>2
  <2>3. CASE Goto(w, "get") /\ UNCHANGED <<snap, at>>
    BY <1>1, <1>2, <1>4, <1>15, <2>1, <2>3 DEF PutConflict, Goto, SnapInv, Inside
  <2> QED
    BY <1>15, <2>2, <2>3 DEF PutConflict
<1>16. ASSUME NEW w \in Workers, FetchFail(w) \/ UpdateFail(w) PROVE Covers(status', snap'[v])
  BY <1>7, <1>16 DEF FetchFail, UpdateFail, apiVars
<1>17. ASSUME NEW w \in Workers, Finish(w) \/ FinishReleaseLost(w)
       PROVE  Covers(status', snap'[v])
  BY <1>2, <1>4, <1>17 DEF Finish, FinishReleaseLost, Goto, apiVars, Inside
<1>18. ASSUME NEW ws \in Replicas, Crash(ws) PROVE Covers(status', snap'[v])
  BY <1>2, <1>4, <1>18 DEF Crash, Forget, apiVars, Inside
<1>19. ASSUME NEW i \in DOMAIN objs, JobStep(i) PROVE Covers(status', snap'[v])
  BY <1>4, <1>19 DEF JobStep, localVars
<1>20. CASE \/ ExpireAbandoned \/ ExpireHeld \/ Touch \/ Resync
            \/ \E w \in Workers : ObtainReplyLost(w)
  BY <1>4, <1>20 DEF ExpireAbandoned, ExpireHeld, Touch, Resync, ObtainReplyLost,
                     apiVars, localVars
<1> QED
  BY <1>5, <1>6, <1>8, <1>9, <1>10, <1>12, <1>13, <1>14, <1>15, <1>16, <1>17, <1>18, <1>19,
     <1>20 DEF Next, Work, Disturbed

\* While no session outlives its lease, Processed stays set and references are
\* only added, although every controller replaces the whole .status.
THEOREM StatusNeverUndone == Spec => StatusMonotone
<1> DEFINE Step == Undisturbed({"overrun"})' =>
                     /\ status.processed => status'.processed
                     /\ IsPrefix(status.refs, status'.refs)
<1>1. BaseInv /\ SnapInv /\ [Next]_vars => [Step]_vars
  <2> SUFFICES ASSUME BaseInv, SnapInv, [Next]_vars, spent'["overrun"] = 0
               PROVE  Covers(status, status')
    BY DEF Undisturbed, Covers
  <2>1. spent["overrun"] = 0 /\ status \in Status
    BY FaultsAdd DEF BaseInv, TypeInv, TypeOK
  <2>2. CASE status' = status
    BY <2>1, <2>2, CoversSelf
  <2>3. CASE status' # status
    <3>1. PICK w \in Workers : Put(w)
      BY <2>3, OnlyPutWrites
    <3> QED
      BY <2>1, <3>1 DEF Put, UpdateStatus, SnapInv, Inside
  <2> QED
    BY <2>2, <2>3
<1> QED
  BY <1>1, InitBaseInv, NextBaseInv, InitSnapInv, NextSnapInv, PTL DEF Spec, StatusMonotone
=============================================================================
