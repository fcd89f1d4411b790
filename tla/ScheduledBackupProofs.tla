----------------------- MODULE ScheduledBackupProofs ------------------------
(* Proofs about ScheduledBackup, for any number of replicas, documents and *)
(* specs and any bounds on faults.                                         *)
EXTENDS ScheduledBackup, SequenceTheorems, TLAPS

-----------------------------------------------------------------------------
(* Lemmas about the operators of the model.                                *)

\* A worker belongs to the replica that is its home.
LEMMA HomeType == \A w \in Workers : Home(w) \in Replicas /\ w \in Home(w)
BY SBConstantsAssumption DEF Home

\* A new object has the type of an object.
LEMMA NewObjectType == NewObject \in Objects
BY SBConstantsAssumption DEF NewObject, EmptyStatus, Objects, Status, Specs, NoHash

\* What a worker changes of a status or an object keeps the type, and the hash
\* and the spec are changed by nothing but "True".
LEMMA StatusChanges ==
  ASSUME NEW s \in Status
  PROVE  /\ \A c \in {"Unknown", "True", "False"} :
                /\ SetStatusCondition(s, c) \in Status
                /\ SetStatusCondition(s, c).hash = s.hash
         /\ \A k \in Specs : [s EXCEPT !.hash = CalculateHash(k)] \in Status
         /\ [s EXCEPT !.healthy = TRUE] \in Status
         /\ [s EXCEPT !.healthy = TRUE].hash = s.hash
BY DEF SetStatusCondition, Status, CalculateHash

\* Time changes neither spec nor hash.
LEMMA AgedType ==
  ASSUME NEW b \in Objects
  PROVE  /\ Aged(b) \in Objects
         /\ Aged(b).spec = b.spec
         /\ Aged(b).status.hash = b.status.hash
BY DEF Aged, Objects, Status

\* Different specs have different hashes, and none has the empty one.
LEMMA HashInjective ==
  \A j, k \in Specs : CalculateHash(j) # NoHash /\ (CalculateHash(j) = CalculateHash(k) => j = k)
BY DEF CalculateHash, NoHash

\* The lists of status updates that a worker may have ahead of it.
Updates(w) == IF w \in Reconcilers
              THEN {<<"Unknown">>, <<"Unknown", "False">>, <<"False">>, <<"True">>}
              ELSE {<<"report">>}

\* Their heads and tails.
LEMMA UpdatesParts ==
  /\ Head(<<"Unknown">>) = "Unknown" /\ Len(<<"Unknown">>) = 1
  /\ Head(<<"Unknown", "False">>) = "Unknown" /\ Len(<<"Unknown", "False">>) = 2
  /\ Tail(<<"Unknown", "False">>) = <<"False">>
  /\ Head(<<"False">>) = "False" /\ Len(<<"False">>) = 1
  /\ Head(<<"True">>) = "True" /\ Len(<<"True">>) = 1
  /\ Head(<<"report">>) = "report" /\ Len(<<"report">>) = 1
  /\ <<"Unknown">> # <<"False">> /\ <<"Unknown">> # <<"True">> /\ <<"Unknown">> # <<"report">>
  /\ <<"Unknown", "False">> # <<"Unknown">> /\ <<"Unknown", "False">> # <<"True">>
  /\ <<"False">> # <<"True">> /\ <<"report">> # <<"True">>
OBVIOUS

\* A fault is counted, and none is taken back.
LEMMA SpendCounts ==
  ASSUME NEW f \in Faults, spent \in [Faults -> Nat], Spend(f)
  PROVE  /\ spent' \in [Faults -> Nat]
         /\ \A g \in Faults : spent'[g] >= spent[g]
         /\ spent'[f] > 0
BY DEF Spend

-----------------------------------------------------------------------------
(* The lock, from the proofs about RedisLocker.                            *)

LockProofs == INSTANCE RedisLockerProofs WITH Procs <- Workers, Keys <- {Key}

\* Every step of the composition is a step of the locker, or none of its
\* business.
LEMMA StepsOfLocker == [Next]_vars => [LockProofs!LockNext]_lockVars
<1> SUFFICES ASSUME [Next]_vars PROVE [LockProofs!LockNext]_lockVars
  OBVIOUS
<1> USE DEF lockVars
<1>1. CASE UNCHANGED vars
  BY <1>1 DEF vars
<1>2. ASSUME NEW w \in Workers, Obtain(w) \/ ObtainReplyLost(w) PROVE LockProofs!LockNext
  BY <1>2 DEF Obtain, ObtainReplyLost, LockProofs!LockNext,
              Lock!Obtain, Lock!ObtainReplyLost, LockProofs!Obtain, LockProofs!ObtainReplyLost
<1>3. ASSUME NEW w \in Workers, Finish(w) \/ FinishReleaseLost(w) PROVE LockProofs!LockNext
  BY <1>3 DEF Finish, FinishReleaseLost, LockProofs!LockNext, Lock!Done, Lock!DoneLost,
              LockProofs!Done, LockProofs!DoneLost, Lock!Released, LockProofs!Released
<1>4. ASSUME NEW ws \in Replicas, Crash(ws) PROVE LockProofs!LockNext
  BY <1>4, SBConstantsAssumption DEF Crash, LockProofs!LockNext, Lock!Crash, LockProofs!Crash
<1>5. CASE ExpireAbandoned \/ ExpireHeld
  BY <1>5 DEF ExpireAbandoned, ExpireHeld, LockProofs!LockNext, Lock!Abandoned,
              Lock!ExpireAbandoned, Lock!ExpireHeld, LockProofs!Abandoned,
              LockProofs!ExpireAbandoned, LockProofs!ExpireHeld
<1>6. ASSUME NEW w \in Workers,
             \/ Fetch(w) \/ ApplyDoc(w) \/ Get(w) \/ Put(w) \/ PutConflict(w)
             \/ FetchFail(w) \/ HydrateFail(w) \/ ApplyFail(w) \/ UpdateFail(w)
      PROVE  UNCHANGED lockVars
  BY <1>6 DEF Fetch, ApplyDoc, Get, Put, PutConflict, FetchFail, HydrateFail, Hydrated,
              ApplyFail, UpdateFail
<1>7. ASSUME NEW ws \in Replicas, Sync(ws) PROVE UNCHANGED lockVars
  BY <1>7 DEF Sync
<1>8. CASE Resync \/ Minute \/ Edit \/ Revert
  BY <1>8 DEF Resync, Minute, Edit, Revert
<1> QED
  BY <1>1, <1>2, <1>3, <1>4, <1>5, <1>6, <1>7, <1>8 DEF Next, Work, Disturbed

\* The locker's own invariant holds at the start, and every step keeps it.
LEMMA LockInvInductive ==
  /\ Init => LockProofs!LockInv
  /\ LockProofs!LockInv /\ [Next]_vars => LockProofs!LockInv'
<1>1. None \notin Workers /\ None \notin {Key}
  BY SBConstantsAssumption
<1>2. Init => LockProofs!LockInv
  BY <1>1, LockProofs!LockInitInv DEF Init, Lock!LockInit, LockProofs!LockInit
<1>3. LockProofs!LockInv /\ [LockProofs!LockNext]_lockVars => LockProofs!LockInv'
  BY <1>1, LockProofs!LockNextInv DEF LockProofs!lockVars, lockVars
<1> QED
  BY <1>2, <1>3, StepsOfLocker

-----------------------------------------------------------------------------
(* Type correctness.                                                       *)

\* A worker that updates the status has one of the lists of updates ahead, and
\* one that applies is a reconciler and at a document.
PlaceInv ==
    \A w \in Workers :
        /\ pc[w] \in {"get", "put"} => todo[w] \in Updates(w)
        /\ pc[w] = "apply" => w \in Reconcilers /\ at[w] \in 1 .. NDocs

\* The types of what the workers keep.
LocalTypes ==
    /\ snap \in [Workers -> Objects]
    /\ pc \in [Workers -> Steps]
    /\ todo \in [Workers -> Seq({"Unknown", "True", "False", "report"})]
    /\ at \in [Workers -> Nat] /\ tries \in [Workers -> Nat]

TypeInv == TypeOK /\ PlaceInv

\* The lists of updates have the type of todo.
LEMMA UpdatesType ==
  \A w \in Workers : \A us \in Updates(w) :
      /\ us \in Seq({"Unknown", "True", "False", "report"})
      /\ Head(us) \in (IF w \in Reconcilers THEN {"Unknown", "True", "False"} ELSE {"report"})
<1> DEFINE S == {"Unknown", "True", "False", "report"}
<1>1. /\ <<"Unknown">> \in Seq(S) /\ <<"Unknown", "False">> \in Seq(S) /\ <<"False">> \in Seq(S)
      /\ <<"True">> \in Seq(S) /\ <<"report">> \in Seq(S)
  OBVIOUS
<1> QED
  BY <1>1, UpdatesParts DEF Updates

\* A worker that forgets its Reconcile keeps the types.
LEMMA ForgetTypes ==
  ASSUME TypeInv, NEW ws, NEW step \in {"idle", "done"}, Forget(ws, step)
  PROVE  LocalTypes' /\ PlaceInv'
<1>1. LocalTypes'
  BY NewObjectType, EmptySeq DEF Forget, TypeInv, TypeOK, LocalTypes, Steps
<1>2. PlaceInv'
  BY DEF Forget, TypeInv, TypeOK, PlaceInv
<1> QED
  BY <1>1, <1>2

\* A worker that goes on with status updates keeps the types.
LEMMA UpdateTypes ==
  ASSUME TypeInv, NEW w \in Workers, NEW us \in Updates(w), Update(w, us),
         UNCHANGED at, snap' \in [Workers -> Objects]
  PROVE  LocalTypes' /\ PlaceInv'
<1>1. us \in Seq({"Unknown", "True", "False", "report"})
  BY UpdatesType
<1>2. LocalTypes'
  BY <1>1 DEF Update, Goto, TypeInv, TypeOK, LocalTypes, Steps
<1>3. PlaceInv'
  BY DEF Update, Goto, TypeInv, TypeOK, PlaceInv
<1> QED
  BY <1>2, <1>3

\* So does a worker whose status update is over.
LEMMA AfterUpdateTypes ==
  ASSUME TypeInv, NEW w \in Workers, pc[w] \in {"get", "put"}, AfterUpdate(w)
  PROVE  LocalTypes' /\ PlaceInv' /\ pending' \in SUBSET Workers
<1>1. todo[w] \in Updates(w) /\ snap \in [Workers -> Objects]
  BY DEF TypeInv, TypeOK, PlaceInv
<1>2. pending' \in SUBSET Workers
  BY DEF AfterUpdate, TypeInv, TypeOK
<1>3. CASE Len(todo[w]) > 1 /\ Update(w, Tail(todo[w])) /\ UNCHANGED <<snap, at>>
  <2>0. Len(todo[w]) # 1
    <3>1. todo[w] \in Seq({"Unknown", "True", "False", "report"})
      BY <1>1, UpdatesType
    <3>2. Len(todo[w]) \in Nat
      BY <3>1, LenProperties
    <3>3. Len(todo[w]) > 1
      BY <1>3, Zenon
    <3>4. \A n \in Nat : n > 1 => n # 1
      OBVIOUS
    <3> QED
      BY <3>2, <3>3, <3>4, Zenon
  <2>1. w \in Reconcilers /\ todo[w] = <<"Unknown", "False">>
    BY <1>1, <2>0, UpdatesParts, Zenon DEF Updates
  <2>2. Tail(todo[w]) = <<"False">>
    BY <2>1, UpdatesParts, Zenon
  <2>3. Tail(todo[w]) \in Updates(w)
    BY <2>1, <2>2 DEF Updates
  <2> QED
    BY <1>1, <1>2, <1>3, <2>3, UpdateTypes
<1>4. CASE /\ todo[w] = <<"Unknown">>
           /\ Goto(w, "apply")
           /\ todo' = [todo EXCEPT ![w] = <<>>]
           /\ at' = [at EXCEPT ![w] = 1]
           /\ tries' = [tries EXCEPT ![w] = 0]
           /\ UNCHANGED snap
  <2>1. w \in Reconcilers
    BY <1>1, <1>4, UpdatesParts DEF Updates
  <2>2. LocalTypes'
    BY <1>4, EmptySeq DEF Goto, TypeInv, TypeOK, LocalTypes, Steps
  <2>3. PlaceInv'
    BY <1>4, <2>1, SBConstantsAssumption DEF Goto, TypeInv, TypeOK, PlaceInv
  <2> QED
    BY <1>2, <2>2, <2>3
<1>5. CASE Return(w)
  BY <1>2, <1>5, ForgetTypes DEF Return
<1> QED
  BY <1>3, <1>4, <1>5 DEF AfterUpdate

\* The initial states have their types.
LEMMA InitTypeInv == Init => TypeInv
<1> SUFFICES ASSUME Init PROVE TypeInv
  OBVIOUS
<1>1. Lock!LockTypeOK
  BY LockInvInductive DEF LockProofs!LockInv, LockProofs!LockTypeOK, Lock!LockTypeOK
<1>2. Object \in Objects
  BY NewObjectType DEF Init, Object, NewObject
<1>3. LocalTypes
  BY NewObjectType, EmptySeq DEF Init, LocalTypes, Steps
<1>4. PlaceInv
  BY DEF Init, PlaceInv
<1>5. /\ fresh \in SUBSET Workers /\ pending \in SUBSET Workers
      /\ objs \in [1 .. NDocs -> 0 .. MaxSpec]
      /\ cache \in [Replicas -> Objects] /\ behind \in SUBSET Replicas
      /\ spent \in [Faults -> Nat]
  BY NewObjectType, SBConstantsAssumption DEF Init
<1> QED
  BY <1>1, <1>2, <1>3, <1>4, <1>5 DEF TypeInv, TypeOK, LocalTypes

\* What the API server and the informers keep has its type.
SharedTypes ==
    /\ Object \in Objects
    /\ fresh \in SUBSET Workers /\ pending \in SUBSET Workers
    /\ objs \in [1 .. NDocs -> 0 .. MaxSpec]
    /\ cache \in [Replicas -> Objects] /\ behind \in SUBSET Replicas
    /\ spent \in [Faults -> Nat]

\* What a status update writes is a status.
LEMMA UpdatedType ==
  ASSUME TypeInv, NEW w \in Workers, pc[w] = "put"
  PROVE  Updated(w) \in Status
<1>1. todo[w] \in Updates(w) /\ snap[w] \in Objects
  BY DEF TypeInv, TypeOK, PlaceInv
<1>2. snap[w].status \in Status /\ snap[w].spec \in Specs /\ status \in Status
  BY <1>1 DEF Objects, Object, TypeInv, TypeOK
<1>3. Head(todo[w]) \in {"Unknown", "True", "False", "report"}
  BY <1>1, UpdatesType
<1>4. [snap[w].status EXCEPT !.healthy = TRUE] \in Status
  BY <1>2, StatusChanges
<1>5. /\ SetStatusCondition(status, "Unknown") \in Status
      /\ SetStatusCondition(status, "False") \in Status
      /\ SetStatusCondition(status, "True") \in Status
  BY <1>2, StatusChanges
<1>6. [SetStatusCondition(status, "True") EXCEPT !.hash = CalculateHash(snap[w].spec)] \in Status
  BY <1>2, <1>5, StatusChanges
<1> QED
  BY <1>3, <1>4, <1>5, <1>6 DEF Updated

\* What a worker keeps of the object it fetched has the type of an object.
LEMMA UsedType ==
  ASSUME TypeInv, NEW w \in Workers
  PROVE  Used(w) \in Objects
<1>1. cache[Home(w)] \in Objects
  BY HomeType DEF TypeInv, TypeOK
<1> QED
  BY <1>1, NewObjectType DEF Used, Objects

\* Every step keeps the types.
LEMMA NextTypeInv == TypeInv /\ Lock!LockTypeOK' /\ [Next]_vars => TypeInv'
<1> SUFFICES ASSUME TypeInv, Lock!LockTypeOK', [Next]_vars
             PROVE  LocalTypes' /\ PlaceInv' /\ SharedTypes'
  BY DEF TypeInv, TypeOK, LocalTypes, SharedTypes
<1>0. LocalTypes /\ PlaceInv /\ SharedTypes
  BY DEF TypeInv, TypeOK, LocalTypes, SharedTypes
<1>a. UNCHANGED localVars => LocalTypes' /\ PlaceInv'
  BY <1>0 DEF localVars, LocalTypes, PlaceInv, Updates
<1>b. UNCHANGED <<apiVars, cacheVars, pending, spent>> => SharedTypes'
  BY <1>0 DEF apiVars, cacheVars, SharedTypes, Object
<1>1. CASE UNCHANGED vars
  BY <1>1, <1>a, <1>b DEF vars
<1>2. ASSUME NEW w \in Workers, Obtain(w) \/ Finish(w) PROVE LocalTypes' /\ PlaceInv' /\ SharedTypes'
  BY <1>0, <1>2 DEF Obtain, Finish, Goto, apiVars, cacheVars, LocalTypes, PlaceInv, SharedTypes,
                    Object, Steps, Updates
<1>3. ASSUME NEW w \in Workers, ObtainReplyLost(w) \/ FinishReleaseLost(w)
      PROVE LocalTypes' /\ PlaceInv' /\ SharedTypes'
  <2>1. spent' \in [Faults -> Nat]
    BY <1>0, <1>3, SpendCounts DEF ObtainReplyLost, FinishReleaseLost, Faults, SharedTypes
  <2> QED
    BY <1>0, <1>3, <2>1 DEF ObtainReplyLost, FinishReleaseLost, Goto, apiVars, cacheVars, localVars,
                    LocalTypes, PlaceInv, SharedTypes, Object, Steps, Updates
<1>4. ASSUME NEW w \in Workers, NEW us \in Updates(w), Hydrated(w, us), spent' \in [Faults -> Nat]
      PROVE  LocalTypes' /\ PlaceInv' /\ SharedTypes'
  <2>1. snap' \in [Workers -> Objects]
    BY <1>0, <1>4, UsedType DEF Hydrated, LocalTypes
  <2> QED
    BY <1>0, <1>4, <2>1, UpdateTypes DEF Hydrated, apiVars, cacheVars, SharedTypes, Object
<1>5. ASSUME NEW w \in Workers, Fetch(w) PROVE LocalTypes' /\ PlaceInv' /\ SharedTypes'
  <2>0. spent' \in [Faults -> Nat]
    BY <1>0, <1>5 DEF Fetch, SharedTypes
  <2>1. CASE MustApply(w) /\ Hydrated(w, <<"Unknown">>)
    BY <2>0, <2>1, <1>4 DEF MustApply, Updates
  <2>2. CASE w \in Observers /\ Hydrated(w, <<"report">>)
    BY <2>0, <2>2, <1>4, SBConstantsAssumption DEF Updates
  <2>3. CASE Return(w) /\ UNCHANGED <<lockVars, apiVars, cacheVars, pending>>
    BY <1>0, <2>0, <2>3, ForgetTypes DEF Return, apiVars, cacheVars, SharedTypes, Object
  <2> QED
    BY <1>5, <2>1, <2>2, <2>3 DEF Fetch
<1>6. ASSUME NEW w \in Workers, HydrateFail(w) PROVE LocalTypes' /\ PlaceInv' /\ SharedTypes'
  BY <1>0, <1>4, <1>6, SpendCounts DEF HydrateFail, MustApply, Updates, SharedTypes, Faults
<1>7. ASSUME NEW w \in Workers, FetchFail(w) PROVE LocalTypes' /\ PlaceInv' /\ SharedTypes'
  <2>1. spent' \in [Faults -> Nat]
    BY <1>0, <1>7, SpendCounts DEF FetchFail, Faults, SharedTypes
  <2> QED
    BY <1>0, <1>7, <2>1, ForgetTypes DEF FetchFail, Return, apiVars, cacheVars, SharedTypes, Object
<1>8. ASSUME NEW w \in Workers, ApplyDoc(w) PROVE LocalTypes' /\ PlaceInv' /\ SharedTypes'
  <2>1. snap[w].spec \in Specs /\ w \in Reconcilers /\ at[w] \in 1 .. NDocs
    BY <1>0, <1>8 DEF ApplyDoc, LocalTypes, PlaceInv, Objects
  <2>2. SharedTypes'
    BY <1>0, <1>8, <2>1 DEF ApplyDoc, CreateOrUpdate, SharedTypes, cacheVars, Object, Specs
  <2>3. CASE at[w] = NDocs /\ Update(w, <<"True">>) /\ UNCHANGED at
    BY <1>0, <1>8, <2>1, <2>2, <2>3, UpdateTypes DEF ApplyDoc, Updates, LocalTypes
  <2>4. CASE at[w] < NDocs /\ at' = [at EXCEPT ![w] = @ + 1] /\ UNCHANGED <<pc, todo, tries>>
    <3>1. at[w] + 1 \in 1 .. NDocs
      BY <2>1, <2>4, SBConstantsAssumption
    <3>2. LocalTypes'
      BY <1>0, <1>8, <2>4, <3>1 DEF ApplyDoc, LocalTypes
    <3>3. PlaceInv'
      BY <1>0, <1>8, <2>1, <2>4, <3>1 DEF PlaceInv, LocalTypes, Updates
    <3> QED
      BY <2>2, <3>2, <3>3
  <2> QED
    BY <1>8, <2>3, <2>4 DEF ApplyDoc
<1>9. ASSUME NEW w \in Workers, ApplyFail(w) PROVE LocalTypes' /\ PlaceInv' /\ SharedTypes'
  <2>1. snap[w].spec \in Specs /\ w \in Reconcilers /\ at[w] \in 1 .. NDocs
    BY <1>0, <1>9 DEF ApplyFail, LocalTypes, PlaceInv, Objects
  <2>2. spent' \in [Faults -> Nat]
    BY <1>0, <1>9, SpendCounts DEF ApplyFail, Faults, SharedTypes
  <2>3. SharedTypes'
    BY <1>0, <1>9, <2>1, <2>2 DEF ApplyFail, CreateOrUpdate, SharedTypes, cacheVars, Object, Specs
  <2> QED
    BY <1>0, <1>9, <2>1, <2>3, UpdateTypes DEF ApplyFail, Updates, LocalTypes
<1>10. ASSUME NEW w \in Workers, Get(w) PROVE LocalTypes' /\ PlaceInv' /\ SharedTypes'
  BY <1>0, <1>10 DEF Get, Goto, cacheVars, LocalTypes, PlaceInv, SharedTypes, Object, Steps, Updates
<1>11. ASSUME NEW w \in Workers, Put(w) PROVE LocalTypes' /\ PlaceInv' /\ SharedTypes'
  <2>1. LocalTypes' /\ PlaceInv' /\ pending' \in SUBSET Workers
    BY <1>11, AfterUpdateTypes DEF Put
  <2>2. Updated(w) \in Status
    BY <1>11, UpdatedType DEF Put
  <2> QED
    BY <1>0, <1>11, <2>1, <2>2 DEF Put, UpdateStatus, Modified, SharedTypes, Object, Objects
<1>12. ASSUME NEW w \in Workers, PutConflict(w) PROVE LocalTypes' /\ PlaceInv' /\ SharedTypes'
  <2>1. CASE AfterUpdate(w)
    BY <1>0, <1>12, <2>1, AfterUpdateTypes DEF PutConflict, apiVars, cacheVars, SharedTypes, Object
  <2>2. CASE /\ tries' = [tries EXCEPT ![w] = @ + 1]
             /\ Goto(w, "get") /\ UNCHANGED <<pending, snap, todo, at>>
    BY <1>0, <1>12, <2>2 DEF PutConflict, Goto, apiVars, cacheVars, LocalTypes, PlaceInv,
                             SharedTypes, Object, Steps, Updates
  <2> QED
    BY <1>12, <2>1, <2>2 DEF PutConflict
<1>13. ASSUME NEW w \in Workers, UpdateFail(w) PROVE LocalTypes' /\ PlaceInv' /\ SharedTypes'
  <2>1. spent' \in [Faults -> Nat]
    BY <1>0, <1>13, SpendCounts DEF UpdateFail, Faults, SharedTypes
  <2> QED
    BY <1>0, <1>13, <2>1, AfterUpdateTypes DEF UpdateFail, apiVars, cacheVars, SharedTypes, Object
<1>14. ASSUME NEW ws \in Replicas, Sync(ws) PROVE LocalTypes' /\ PlaceInv' /\ SharedTypes'
  <2>1. SharedTypes'
    BY <1>0, <1>14, SBConstantsAssumption DEF Sync, apiVars, SharedTypes, Object
  <2> QED
    BY <1>14, <1>a, <2>1 DEF Sync
<1>15. ASSUME NEW ws \in Replicas, Crash(ws) PROVE LocalTypes' /\ PlaceInv' /\ SharedTypes'
  <2>1. spent' \in [Faults -> Nat]
    BY <1>0, <1>15, SpendCounts DEF Crash, Faults, SharedTypes
  <2>2. SharedTypes'
    BY <1>0, <1>15, <2>1, SBConstantsAssumption DEF Crash, apiVars, SharedTypes, Object
  <2> QED
    BY <1>15, <2>2, ForgetTypes DEF Crash
<1>16. CASE Minute
  <2>1. /\ Aged(Object) \in Objects
        /\ \A ws \in Replicas : Aged(cache[ws]) \in Objects
        /\ \A w \in Workers : Aged(snap[w]) \in Objects
    BY <1>0, AgedType DEF SharedTypes, LocalTypes
  <2>2. Aged(Object).status \in Status
    BY <2>1 DEF Objects
  <2>3. SharedTypes'
    BY <1>0, <1>16, <2>1, <2>2 DEF Minute, SharedTypes, Object, Objects
  <2> QED
    BY <1>0, <1>16, <2>1, <2>3 DEF Minute, LocalTypes, PlaceInv, Updates
<1>17. CASE Edit
  <2>1. SharedTypes'
    BY <1>0, <1>17, SBConstantsAssumption DEF Edit, Modified, SharedTypes, Object, Objects, Specs
  <2> QED
    BY <1>17, <1>a, <2>1 DEF Edit
<1>18. CASE Revert
  <2>1. spent' \in [Faults -> Nat]
    BY <1>0, <1>18, SpendCounts DEF Revert, Faults, SharedTypes
  <2>2. SharedTypes'
    BY <1>0, <1>18, <2>1, SBConstantsAssumption DEF Revert, Modified, SharedTypes, Object, Objects, Specs
  <2> QED
    BY <1>18, <1>a, <2>2 DEF Revert
<1>19. CASE Resync \/ ExpireAbandoned
  BY <1>0, <1>19, <1>a DEF Resync, ExpireAbandoned, apiVars, cacheVars, SharedTypes, Object
<1>20. CASE ExpireHeld
  <2>1. spent' \in [Faults -> Nat]
    BY <1>0, <1>20, SpendCounts DEF ExpireHeld, Faults, SharedTypes
  <2> QED
    BY <1>0, <1>20, <1>a, <2>1 DEF ExpireHeld, apiVars, cacheVars, SharedTypes, Object
<1> QED
  BY <1>1, <1>2, <1>3, <1>5, <1>6, <1>7, <1>8, <1>9, <1>10, <1>11, <1>12, <1>13, <1>14, <1>15,
     <1>16, <1>17, <1>18, <1>19, <1>20 DEF Next, Work, Disturbed

\* The types hold in every reachable state: no sequence of failures, crashes
\* and updates gives the status a condition the API does not know, or leaves a
\* worker at a document the template did not render.
THEOREM SBTypeCorrect == Spec => []TypeOK
<1>1. Init => TypeInv /\ LockProofs!LockInv
  BY InitTypeInv, LockInvInductive
<1>2. TypeInv /\ LockProofs!LockInv /\ [Next]_vars => (TypeInv /\ LockProofs!LockInv)'
  <2> SUFFICES ASSUME TypeInv, LockProofs!LockInv, [Next]_vars
               PROVE  TypeInv' /\ LockProofs!LockInv'
    OBVIOUS
  <2>1. LockProofs!LockInv'
    BY LockInvInductive
  <2>2. Lock!LockTypeOK'
    BY <2>1 DEF LockProofs!LockInv, LockProofs!LockTypeOK, Lock!LockTypeOK
  <2> QED
    BY <2>1, <2>2, NextTypeInv
<1>3. TypeInv => TypeOK
  BY DEF TypeInv
<1> QED
  BY <1>1, <1>2, <1>3, PTL DEF Spec

-----------------------------------------------------------------------------
(* NeverFalselyApplied.  A hash on record, wherever it is kept, is no newer *)
(* than anything that may still be applied: then nothing older overwrites   *)
(* what it vouches for.                                                     *)

\* The steps between the fetch and the end of a Reconcile.
Busy == {"apply", "get", "put"}

\* The hashes in the API server, in the caches and in the aggregates.
Hashes == {status.hash} \cup {cache[ws].status.hash : ws \in Replicas}
                        \cup {snap[w].status.hash : w \in Workers}

\* Nothing is newer than what it was copied from.
AgeInv ==
    /\ \A ws \in Replicas : cache[ws].spec <= spec
    /\ \A d \in 1 .. NDocs : objs[d] <= spec
    /\ \A r \in Reconcilers : pc[r] \in Busy => snap[r].spec <= cache[Home(r)].spec

\* A reconciler has applied its spec to the documents before the one it is at,
\* and to all of them when it is to record the success.
AppliedInv ==
    \A r \in Reconcilers :
        /\ pc[r] = "apply" => \A d \in 1 .. at[r] - 1 : objs[d] = snap[r].spec
        /\ pc[r] \in {"get", "put"} /\ todo[r] = <<"True">> =>
               \A d \in 1 .. NDocs : objs[d] = snap[r].spec

\* Spec k is no newer than the documents in the cluster, than what a
\* reconciler applies and than what it will fetch.
Settled(k) ==
    /\ \A d \in 1 .. NDocs : k <= objs[d]
    /\ \A r \in Reconcilers : /\ k <= cache[Home(r)].spec
                              /\ pc[r] \in Busy => k <= snap[r].spec

RecordInv == \A k \in Specs : CalculateHash(k) \in Hashes => Settled(k)

HistoryInv == AgeInv /\ AppliedInv /\ RecordInv

\* What every step but a revert does to the specs in use: they only move from
\* the object to a cache, from there to an aggregate, from there to a document.
Forward ==
    /\ spec' >= spec
    /\ \A ws \in Replicas : cache'[ws].spec \in {cache[ws].spec, spec}
    /\ \A d \in 1 .. NDocs : \/ objs'[d] = objs[d]
                             \/ \E r \in Reconcilers : pc[r] \in Busy /\ objs'[d] = snap[r].spec
    /\ \A r \in Reconcilers : pc'[r] \in Busy =>
           \/ pc[r] \in Busy /\ snap'[r].spec = snap[r].spec
           \/ snap'[r].spec = cache[Home(r)].spec

\* The types of the specs.
LEMMA SpecTypes ==
  ASSUME TypeInv
  PROVE  /\ spec \in Nat /\ \A ws \in Replicas : cache[ws].spec \in Nat
         /\ \A w \in Workers : snap[w].spec \in Specs /\ snap[w].spec \in Nat
         /\ \A d \in 1 .. NDocs : objs[d] \in Nat
BY SBConstantsAssumption DEF TypeInv, TypeOK, Object, Objects, Specs

\* Such steps keep the order of ages, and what is settled stays settled.
LEMMA ForwardKeeps ==
  ASSUME TypeInv, TypeInv', AgeInv, Forward
  PROVE  AgeInv' /\ \A k \in Specs : Settled(k) => Settled(k)'
<1>1. \A r \in Reconcilers : r \in Workers /\ Home(r) \in Replicas
  BY HomeType DEF Workers
<1>2. /\ spec \in Nat /\ \A ws \in Replicas : cache[ws].spec \in Nat
      /\ \A w \in Workers : snap[w].spec \in Nat
      /\ \A d \in 1 .. NDocs : objs[d] \in Nat
  BY SpecTypes
<1>3. /\ spec' \in Nat /\ \A ws \in Replicas : cache'[ws].spec \in Nat
      /\ \A w \in Workers : snap'[w].spec \in Nat
      /\ \A d \in 1 .. NDocs : objs'[d] \in Nat
  BY SBConstantsAssumption, SMTT(30) DEF TypeInv, TypeOK, Object, Objects, Specs
<1>4. \A ws \in Replicas : cache[ws].spec <= cache'[ws].spec /\ cache'[ws].spec <= spec
  BY <1>2, <1>3 DEF AgeInv, Forward
<1>5. AgeInv'
  <2>1. \A ws \in Replicas : cache'[ws].spec <= spec'
    BY <1>2, <1>3, <1>4 DEF Forward
  <2>2. ASSUME NEW d \in 1 .. NDocs PROVE objs'[d] <= spec'
    <3>1. ASSUME NEW r \in Reconcilers, pc[r] \in Busy PROVE snap[r].spec <= spec'
      BY <1>1, <1>2, <1>3, <3>1 DEF AgeInv, Forward
    <3> QED
      BY <1>2, <1>3, <3>1 DEF AgeInv, Forward
  <2>3. ASSUME NEW r \in Reconcilers, pc'[r] \in Busy PROVE snap'[r].spec <= cache'[Home(r)].spec
    BY <1>1, <1>2, <1>3, <1>4, <2>3 DEF AgeInv, Forward
  <2> QED
    BY <2>1, <2>2, <2>3 DEF AgeInv, Home
<1>6. ASSUME NEW k \in Specs, Settled(k) PROVE Settled(k)'
  <2>0. k \in Nat
    BY DEF Specs
  <2>1. ASSUME NEW d \in 1 .. NDocs PROVE k <= objs'[d]
    BY <1>2, <1>3, <1>6 DEF Settled, Forward
  <2>2. ASSUME NEW r \in Reconcilers PROVE k <= cache'[Home(r)].spec
    BY <1>1, <1>2, <1>3, <1>4, <1>6, <2>0 DEF Settled
  <2>3. ASSUME NEW r \in Reconcilers, pc'[r] \in Busy PROVE k <= snap'[r].spec
    BY <1>1, <1>6, <2>3 DEF Settled, Forward
  <2> QED
    BY <2>1, <2>2, <2>3 DEF Settled, Home
<1> QED
  BY <1>5, <1>6

\* A worker that forgets its Reconcile is not busy; the others go on.
LEMMA ForgetKeeps ==
  ASSUME NEW ws, NEW step \in {"idle", "done"}, Forget(ws, step), NEW v \in Workers
  PROVE  /\ pc'[v] \in Busy => /\ pc'[v] = pc[v] /\ snap'[v] = snap[v]
                               /\ todo'[v] = todo[v] /\ at'[v] = at[v]
         /\ snap'[v] \in {snap[v], NewObject}
BY DEF Forget, Busy

\* After a status update the worker goes on with the spec it has, and never
\* with the record of a success.
LEMMA AfterUpdateKeeps ==
  ASSUME TypeInv, NEW w \in Workers, pc[w] \in {"get", "put"}, AfterUpdate(w), NEW v \in Workers
  PROVE  /\ pc'[v] \in Busy => pc[v] \in Busy /\ snap'[v] = snap[v]
         /\ snap'[v] \in {snap[v], NewObject}
         /\ \/ pc'[v] = pc[v] /\ todo'[v] = todo[v] /\ at'[v] = at[v] /\ snap'[v] = snap[v]
            \/ pc'[v] \notin Busy
            \/ pc'[v] = "apply" /\ at'[v] = 1
            \/ pc'[v] \in {"get", "put"} /\ todo'[v] # <<"True">>
<1>0. todo[w] \in Updates(w) /\ pc[w] \in Busy
  BY DEF TypeInv, TypeOK, PlaceInv, Busy
<1>1. CASE Len(todo[w]) > 1 /\ Update(w, Tail(todo[w])) /\ UNCHANGED <<snap, at>>
  <2>1. todo[w] \in Seq({"Unknown", "True", "False", "report"}) /\ \A n \in Nat : n > 1 => n # 1
    BY <1>0, UpdatesType
  <2>2. Len(todo[w]) # 1
    BY <1>1, <2>1, LenProperties, Zenon
  <2>3. Tail(todo[w]) = <<"False">> /\ <<"False">> # <<"True">>
    BY <1>0, <2>2, UpdatesParts, Zenon DEF Updates
  <2> QED
    BY <1>0, <1>1, <2>3 DEF Update, Goto, TypeInv, TypeOK, Busy
<1>2. CASE /\ todo[w] = <<"Unknown">>
           /\ Goto(w, "apply")
           /\ todo' = [todo EXCEPT ![w] = <<>>]
           /\ at' = [at EXCEPT ![w] = 1]
           /\ tries' = [tries EXCEPT ![w] = 0]
           /\ UNCHANGED snap
  BY <1>0, <1>2 DEF Goto, TypeInv, TypeOK, Busy
<1>3. CASE Return(w)
  <2>1. Forget({w}, "done")
    BY <1>3 DEF Return
  <2> QED
    BY <2>1, ForgetKeeps, Zenon
<1> QED
  BY <1>1, <1>2, <1>3 DEF AfterUpdate

\* Every step is one forward, unless the user goes back to an earlier spec.
LEMMA ForwardStep ==
  ASSUME TypeInv, TypeInv', [Next]_vars, spent'["revert"] = 0
  PROVE  Forward
<1>0. /\ \A r \in Reconcilers : r \in Workers /\ Home(r) \in Replicas
      /\ spec \in Nat /\ spent \in [Faults -> Nat]
  BY HomeType, SpecTypes DEF TypeInv, TypeOK, Workers
<1>1. ASSUME UNCHANGED <<spec, objs, cache>>,
             \A v \in Workers : pc'[v] \in Busy => pc[v] \in Busy /\ snap'[v].spec = snap[v].spec
      PROVE  Forward
  BY <1>0, <1>1 DEF Forward
<1>2. CASE UNCHANGED vars
  BY <1>1, <1>2 DEF vars, apiVars, cacheVars, localVars
<1>3. ASSUME NEW w \in Workers,
             \/ Obtain(w) \/ ObtainReplyLost(w) \/ Finish(w) \/ FinishReleaseLost(w) \/ Get(w)
      PROVE  Forward
  <2>1. UNCHANGED <<spec, objs, cache, snap>>
    BY <1>3 DEF Obtain, ObtainReplyLost, Finish, FinishReleaseLost, Get, apiVars, cacheVars, localVars
  <2>2. \A v \in Workers : pc'[v] \in Busy => pc[v] \in Busy
    BY <1>3 DEF Obtain, ObtainReplyLost, Finish, FinishReleaseLost, Get, localVars, Goto, Busy,
                TypeInv, TypeOK
  <2> QED
    BY <1>1, <2>1, <2>2
<1>4. ASSUME NEW w \in Workers, NEW us, Hydrated(w, us) PROVE Forward
  <2>1. ASSUME w \in Reconcilers PROVE snap'[w].spec = cache[Home(w)].spec
    BY <1>4, <2>1 DEF Hydrated, Used, NewObject, TypeInv, TypeOK
  <2>2. ASSUME NEW v \in Workers, v # w PROVE pc'[v] = pc[v] /\ snap'[v] = snap[v]
    BY <1>4, <2>2 DEF Hydrated, Update, Goto, TypeInv, TypeOK
  <2>3. UNCHANGED <<spec, objs, cache>>
    BY <1>4 DEF Hydrated, apiVars, cacheVars
  <2> QED
    BY <1>0, <2>1, <2>2, <2>3 DEF Forward
<1>5. ASSUME NEW w \in Workers, Return(w), UNCHANGED <<spec, objs, cache>> PROVE Forward
  BY <1>1, <1>5, ForgetKeeps DEF Return
<1>6. ASSUME NEW w \in Workers, Fetch(w) \/ HydrateFail(w) \/ FetchFail(w) PROVE Forward
  BY <1>4, <1>5, <1>6 DEF Fetch, HydrateFail, FetchFail, apiVars, cacheVars
<1>7. ASSUME NEW w \in Workers, ApplyDoc(w) \/ ApplyFail(w) PROVE Forward
  <2>1. w \in Reconcilers /\ at[w] \in 1 .. NDocs /\ pc[w] \in Busy
    BY <1>7 DEF ApplyDoc, ApplyFail, TypeInv, PlaceInv, Busy
  <2>2. \A d \in 1 .. NDocs : objs'[d] \in {objs[d], snap[w].spec}
    BY <1>7, <2>1 DEF ApplyDoc, ApplyFail, CreateOrUpdate, TypeInv, TypeOK
  <2>3. UNCHANGED <<spec, cache, snap>>
    BY <1>7 DEF ApplyDoc, ApplyFail, cacheVars
  <2>4. \A v \in Workers : pc'[v] \in Busy => pc[v] \in Busy
    BY <1>7, <2>1 DEF ApplyDoc, ApplyFail, Update, Goto, TypeInv, TypeOK
  <2> QED
    BY <1>0, <2>1, <2>2, <2>3, <2>4 DEF Forward
<1>8. ASSUME NEW w \in Workers, Put(w) \/ PutConflict(w) \/ UpdateFail(w) PROVE Forward
  <2>1. pc[w] \in {"get", "put"} /\ UNCHANGED <<spec, objs, cache>>
    BY <1>8 DEF Put, PutConflict, UpdateFail, apiVars, cacheVars
  <2>2. CASE AfterUpdate(w)
    BY <1>1, <2>1, <2>2, AfterUpdateKeeps
  <2>3. CASE Goto(w, "get") /\ UNCHANGED snap
    BY <1>1, <2>1, <2>3 DEF Goto, Busy, TypeInv, TypeOK
  <2> QED
    BY <1>8, <2>2, <2>3 DEF Put, PutConflict, UpdateFail
<1>9. ASSUME NEW ws \in Replicas, Sync(ws) PROVE Forward
  BY <1>0, <1>9 DEF Sync, Forward, apiVars, localVars, Object, TypeInv, TypeOK
<1>10. ASSUME NEW ws \in Replicas, Crash(ws) PROVE Forward
  <2>1. \A v \in Workers : pc'[v] \in Busy => pc'[v] = pc[v] /\ snap'[v] = snap[v]
    BY <1>10, ForgetKeeps DEF Crash
  <2>2. UNCHANGED <<spec, objs>> /\ cache' = [cache EXCEPT ![ws] = Object]
    BY <1>10 DEF Crash, apiVars
  <2> QED
    BY <1>0, <2>1, <2>2 DEF Forward, Object, TypeInv, TypeOK
<1>11. CASE Minute
  <2>1. /\ \A ws \in Replicas : cache'[ws].spec = cache[ws].spec
        /\ \A v \in Workers : snap'[v].spec = snap[v].spec
    BY <1>11, AgedType DEF Minute, TypeInv, TypeOK
  <2> QED
    BY <1>0, <1>11, <2>1 DEF Minute, Forward
<1>12. CASE Edit
  BY <1>0, <1>12 DEF Edit, Forward, localVars
<1>13. CASE Revert
  BY <1>0, <1>13, SpendCounts DEF Revert, Faults
<1>14. CASE Resync \/ ExpireAbandoned \/ ExpireHeld
  BY <1>1, <1>14 DEF Resync, ExpireAbandoned, ExpireHeld, apiVars, cacheVars, localVars
<1> QED
  BY <1>2, <1>3, <1>6, <1>7, <1>8, <1>9, <1>10, <1>11, <1>12, <1>13, <1>14 DEF Next, Work, Disturbed

\* The update that records a success, as the code does it.
Records(w) == /\ w \in Reconcilers /\ pc[w] = "put" /\ Put(w)
              /\ todo[w] = <<"True">>
              /\ status'.hash = CalculateHash(snap[w].spec)
              /\ pc'[w] \notin Busy

\* A status update keeps the hash, brings back one that an aggregate holds, or
\* records the success of the reconciler.
LEMMA PutHash ==
  ASSUME TypeInv, NEW w \in Workers, Put(w)
  PROVE  \/ status'.hash \in Hashes
         \/ Records(w)
<1>1. /\ todo[w] \in Updates(w) /\ snap[w].status \in Status /\ snap[w].spec \in Specs
      /\ status \in Status
  BY DEF Put, TypeInv, TypeOK, PlaceInv, Object, Objects
<1>2. status' = Updated(w)
  BY DEF Put, UpdateStatus
<1>3. CASE Head(todo[w]) = "report"
  <2>1. status' = [snap[w].status EXCEPT !.healthy = TRUE]
    BY <1>2, <1>3 DEF Updated
  <2> QED
    BY <1>1, <2>1, StatusChanges DEF Hashes
<1>4. CASE Head(todo[w]) \in {"Unknown", "False"}
  <2>1. status' = SetStatusCondition(status, Head(todo[w]))
    BY <1>2, <1>4 DEF Updated
  <2> QED
    BY <1>1, <1>4, <2>1, StatusChanges DEF Hashes
<1>5. CASE Head(todo[w]) = "True"
  <2>1. todo[w] = <<"True">> /\ w \in Reconcilers
    BY <1>1, <1>5, UpdatesParts DEF Updates
  <2>2. status' = [SetStatusCondition(status, "True") EXCEPT !.hash = CalculateHash(snap[w].spec)]
    BY <1>2, <1>5 DEF Updated
  <2>3. SetStatusCondition(status, "True") \in Status
    BY <1>1, StatusChanges
  <2>4. status'.hash = CalculateHash(snap[w].spec)
    BY <2>2, <2>3 DEF Status
  <2>5. Len(todo[w]) = 1 /\ todo[w] # <<"Unknown">>
    BY <2>1, UpdatesParts, Zenon
  <2>7. ~(Len(todo[w]) > 1)
    BY <2>5
  <2>8. Return(w)
    BY <2>5, <2>7, Zenon DEF Put, AfterUpdate
  <2>9. pc'[w] \notin Busy
    BY <2>8 DEF Return, Forget, Busy
  <2> QED
    BY <2>1, <2>4, <2>9 DEF Records, Put
<1> QED
  BY <1>1, <1>3, <1>4, <1>5, UpdatesType

\* No other step brings a hash that is nowhere else.
LEMMA HashesStep ==
  ASSUME TypeInv, [Next]_vars
  PROVE  \/ Hashes' \subseteq Hashes \cup {NoHash}
         \/ \E w \in Reconcilers : /\ Records(w)
                                   /\ Hashes' \subseteq Hashes \cup {NoHash, CalculateHash(snap[w].spec)}
<1> DEFINE Old == Hashes \cup {NoHash}
<1>0. NewObject.status.hash = NoHash
  BY DEF NewObject, EmptyStatus
<1>1. ASSUME status'.hash \in Old,
             \A ws \in Replicas : cache'[ws].status.hash \in Old,
             \A v \in Workers : snap'[v].status.hash \in Old
      PROVE  Hashes' \subseteq Old
  BY <1>1 DEF Hashes
<1>2. /\ status.hash \in Old
      /\ \A ws \in Replicas : cache[ws].status.hash \in Old
      /\ \A v \in Workers : snap[v].status.hash \in Old
  BY DEF Hashes
<1>3. ASSUME UNCHANGED <<status, cache, snap>> PROVE Hashes' \subseteq Old
  BY <1>3 DEF Hashes
<1>4. CASE UNCHANGED vars
  BY <1>3, <1>4 DEF vars, apiVars, cacheVars, localVars
<1>5. ASSUME NEW w \in Workers,
             \/ Obtain(w) \/ ObtainReplyLost(w) \/ Finish(w) \/ FinishReleaseLost(w) \/ Get(w)
             \/ ApplyDoc(w) \/ ApplyFail(w)
      PROVE  Hashes' \subseteq Old
  BY <1>3, <1>5 DEF Obtain, ObtainReplyLost, Finish, FinishReleaseLost, Get, ApplyDoc, ApplyFail,
                    apiVars, cacheVars, localVars
<1>6. ASSUME NEW w \in Workers, Return(w), UNCHANGED <<status, cache>> PROVE Hashes' \subseteq Old
  <2>1. Forget({w}, "done")
    BY <1>6 DEF Return
  <2>2. \A v \in Workers : snap'[v] \in {snap[v], NewObject}
    BY <2>1, ForgetKeeps, Zenon
  <2> QED
    BY <1>0, <1>1, <1>2, <1>6, <2>2
<1>7. ASSUME NEW w \in Workers, NEW us, Hydrated(w, us) PROVE Hashes' \subseteq Old
  <2>1. Used(w).status.hash \in Old
    BY <1>0, <1>2, HomeType, NewObjectType DEF Used, NewObject
  <2>2. UNCHANGED <<status, cache>> /\ snap' = [snap EXCEPT ![w] = Used(w)]
    BY <1>7 DEF Hydrated, apiVars, cacheVars
  <2>3. \A v \in Workers : snap'[v].status.hash \in Old
    BY <1>2, <2>1, <2>2 DEF TypeInv, TypeOK
  <2> QED
    BY <1>1, <1>2, <2>2, <2>3
<1>8. ASSUME NEW w \in Workers, Fetch(w) \/ HydrateFail(w) \/ FetchFail(w) PROVE Hashes' \subseteq Old
  BY <1>6, <1>7, <1>8 DEF Fetch, HydrateFail, FetchFail, apiVars, cacheVars
<1>9. ASSUME NEW w \in Workers, pc[w] \in {"get", "put"}, AfterUpdate(w)
      PROVE  \A v \in Workers : snap'[v].status.hash \in Old
  <2>1. \A v \in Workers : snap'[v] \in {snap[v], NewObject}
    BY <1>9, AfterUpdateKeeps, Zenon
  <2> QED
    BY <1>0, <1>2, <2>1
<1>10. ASSUME NEW w \in Workers, PutConflict(w) \/ UpdateFail(w) PROVE Hashes' \subseteq Old
  <2>1. pc[w] \in {"get", "put"} /\ UNCHANGED <<status, cache>>
    BY <1>10 DEF PutConflict, UpdateFail, apiVars, cacheVars
  <2> QED
    BY <1>1, <1>2, <1>3, <1>9, <1>10, <2>1 DEF PutConflict, UpdateFail
<1>11. ASSUME NEW w \in Workers, Put(w)
       PROVE  \/ Hashes' \subseteq Old
              \/ w \in Reconcilers /\ Records(w) /\ Hashes' \subseteq Old \cup {CalculateHash(snap[w].spec)}
  <2>1. UNCHANGED cache /\ \A v \in Workers : snap'[v].status.hash \in Old
    BY <1>9, <1>11 DEF Put
  <2>2. CASE status'.hash \in Hashes
    BY <1>1, <1>2, <2>1, <2>2
  <2>3. CASE Records(w)
    <3>1. status'.hash = CalculateHash(snap[w].spec) /\ w \in Reconcilers
      BY <2>3 DEF Records
    <3> QED
      BY <1>2, <2>1, <2>3, <3>1 DEF Hashes
  <2> QED
    BY <1>11, <2>2, <2>3, PutHash
<1>12. ASSUME NEW ws \in Replicas, Sync(ws) \/ Crash(ws) PROVE Hashes' \subseteq Old
  <2>1. UNCHANGED status /\ cache' = [cache EXCEPT ![ws] = Object]
    BY <1>12 DEF Sync, Crash, apiVars
  <2>2. \A v \in Workers : snap'[v] \in {snap[v], NewObject}
    BY <1>12, ForgetKeeps DEF Sync, Crash, localVars
  <2>3. \A xs \in Replicas : cache'[xs].status.hash \in Old
    BY <1>2, <2>1 DEF Object, TypeInv, TypeOK
  <2> QED
    BY <1>0, <1>1, <1>2, <2>1, <2>2, <2>3
<1>13. CASE Minute
  <2>1. /\ \A ws \in Replicas : cache'[ws].status.hash = cache[ws].status.hash
        /\ \A v \in Workers : snap'[v].status.hash = snap[v].status.hash
        /\ status'.hash = status.hash
    BY <1>13, AgedType DEF Minute, TypeInv, TypeOK, Object
  <2> QED
    BY <1>1, <1>2, <2>1
<1>14. CASE Resync \/ ExpireAbandoned \/ ExpireHeld \/ Edit \/ Revert
  BY <1>3, <1>14 DEF Resync, ExpireAbandoned, ExpireHeld, Edit, Revert, apiVars, cacheVars, localVars
<1> QED
  BY <1>4, <1>5, <1>8, <1>10, <1>11, <1>12, <1>13, <1>14 DEF Next, Work, Disturbed

\* There is at most one reconciler: one replica, or only one that leads.
OneReconciler == \A r, s \in Reconcilers : r = s

\* How a reconciler goes on without having applied a document.
GoesOn(r) ==
    \/ pc'[r] \notin Busy
    \/ pc'[r] = "apply" /\ at'[r] = 1
    \/ pc'[r] \in {"get", "put"} /\ todo'[r] # <<"True">>
    \/ /\ UNCHANGED objs
       /\ pc'[r] = pc[r] \/ (pc'[r] \in {"get", "put"} /\ pc[r] \in {"get", "put"})
       /\ todo'[r] = todo[r] /\ at'[r] = at[r] /\ snap'[r].spec = snap[r].spec

\* The documents that the only reconciler has applied stay as it applied them.
LEMMA AppliedStep ==
  ASSUME TypeInv, OneReconciler, AppliedInv, [Next]_vars
  PROVE  AppliedInv'
<1>1. ASSUME \A r \in Reconcilers : GoesOn(r) PROVE AppliedInv'
  <2> SUFFICES ASSUME NEW r \in Reconcilers
               PROVE  /\ pc'[r] = "apply" => \A d \in 1 .. at'[r] - 1 : objs'[d] = snap'[r].spec
                      /\ pc'[r] \in {"get", "put"} /\ todo'[r] = <<"True">> =>
                             \A d \in 1 .. NDocs : objs'[d] = snap'[r].spec
    BY DEF AppliedInv
  <2>1. CASE pc'[r] \notin Busy
    BY <2>1 DEF Busy
  <2>2. CASE pc'[r] = "apply" /\ at'[r] = 1
    BY <2>2
  <2>3. CASE pc'[r] \in {"get", "put"} /\ todo'[r] # <<"True">>
    BY <2>3
  <2>4. CASE /\ UNCHANGED objs
             /\ pc'[r] = pc[r] \/ (pc'[r] \in {"get", "put"} /\ pc[r] \in {"get", "put"})
             /\ todo'[r] = todo[r] /\ at'[r] = at[r] /\ snap'[r].spec = snap[r].spec
    BY <2>4 DEF AppliedInv
  <2> QED
    BY <1>1, <2>1, <2>2, <2>3, <2>4 DEF GoesOn
<1>2. /\ \A r \in Reconcilers : r \in Workers
      /\ <<"Unknown">> # <<"True">> /\ <<"Unknown", "False">> # <<"True">> /\ <<"False">> # <<"True">>
  BY UpdatesParts DEF Workers
<1>3. ASSUME UNCHANGED <<objs, pc, todo, at, snap>> PROVE AppliedInv'
  BY <1>1, <1>3 DEF GoesOn
<1>4. CASE UNCHANGED vars
  BY <1>3, <1>4 DEF vars, apiVars, localVars
<1>5. ASSUME NEW w \in Workers,
             \/ Obtain(w) \/ ObtainReplyLost(w) \/ Finish(w) \/ FinishReleaseLost(w) \/ Get(w)
      PROVE  AppliedInv'
  <2>1. UNCHANGED <<objs, todo, at, snap>>
    BY <1>5 DEF Obtain, ObtainReplyLost, Finish, FinishReleaseLost, Get, apiVars, localVars
  <2>2. \A r \in Workers : \/ pc'[r] \notin Busy \/ pc'[r] = pc[r]
                           \/ pc'[r] \in {"get", "put"} /\ pc[r] \in {"get", "put"}
    BY <1>5 DEF Obtain, ObtainReplyLost, Finish, FinishReleaseLost, Get, localVars, Goto, Busy,
                TypeInv, TypeOK
  <2> QED
    BY <1>1, <1>2, <2>1, <2>2 DEF GoesOn
<1>6. ASSUME NEW w \in Workers, NEW us, Hydrated(w, us), us # <<"True">> PROVE AppliedInv'
  <2>1. ASSUME NEW r \in Reconcilers, r # w PROVE GoesOn(r)
    BY <1>2, <1>6, <2>1 DEF Hydrated, Update, Goto, apiVars, GoesOn, TypeInv, TypeOK
  <2>2. w \in Reconcilers => GoesOn(w)
    BY <1>2, <1>6 DEF Hydrated, Update, Goto, GoesOn, TypeInv, TypeOK
  <2> QED
    BY <1>1, <2>1, <2>2
<1>7. ASSUME NEW ws, NEW step \in {"idle", "done"}, Forget(ws, step), UNCHANGED objs PROVE AppliedInv'
  <2>1. ASSUME NEW r \in Reconcilers PROVE GoesOn(r)
    BY <1>2, <1>7, ForgetKeeps DEF GoesOn
  <2> QED
    BY <1>1, <2>1
<1>8. ASSUME NEW w \in Workers, Fetch(w) \/ HydrateFail(w) \/ FetchFail(w) PROVE AppliedInv'
  <2>1. CASE Hydrated(w, <<"Unknown">>) \/ Hydrated(w, <<"Unknown", "False">>) \/ Hydrated(w, <<"report">>)
    BY <1>2, <1>6, <2>1, UpdatesParts
  <2>2. CASE Return(w) /\ UNCHANGED objs
    BY <1>7, <2>2 DEF Return
  <2> QED
    BY <1>8, <2>1, <2>2 DEF Fetch, HydrateFail, FetchFail, apiVars
<1>9. ASSUME NEW w \in Workers, ApplyDoc(w) PROVE AppliedInv'
  <2>0. /\ w \in Reconcilers /\ at[w] \in 1 .. NDocs
        /\ \A d \in 1 .. at[w] - 1 : objs[d] = snap[w].spec
    BY <1>9 DEF ApplyDoc, TypeInv, PlaceInv, AppliedInv
  <2>1. UNCHANGED snap /\ \A d \in 1 .. NDocs : objs'[d] = IF d = at[w] THEN snap[w].spec ELSE objs[d]
    BY <1>9 DEF ApplyDoc, CreateOrUpdate, TypeInv, TypeOK
  <2>2. \A d \in 1 .. at[w] : objs'[d] = snap'[w].spec
    BY <2>0, <2>1, SBConstantsAssumption
  <2>3. CASE at[w] < NDocs /\ at' = [at EXCEPT ![w] = @ + 1] /\ UNCHANGED <<pc, todo, tries>>
    <3>1. pc'[w] = "apply" /\ at'[w] - 1 = at[w]
      BY <1>9, <2>0, <2>3 DEF ApplyDoc, TypeInv, TypeOK
    <3> QED
      BY <2>0, <2>2, <3>1 DEF AppliedInv, OneReconciler
  <2>4. CASE at[w] = NDocs /\ Update(w, <<"True">>) /\ UNCHANGED at
    <3>1. pc'[w] = "get"
      BY <2>4 DEF Update, Goto, TypeInv, TypeOK
    <3> QED
      BY <2>0, <2>2, <2>4, <3>1 DEF AppliedInv, OneReconciler
  <2> QED
    BY <1>9, <2>3, <2>4 DEF ApplyDoc
<1>10. ASSUME NEW w \in Workers, ApplyFail(w) PROVE AppliedInv'
  <2>1. w \in Reconcilers /\ pc'[w] = "get" /\ todo'[w] = <<"False">>
    BY <1>10 DEF ApplyFail, Update, Goto, TypeInv, TypeOK, PlaceInv
  <2> QED
    BY <1>1, <1>2, <2>1 DEF GoesOn, OneReconciler
<1>11. ASSUME NEW w \in Workers, Put(w) \/ PutConflict(w) \/ UpdateFail(w) PROVE AppliedInv'
  <2>1. pc[w] \in {"get", "put"} /\ UNCHANGED objs
    BY <1>11 DEF Put, PutConflict, UpdateFail, apiVars
  <2>2. CASE AfterUpdate(w)
    <3>1. ASSUME NEW r \in Reconcilers PROVE GoesOn(r)
      BY <1>2, <2>1, <2>2, AfterUpdateKeeps DEF GoesOn
    <3> QED
      BY <1>1, <3>1
  <2>3. CASE Goto(w, "get") /\ UNCHANGED <<snap, todo, at>>
    <3>1. ASSUME NEW r \in Reconcilers PROVE GoesOn(r)
      BY <1>2, <2>1, <2>3 DEF GoesOn, Goto, TypeInv, TypeOK
    <3> QED
      BY <1>1, <3>1
  <2> QED
    BY <1>11, <2>2, <2>3 DEF Put, PutConflict, UpdateFail
<1>12. ASSUME NEW ws \in Replicas, Crash(ws) PROVE AppliedInv'
  BY <1>7, <1>12 DEF Crash, apiVars
<1>13. CASE Minute
  <2>1. \A v \in Workers : snap'[v].spec = snap[v].spec
    BY <1>13, AgedType DEF Minute, TypeInv, TypeOK
  <2> QED
    BY <1>1, <1>2, <1>13, <2>1 DEF Minute, GoesOn
<1>14. CASE \/ \E ws \in Replicas : Sync(ws)
            \/ Resync \/ ExpireAbandoned \/ ExpireHeld \/ Edit \/ Revert
  BY <1>3, <1>14 DEF Sync, Resync, ExpireAbandoned, ExpireHeld, Edit, Revert, apiVars, localVars
<1> QED
  BY <1>4, <1>5, <1>8, <1>9, <1>10, <1>11, <1>12, <1>13, <1>14 DEF Next, Work, Disturbed

\* No fault is taken back.
LEMMA SpentGrows ==
  ASSUME TypeInv, [Next]_vars
  PROVE  spent'["revert"] = 0 => spent["revert"] = 0
<1>1. spent \in [Faults -> Nat]
  BY DEF TypeInv, TypeOK
<1>2. ASSUME NEW f \in Faults, Spend(f) PROVE spent'["revert"] >= spent["revert"]
  BY <1>1, <1>2, SpendCounts DEF Faults
<1>3. \/ UNCHANGED spent
      \/ \E f \in Faults : Spend(f)
  BY DEF Next, Work, Disturbed, Obtain, Fetch, ApplyDoc, Get, Put, PutConflict, Finish,
         ObtainReplyLost, FetchFail, HydrateFail, ApplyFail, UpdateFail, FinishReleaseLost,
         Sync, Crash, Resync, Minute, Edit, Revert, ExpireAbandoned, ExpireHeld, vars, Faults
<1> QED
  BY <1>1, <1>2, <1>3 DEF Faults

\* With one reconciler every step but a revert keeps the history in order.
LEMMA HistoryStep ==
  ASSUME TypeInv, TypeInv', OneReconciler, HistoryInv, [Next]_vars, spent'["revert"] = 0
  PROVE  HistoryInv'
<1>1. AgeInv' /\ \A k \in Specs : Settled(k) => Settled(k)'
  BY ForwardStep, ForwardKeeps DEF HistoryInv
<1>2. AppliedInv'
  BY AppliedStep DEF HistoryInv
<1>3. ASSUME NEW w \in Reconcilers, Records(w), NEW k \in Specs, k = snap[w].spec PROVE Settled(k)'
  <2>1. w \in Workers /\ Home(w) \in Replicas /\ k \in Nat
    BY HomeType DEF Workers, Specs
  <2>2. /\ \A d \in 1 .. NDocs : objs[d] = k
        /\ k <= cache[Home(w)].spec
    BY <1>3 DEF Records, HistoryInv, AppliedInv, AgeInv, Busy
  <2>3. UNCHANGED <<objs, cache>> /\ pc'[w] \notin Busy
    BY <1>3 DEF Records, Put
  <2>4. \A d \in 1 .. NDocs : k <= objs'[d]
    BY <2>1, <2>2, <2>3
  <2>5. \A r \in Reconcilers : k <= cache'[Home(r)].spec /\ pc'[r] \notin Busy
    BY <2>2, <2>3 DEF OneReconciler
  <2> QED
    BY <2>4, <2>5 DEF Settled, Home
<1>4. ASSUME NEW k \in Specs, (CalculateHash(k) \in Hashes)' PROVE Settled(k)'
  <2>1. CalculateHash(k) \in Hashes' /\ CalculateHash(k) # NoHash
    BY <1>4, HashInjective DEF CalculateHash
  <2>2. CASE CalculateHash(k) \in Hashes
    BY <1>1, <2>2 DEF HistoryInv, RecordInv
  <2>3. ASSUME NEW w \in Reconcilers, Records(w), CalculateHash(k) = CalculateHash(snap[w].spec)
        PROVE  Settled(k)'
    <3>1. snap[w].spec \in Specs
      BY SpecTypes DEF Workers
    <3>2. k = snap[w].spec
      BY <2>3, <3>1, HashInjective
    <3> QED
      BY <1>3, <2>3, <3>2
  <2> QED
    BY <2>1, <2>2, <2>3, HashesStep
<1>5. RecordInv'
  BY <1>4 DEF RecordInv, CalculateHash
<1> QED
  BY <1>1, <1>2, <1>5 DEF HistoryInv

\* Nothing has been recorded at the start.
LEMMA InitHistoryInv == Init => HistoryInv
<1> SUFFICES ASSUME Init PROVE HistoryInv
  OBVIOUS
<1>1. NewObject.spec = 1 /\ NewObject.status.hash = NoHash
  BY DEF NewObject, EmptyStatus
<1>2. AgeInv /\ AppliedInv
  BY <1>1 DEF Init, AgeInv, AppliedInv, Busy, Workers
<1>3. Hashes \subseteq {NoHash}
  BY <1>1 DEF Init, Hashes
<1> QED
  BY <1>2, <1>3, HashInjective DEF HistoryInv, RecordInv

\* What is settled at the current spec is in sync with it.
LEMMA HistoryMeansInSync ==
  ASSUME TypeInv, HistoryInv, ~HasSpecChanged(Object)
  PROVE  InSync
<1>1. spec \in Specs /\ spec \in Nat /\ \A d \in 1 .. NDocs : objs[d] \in Nat
  BY SpecTypes DEF TypeInv, TypeOK, Object, Objects
<1>2. CalculateHash(spec) \in Hashes
  BY DEF HasSpecChanged, Object, Hashes
<1>3. ASSUME NEW d \in 1 .. NDocs PROVE objs[d] = spec
  <2>1. objs[d] <= spec /\ spec <= objs[d]
    BY <1>1, <1>2 DEF HistoryInv, AgeInv, RecordInv, Settled
  <2> QED
    BY <1>1, <2>1
<1> QED
  BY <1>3 DEF InSync

\* A status that says the current spec is applied is true: with one reconciler
\* and any number of observers, documents, edits, failures, crashes and expired
\* locks, as long as the user goes back to no earlier spec.  The lock plays no
\* part in it.
THEOREM RecordsAreTrue == OneReconciler => (Spec => []NeverFalselyApplied)
<1> SUFFICES ASSUME OneReconciler PROVE Spec => []NeverFalselyApplied
  OBVIOUS
<1> DEFINE Inv == /\ TypeInv /\ LockProofs!LockInv
                  /\ spent["revert"] = 0 => HistoryInv
<1>1. Init => Inv
  BY InitTypeInv, LockInvInductive, InitHistoryInv
<1>2. Inv /\ [Next]_vars => Inv'
  <2> SUFFICES ASSUME Inv, [Next]_vars PROVE Inv'
    OBVIOUS
  <2>1. LockProofs!LockInv'
    BY LockInvInductive
  <2>2. Lock!LockTypeOK'
    BY <2>1 DEF LockProofs!LockInv, LockProofs!LockTypeOK, Lock!LockTypeOK
  <2>3. TypeInv'
    BY <2>2, NextTypeInv
  <2>4. spent'["revert"] = 0 => spent["revert"] = 0
    BY SpentGrows
  <2>5. spent'["revert"] = 0 => HistoryInv'
    BY <2>3, <2>4, HistoryStep
  <2> QED
    BY <2>1, <2>3, <2>5
<1>3. Inv => NeverFalselyApplied
  BY HistoryMeansInSync DEF NeverFalselyApplied, Undisturbed
<1> QED
  BY <1>1, <1>2, <1>3, PTL DEF Spec
=============================================================================
