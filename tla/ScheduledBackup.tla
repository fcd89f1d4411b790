-------------------------- MODULE ScheduledBackup ---------------------------
(***************************************************************************)
(* One ScheduledBackup object and the two controllers that work on it:     *)
(* ScheduledBackupReconciler, which applies the rendered documents when    *)
(* the spec has changed, and JobsManagedByScheduledBackupObserver, which   *)
(* writes their health.  Workers, locker and API server are as in          *)
(* RequestedBackupAction, but both controllers read the object from the    *)
(* cache of their process, which lags behind the API server.               *)
(*                                                                         *)
(* Specs are numbered in the order in which users first write them, so an  *)
(* edit is spec + 1.  A document's content is the spec it was rendered     *)
(* from.  updateObject writes the condition and the hash into the object   *)
(* it has just read and leaves .status.ownedReferences alone: that list is *)
(* always empty, and so is the observer's report.                          *)
(***************************************************************************)
EXTENDS Naturals, Sequences, FiniteSetsExt

CONSTANTS Reconcilers,  \* the ScheduledBackupReconciler of each replica
          Observers,    \* the jobs observer of each replica
          Replicas,     \* the processes: disjoint sets of workers
          NDocs,        \* how many documents the template renders
          MaxSpec,      \* the bound on edits of the spec
          RetrySteps,   \* attempts of retry.DefaultRetry (5 in client-go)
          Budget,       \* the bound on each fault
          MaxFaults,    \* the bound on all faults together
          Key, None

Workers == Reconcilers \cup Observers

Faults == {"crash",    \* a replica dies and is restarted
           "overrun",  \* a session outlives the 60 s lease of its lock
           "lock",     \* the answer of Obtain, or the Release, is lost
           "fetch",    \* the object is not there, or the observer cannot hydrate it
           "hydrate",  \* a dependency of the reconciler's aggregate is missing
           "apply",    \* rendering or a call of CreateOrUpdate fails
           "status",   \* a Get or UpdateStatus of a status update fails
           "revert"}   \* the user goes back to an earlier spec

ASSUME SBConstantsAssumption ==
    /\ Reconcilers \cap Observers = {}
    /\ None \notin Workers /\ None # Key
    /\ Replicas \subseteq SUBSET Workers
    /\ \A w \in Workers : \E ws \in Replicas : w \in ws
    /\ \A ws, xs \in Replicas : ws \cap xs # {} => ws = xs
    /\ NDocs \in Nat \ {0} /\ MaxSpec \in Nat \ {0} /\ RetrySteps \in Nat \ {0}
    /\ Budget \in [Faults -> Nat] /\ MaxFaults \in Nat

VARIABLES
    store, session, overrun,   \* the Redis locker
    spec, status,  \* the object in the API server
    fresh,    \* workers whose last Get returned the current resourceVersion
    objs,     \* the spec each document in the cluster was rendered from, or 0
    cache,    \* the object as the informer of each replica knows it
    behind,   \* replicas whose cache is not at the current resourceVersion
    pending,  \* workers whose queue holds a request for the object
    pc,       \* where each worker is in its Reconcile
    snap,     \* what it uses of the object it fetched from the cache
    todo,     \* the status updates ahead of it
    at,       \* the document it applies next
    tries,    \* conflicts met by its status update
    spent     \* faults so far

lockVars == <<store, session, overrun>>
apiVars == <<spec, status, fresh, objs>>
localVars == <<pc, snap, todo, at, tries>>
cacheVars == <<cache, behind>>
vars == <<lockVars, apiVars, cacheVars, pending, localVars, spent>>

Lock == INSTANCE RedisLocker WITH Procs <- Workers, Keys <- {Key}

Specs == 1 .. MaxSpec
Steps == {"idle", "fetch", "apply", "get", "put", "done"}

\* sha256 of the spec's JSON; different specs have different hashes.
CalculateHash(s) == <<s>>
NoHash == <<>>

Status == [hash : {NoHash} \cup {CalculateHash(s) : s \in Specs},
           cond : {"none", "Unknown", "True", "False"},   \* BackupObjectsInstallation
           young : BOOLEAN,     \* Unknown for less than 60 s
           healthy : BOOLEAN]
Objects == [spec : Specs, status : Status]

EmptyStatus == [hash |-> NoHash, cond |-> "none", young |-> FALSE, healthy |-> FALSE]
NewObject == [spec |-> 1, status |-> EmptyStatus]

Object == [spec |-> spec, status |-> status]
Home(w) == CHOOSE ws \in Replicas : w \in ws

\* A new object, just listed by the informers of every replica.
Init ==
    /\ Lock!LockInit
    /\ spec = NewObject.spec /\ status = NewObject.status /\ fresh = {}
    /\ objs = [d \in 1 .. NDocs |-> 0]
    /\ cache = [ws \in Replicas |-> NewObject] /\ behind = {}
    /\ pending = Workers
    /\ pc = [w \in Workers |-> "idle"]
    /\ snap = [w \in Workers |-> NewObject]
    /\ todo = [w \in Workers |-> <<>>]
    /\ at = [w \in Workers |-> 0]
    /\ tries = [w \in Workers |-> 0]
    /\ spent = [f \in Faults |-> 0]

Goto(w, step) == pc' = [pc EXCEPT ![w] = step]

\* One more fault f, within the bounds.
Spend(f) == /\ spent[f] < Budget[f]
            /\ MapThenSumSet(LAMBDA g : spent[g], Faults) < MaxFaults
            /\ spent' = [spent EXCEPT ![f] = @ + 1]

\* The locals of a Reconcile that is over are forgotten.
Forget(ws, step) ==
    /\ pc' = [w \in Workers |-> IF w \in ws THEN step ELSE pc[w]]
    /\ snap' = [w \in Workers |-> IF w \in ws THEN NewObject ELSE snap[w]]
    /\ todo' = [w \in Workers |-> IF w \in ws THEN <<>> ELSE todo[w]]
    /\ at' = [w \in Workers |-> IF w \in ws THEN 0 ELSE at[w]]
    /\ tries' = [w \in Workers |-> IF w \in ws THEN 0 ELSE tries[w]]

\* A write that changes the object has a new resourceVersion.
Modified == fresh' = {} /\ behind' = Replicas

\* Reconcile returns; only the deferred Done is left.
Return(w) == Forget({w}, "done")

\* The worker goes on with the status updates us.
Update(w, us) ==
    /\ todo' = [todo EXCEPT ![w] = us]
    /\ tries' = [tries EXCEPT ![w] = 0]
    /\ Goto(w, "get")

-----------------------------------------------------------------------------
(* Reconcile of either controller: the lock and the aggregate.             *)

Obtain(w) ==
    /\ pc[w] = "idle" /\ w \in pending
    /\ Lock!Obtain(w, Key)
    /\ pending' = pending \ {w}
    /\ Goto(w, "fetch")
    /\ UNCHANGED <<apiVars, cacheVars, snap, todo, at, tries, spent>>

\* Obtain fails although Redis holds the token; the request is put back.
ObtainReplyLost(w) ==
    /\ pc[w] = "idle" /\ w \in pending
    /\ Lock!ObtainReplyLost(w, Key)
    /\ Spend("lock")
    /\ UNCHANGED <<apiVars, cacheVars, pending, localVars>>

\* Mutant of HasSpecChanged: an object that was applied once has not changed.
NeverApplied(b) == b.status.hash = NoHash

HasSpecChanged(b) == CalculateHash(b.spec) # b.status.hash

\* Mutant of IsBeingReconciledAlready: without the limit of 60 s.
IsUnknown(b) == b.status.cond = "Unknown"

IsBeingReconciledAlready(b) == b.status.cond = "Unknown" /\ b.status.young

MustApply(w) == /\ w \in Reconcilers
                /\ HasSpecChanged(cache[Home(w)])
                /\ ~IsBeingReconciledAlready(cache[Home(w)])

\* The reconciler applies the aggregate's spec, the observer writes its status.
Used(w) == IF w \in Reconcilers THEN [NewObject EXCEPT !.spec = cache[Home(w)].spec]
                                ELSE [NewObject EXCEPT !.status = cache[Home(w)].status]

\* The updates after the fetch of the object and its dependencies.
Hydrated(w, us) ==
    /\ snap' = [snap EXCEPT ![w] = Used(w)]
    /\ Update(w, us)
    /\ UNCHANGED <<lockVars, apiVars, cacheVars, pending, at>>

\* The reconciler has nothing to do, or says that it reconciles; the observer
\* has its empty report.
Fetch(w) ==
    /\ pc[w] = "fetch" /\ UNCHANGED spent
    /\ \/ MustApply(w) /\ Hydrated(w, <<"Unknown">>)
       \/ w \in Observers /\ Hydrated(w, <<"report">>)
       \/ /\ w \in Reconcilers /\ ~MustApply(w)
          /\ Return(w)
          /\ UNCHANGED <<lockVars, apiVars, cacheVars, pending>>

\* A dependency is missing: the reconciler still writes Unknown before False.
HydrateFail(w) ==
    /\ pc[w] = "fetch" /\ MustApply(w)
    /\ Spend("hydrate")
    /\ Hydrated(w, <<"Unknown", "False">>)

\* The error requeues the request.
FetchFail(w) ==
    /\ pc[w] = "fetch"
    /\ Spend("fetch")
    /\ Return(w)
    /\ pending' = pending \cup {w}
    /\ UNCHANGED <<lockVars, apiVars, cacheVars>>

-----------------------------------------------------------------------------
(* ApplyObjects.  The documents of a ScheduledBackup have names.           *)

CreateOrUpdate(d, s) == objs' = [objs EXCEPT ![d] = s]

ApplyDoc(w) ==
    /\ pc[w] = "apply"
    /\ CreateOrUpdate(at[w], snap[w].spec)
    /\ \/ /\ at[w] < NDocs
          /\ at' = [at EXCEPT ![w] = @ + 1]
          /\ UNCHANGED <<pc, todo, tries>>
       \/ at[w] = NDocs /\ Update(w, <<"True">>) /\ UNCHANGED at
    /\ UNCHANGED <<lockVars, spec, status, fresh, cacheVars, pending, snap, spent>>

\* Rendering failed, or a document: before or after the API server wrote it.
ApplyFail(w) ==
    /\ pc[w] = "apply"
    /\ Spend("apply")
    /\ UNCHANGED objs \/ CreateOrUpdate(at[w], snap[w].spec)
    /\ Update(w, <<"False">>)
    /\ UNCHANGED <<lockVars, spec, status, fresh, cacheVars, pending, snap, at>>

-----------------------------------------------------------------------------
(* updateObject of the reconciler and updateStatus of the observer: both   *)
(* RetryOnConflict of Get, change, UpdateStatus.                           *)

Get(w) ==
    /\ pc[w] = "get"
    /\ fresh' = fresh \cup {w}
    /\ Goto(w, "put")
    /\ UNCHANGED <<lockVars, spec, status, objs, cacheVars, pending, snap, todo, at, tries, spent>>

\* Mutant of SetStatusCondition: a status the API does not know.
SetUnknownStatus(s, c) == [s EXCEPT !.cond = IF c = "False" THEN "Failed" ELSE c,
                                    !.young = c = "Unknown"]

\* meta.SetStatusCondition: the time of transition is that of a change.
SetStatusCondition(s, c) ==
    [s EXCEPT !.cond = c, !.young = IF s.cond = c THEN @ ELSE c = "Unknown"]

\* Mutant of Updated: the hash of the object that was just read.
UpdatedToLatest(w) ==
    CASE Head(todo[w]) = "report" -> [snap[w].status EXCEPT !.healthy = TRUE]
      [] Head(todo[w]) = "True"   -> [SetStatusCondition(status, "True")
                                         EXCEPT !.hash = CalculateHash(spec)]
      [] OTHER -> SetStatusCondition(status, Head(todo[w]))

\* The reconciler changes the status it has just read; the observer replaces
\* it by that of its aggregate.
Updated(w) ==
    CASE Head(todo[w]) = "report" -> [snap[w].status EXCEPT !.healthy = TRUE]
      [] Head(todo[w]) = "True"   -> [SetStatusCondition(status, "True")
                                         EXCEPT !.hash = CalculateHash(snap[w].spec)]
      [] OTHER -> SetStatusCondition(status, Head(todo[w]))

\* After an update, written or not: the next one; after Unknown ApplyObjects;
\* otherwise the end, and after False the request comes back.
AfterUpdate(w) ==
    /\ \/ Len(todo[w]) > 1 /\ Update(w, Tail(todo[w])) /\ UNCHANGED <<snap, at>>
       \/ /\ todo[w] = <<"Unknown">>
          /\ Goto(w, "apply")
          /\ todo' = [todo EXCEPT ![w] = <<>>]
          /\ at' = [at EXCEPT ![w] = 1]
          /\ tries' = [tries EXCEPT ![w] = 0]
          /\ UNCHANGED snap
       \/ Len(todo[w]) = 1 /\ todo[w] # <<"Unknown">> /\ Return(w)
    /\ pending' = IF Head(todo[w]) = "False" THEN pending \cup {w} ELSE pending

\* PUT of the status, with the version the worker read.  A write that changes
\* nothing keeps the resourceVersion; the message and generation of a condition
\* may differ each time.
UpdateStatus(w, s) ==
    /\ w \in fresh
    /\ status' = s
    /\ \/ (s # status \/ w \in Reconcilers) /\ Modified
       \/ s = status /\ UNCHANGED <<fresh, behind>>

Put(w) ==
    /\ pc[w] = "put"
    /\ UpdateStatus(w, Updated(w))
    /\ AfterUpdate(w)
    /\ UNCHANGED <<lockVars, spec, objs, cache, spent>>

\* Somebody changed the object since the Get: again, RetrySteps times at most.
PutConflict(w) ==
    /\ pc[w] = "put" /\ w \notin fresh
    /\ \/ /\ tries[w] + 1 < RetrySteps
          /\ tries' = [tries EXCEPT ![w] = @ + 1]
          /\ Goto(w, "get")
          /\ UNCHANGED <<pending, snap, todo, at>>
       \/ tries[w] + 1 >= RetrySteps /\ AfterUpdate(w)
    /\ UNCHANGED <<lockVars, apiVars, cacheVars, spent>>

\* Another error than a conflict: the update is given up, the error dropped.
UpdateFail(w) ==
    /\ pc[w] \in {"get", "put"}
    /\ Spend("status")
    /\ AfterUpdate(w)
    /\ UNCHANGED <<lockVars, apiVars, cacheVars>>

-----------------------------------------------------------------------------
(* The end of Reconcile: the deferred Done.                                *)

Finish(w) ==
    /\ pc[w] = "done"
    /\ Lock!Done(w)
    /\ Goto(w, "idle")
    /\ UNCHANGED <<apiVars, cacheVars, pending, snap, todo, at, tries, spent>>

FinishReleaseLost(w) ==
    /\ pc[w] = "done"
    /\ Lock!DoneLost(w)
    /\ Spend("lock")
    /\ Goto(w, "idle")
    /\ UNCHANGED <<apiVars, cacheVars, pending, snap, todo, at, tries>>

-----------------------------------------------------------------------------
(* The environment.                                                        *)

\* The informer of a replica catches up and tells its workers.  (Versions in
\* between are those it would have stopped at earlier.)
Sync(ws) ==
    /\ ws \in behind
    /\ cache' = [cache EXCEPT ![ws] = Object] /\ behind' = behind \ {ws}
    /\ pending' = pending \cup ws
    /\ UNCHANGED <<lockVars, apiVars, localVars, spent>>

\* The informers' periodic resync (SyncPeriod, 10 h by default).
Resync ==
    /\ pending' = Workers
    /\ UNCHANGED <<lockVars, apiVars, cacheVars, localVars, spent>>

Aged(b) == [b EXCEPT !.status.young = FALSE]

\* 60 s pass, for every copy of the object.
Minute ==
    /\ \E b \in {Object} \cup {cache[ws] : ws \in Replicas} \cup {snap[w] : w \in Workers} :
           b.status.young
    /\ status' = Aged(Object).status
    /\ cache' = [ws \in Replicas |-> Aged(cache[ws])]
    /\ snap' = [w \in Workers |-> Aged(snap[w])]
    /\ UNCHANGED <<lockVars, spec, fresh, objs, behind, pending, pc, todo, at, tries, spent>>

\* A user edits the spec.
Edit ==
    /\ spec < MaxSpec
    /\ spec' = spec + 1 /\ Modified
    /\ UNCHANGED <<lockVars, status, objs, cache, pending, localVars, spent>>

Revert ==
    /\ Spend("revert")
    /\ \E s \in 1 .. spec - 1 : spec' = s
    /\ Modified
    /\ UNCHANGED <<lockVars, status, objs, cache, pending, localVars>>

\* A replica dies; restarted, its informers list the object.
Crash(ws) ==
    /\ Spend("crash")
    /\ Lock!Crash(ws)
    /\ Forget(ws, "idle")
    /\ cache' = [cache EXCEPT ![ws] = Object] /\ behind' = behind \ {ws}
    /\ pending' = pending \cup ws
    /\ UNCHANGED apiVars

\* The lock's TTL, for a token without a session and for one in use.
ExpireAbandoned ==
    /\ Lock!ExpireAbandoned(Key)
    /\ UNCHANGED <<apiVars, cacheVars, pending, localVars, spent>>

ExpireHeld ==
    /\ Lock!ExpireHeld(Key)
    /\ Spend("overrun")
    /\ UNCHANGED <<apiVars, cacheVars, pending, localVars>>

-----------------------------------------------------------------------------
\* The steps of a worker that is not disturbed.
Work(w) == Fetch(w) \/ ApplyDoc(w) \/ Get(w) \/ Put(w) \/ PutConflict(w) \/ Finish(w)

\* The steps of a worker whose call fails.
Disturbed(w) == \/ ObtainReplyLost(w) \/ FetchFail(w) \/ HydrateFail(w)
                \/ ApplyFail(w) \/ UpdateFail(w) \/ FinishReleaseLost(w)

Next == \/ \E w \in Workers : Obtain(w) \/ Work(w) \/ Disturbed(w)
        \/ \E ws \in Replicas : Sync(ws) \/ Crash(ws)
        \/ Resync \/ Minute \/ Edit \/ Revert \/ ExpireAbandoned \/ ExpireHeld

Spec == Init /\ [][Next]_vars

\* A reconcile function that is not killed runs to its end; caches catch up and
\* resync; time passes; Redis applies its TTL.  The lock is free time and
\* again, and a worker refused it comes back every 10 s: strong fairness for
\* Obtain.
Fairness ==
    /\ \A w \in Workers : WF_vars(Work(w)) /\ SF_vars(Obtain(w))
    /\ \A ws \in Replicas : WF_vars(Sync(ws))
    /\ WF_vars(Resync) /\ WF_vars(Minute) /\ WF_vars(ExpireAbandoned)

FairSpec == Spec /\ Fairness

-----------------------------------------------------------------------------
(* Properties.                                                             *)

\* The types of the state.
TypeOK ==
    /\ Lock!LockTypeOK
    /\ Object \in Objects
    /\ fresh \in SUBSET Workers /\ pending \in SUBSET Workers
    /\ objs \in [1 .. NDocs -> 0 .. MaxSpec]
    /\ cache \in [Replicas -> Objects] /\ behind \in SUBSET Replicas
    /\ snap \in [Workers -> Objects]
    /\ pc \in [Workers -> Steps]
    /\ todo \in [Workers -> Seq({"Unknown", "True", "False", "report"})]
    /\ at \in [Workers -> Nat] /\ tries \in [Workers -> Nat]
    /\ spent \in [Faults -> Nat]

Undisturbed(fs) == \A f \in fs : spent[f] = 0

\* The cluster holds what the spec asks for.
InSync == \A d \in 1 .. NDocs : objs[d] = spec

\* "Spec not changed": with one replica, and unless the user goes back to an
\* earlier spec, the status never says that the current spec is applied when
\* it is not: not after edits under way, partial failures, crashes or stale
\* writes of the observer.
NeverFalselyApplied ==
    Undisturbed({"revert"}) => (~HasSpecChanged(Object) => InSync)

\* The current spec is applied in the end, whatever failed before.
EventuallyApplied == <>[](Undisturbed({"revert"}) => InSync)

\* A record of it that a stale write of the observer undid is repaired, again
\* and again if need be.
RecordRepaired == []<>(~HasSpecChanged(Object))

-----------------------------------------------------------------------------
(* What the documentation says and the code does not do.                   *)

Quiet == /\ pending = {} /\ \A w \in Workers : pc[w] = "idle"
         /\ behind = {}

\* "HasSpecChanged is telling if the current object's spec differs from the
\* already applied object": also when nothing is left to do.
HashTellsApplied == Quiet => (HasSpecChanged(Object) <=> ~InSync)
=============================================================================
