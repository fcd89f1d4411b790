----------------------- MODULE RequestedBackupAction ------------------------
(***************************************************************************)
(* One RequestedBackupAction object and the two controllers that work on   *)
(* it: RequestedBackupActionReconciler, which creates its Jobs once, and   *)
(* JobsManagedByRequestedBackupActionObserver, which reports their health. *)
(* Each controller of each replica is one worker (MaxConcurrentReconciles  *)
(* is 1); the workers share the Redis locker (RedisLocker) and the API     *)
(* server, and are interleaved at every call to either of them.            *)
(*                                                                         *)
(* The API server's resourceVersion is kept as `fresh`: the workers whose  *)
(* last Get is still the current version.  A worker's work queue is one    *)
(* bit, since all keys but this object's are left out.                     *)
(***************************************************************************)
EXTENDS HealthReport, FiniteSets, FiniteSetsExt, SequencesExt

CONSTANTS Reconcilers,  \* the RequestedBackupActionReconciler of each replica
          Observers,    \* the jobs observer of each replica
          Replicas,     \* the processes: sets of workers that crash together
          Docs,         \* the Jobs the template renders: a sequence of [named]
          RetrySteps,   \* attempts of retry.DefaultRetry (5 in client-go)
          Budget,       \* the bound on each fault
          MaxFaults,    \* the bound on all faults together
          Key, None

Workers == Reconcilers \cup Observers

Faults == {"crash",     \* a replica dies and is restarted
           "overrun",   \* a session outlives the 60 s lease of its lock
           "lock",      \* the answer of Obtain, or the Release, is lost
           "fetch",     \* an object of the aggregate cannot be fetched
           "apply",     \* rendering or a call of CreateOrUpdate fails
           "applyLost", \* Create took effect but answered with an error
           "status",    \* a Get or UpdateStatus of a status update fails
           "list",      \* Jobs cannot be listed
           "touch"}     \* somebody else edits the object

ASSUME ConstantsAssumption ==
    /\ Reconcilers \cap Observers = {}
    /\ None \notin Workers /\ None # Key
    /\ Replicas \subseteq SUBSET Workers
    /\ Docs \in Seq([named : BOOLEAN]) /\ Docs # <<>>
    /\ RetrySteps \in Nat \ {0}
    /\ Budget \in [Faults -> Nat] /\ MaxFaults \in Nat

VARIABLES
    store, session, overrun,   \* the Redis locker
    status,   \* .status of the object in the API server
    fresh,    \* workers whose last Get returned the current resourceVersion
    objs,     \* the objects created so far: [doc, tid, phase]
    issued,   \* tracking ids issued so far
    pending,  \* workers whose queue holds a request for the object
    pc,       \* where each worker is in its Reconcile
    snap,     \* the .status of the worker's aggregate: what it will write
    at,       \* the document or the reference the worker is at
    tries,    \* conflicts met by its status update
    spent     \* faults so far

lockVars == <<store, session, overrun>>
apiVars == <<status, fresh, objs, issued>>
localVars == <<pc, snap, at, tries>>
vars == <<lockVars, apiVars, localVars, pending, spent>>

Lock == INSTANCE RedisLocker WITH Procs <- Workers, Keys <- {Key}

Steps == {"idle", "fetch", "apply", "list", "get", "put", "done"}

Refs == [doc : 1 .. Len(Docs), tid : Nat]
Status == [processed : BOOLEAN,
           cond : {"none", "True", "False"},     \* BackupObjectsInstallation
           refs : Seq(Refs),                     \* OwnedReferences
           report : Seq([tid : Nat, verdict : Verdicts]),
           healthy : BOOLEAN]

EmptyStatus == [processed |-> FALSE, cond |-> "none", refs |-> <<>>,
                report |-> <<>>, healthy |-> FALSE]

\* A new object, just listed by the informers of every replica.
Init ==
    /\ Lock!LockInit
    /\ status = EmptyStatus /\ fresh = {} /\ objs = <<>> /\ issued = 0
    /\ pending = Workers
    /\ pc = [w \in Workers |-> "idle"]
    /\ snap = [w \in Workers |-> EmptyStatus]
    /\ at = [w \in Workers |-> 0]
    /\ tries = [w \in Workers |-> 0]
    /\ spent = [f \in Faults |-> 0]

Goto(w, step) == pc' = [pc EXCEPT ![w] = step]

\* One more fault f, within the bounds.
Spend(f) == /\ spent[f] < Budget[f]
            /\ MapThenSumSet(LAMBDA g : spent[g], Faults) < MaxFaults
            /\ spent' = [spent EXCEPT ![f] = @ + 1]

Requeue(w) == pending' = pending \cup {w}

\* The locals of a Reconcile that is over are forgotten.
Forget(ws, step) ==
    /\ pc' = [w \in Workers |-> IF w \in ws THEN step ELSE pc[w]]
    /\ snap' = [w \in Workers |-> IF w \in ws THEN EmptyStatus ELSE snap[w]]
    /\ at' = [w \in Workers |-> IF w \in ws THEN 0 ELSE at[w]]
    /\ tries' = [w \in Workers |-> IF w \in ws THEN 0 ELSE tries[w]]

\* Reconcile returns; only the deferred Done is left.
Return(w) == Forget({w}, "done")

-----------------------------------------------------------------------------
(* Reconcile of either controller: the lock and the aggregate.             *)

\* Mutant of Obtain: the answer "Already locked" is overlooked.
ObtainOverlooked(w) ==
    /\ pc[w] = "idle" /\ w \in pending
    /\ Lock!ObtainNoNX(w, Key)
    /\ pending' = pending \ {w}
    /\ Goto(w, "fetch")
    /\ UNCHANGED <<apiVars, snap, at, tries, spent>>

\* A worker takes the request off its queue and gets the lock.  Answered
\* "Already locked" or with an error it puts the request back, and nothing
\* has changed.
Obtain(w) ==
    /\ pc[w] = "idle" /\ w \in pending
    /\ Lock!Obtain(w, Key)
    /\ pending' = pending \ {w}
    /\ Goto(w, "fetch")
    /\ UNCHANGED <<apiVars, snap, at, tries, spent>>

\* Obtain fails although Redis holds the token; the request is put back.
ObtainReplyLost(w) ==
    /\ pc[w] = "idle" /\ w \in pending
    /\ Lock!ObtainReplyLost(w, Key)
    /\ Spend("lock")
    /\ UNCHANGED <<apiVars, localVars, pending>>

\* The worker has the aggregate with the status s and goes on with step.
Enter(w, s, step) ==
    /\ snap' = [snap EXCEPT ![w] = s]
    /\ at' = [at EXCEPT ![w] = 1]
    /\ Goto(w, step)
    /\ UNCHANGED tries

\* Mutant of FetchReconciler: WasAlreadyProcessed is not asked.
FetchAlways(w) == Enter(w, status, "apply")

\* The reconciler stops here if the action was performed already.
FetchReconciler(w) == \/ status.processed /\ Return(w)
                      \/ ~status.processed /\ Enter(w, status, "apply")

\* The observer starts an empty report; without references it is complete.
FetchObserver(w) ==
    Enter(w, [status EXCEPT !.report = <<>>, !.healthy = TRUE],
          IF status.refs = <<>> THEN "get" ELSE "list")

\* FetchRBAAggregate: a live Get of the object; the rest is hydrated after it.
Fetch(w) ==
    /\ pc[w] = "fetch"
    /\ \/ w \in Reconcilers /\ FetchReconciler(w)
       \/ w \in Observers /\ FetchObserver(w)
    /\ UNCHANGED <<lockVars, apiVars, pending, spent>>

\* The object or a dependency is missing: the error requeues the request.
FetchFail(w) ==
    /\ pc[w] = "fetch"
    /\ Spend("fetch")
    /\ Requeue(w)
    /\ Return(w)
    /\ UNCHANGED <<lockVars, apiVars>>

-----------------------------------------------------------------------------
(* ApplyObjects.                                                           *)

\* The index of the object a named document would update, if there is one.
Existing(d) == {i \in DOMAIN objs : Docs[d].named /\ objs[i].doc = d}

\* CreateOrUpdate: a generateName document is created every time, a named one
\* is created or, if it exists, updated: it then carries the new tracking id.
CreateOrUpdate(d) ==
    /\ issued' = issued + 1
    /\ objs' = IF Existing(d) = {}
                 THEN Append(objs, [doc |-> d, tid |-> issued + 1, phase |-> "pending"])
                 ELSE [i \in DOMAIN objs |-> IF i \in Existing(d)
                          THEN [objs[i] EXCEPT !.tid = issued + 1] ELSE objs[i]]

\* addChildReferences
WithReference(s, d) == [s EXCEPT !.refs = Append(@, [doc |-> d, tid |-> issued + 1])]

\* Mutant of AfterApply: MarkAsProcessed one document too early.
MarkedEarly(s, d) ==
    IF d + 1 >= Len(Docs) THEN [s EXCEPT !.processed = TRUE, !.cond = "True"] ELSE s

\* After the last document: MarkAsProcessed and the condition "True".
AfterApply(s, d) ==
    IF d = Len(Docs) THEN [s EXCEPT !.processed = TRUE, !.cond = "True"] ELSE s

\* One document of the loop is created or updated.
ApplyDoc(w) ==
    LET d == at[w] IN
    /\ pc[w] = "apply"
    /\ CreateOrUpdate(d)
    /\ snap' = [snap EXCEPT ![w] = AfterApply(WithReference(@, d), d)]
    /\ at' = [at EXCEPT ![w] = @ + 1]
    /\ Goto(w, IF d = Len(Docs) THEN "get" ELSE "apply")
    /\ UNCHANGED <<lockVars, status, fresh, tries, pending, spent>>

\* Mutant of Failed: the references collected so far are not written.
FailedForgetsRefs(s) == [s EXCEPT !.cond = "False", !.healthy = FALSE, !.refs = <<>>]

\* Mutant of Failed: a condition status the API does not know.
FailedUnknown(s) == [s EXCEPT !.cond = "Failed", !.healthy = FALSE]

\* The status written after ApplyObjects failed.
Failed(s) == [s EXCEPT !.cond = "False", !.healthy = FALSE]

\* Rendering failed, nothing was rendered, or a call of CreateOrUpdate failed:
\* the status is still written and the returned error requeues the request.
ApplyFail(w) ==
    /\ pc[w] = "apply"
    /\ Spend("apply")
    /\ snap' = [snap EXCEPT ![w] = Failed(@)]
    /\ Requeue(w)
    /\ Goto(w, "get")
    /\ UNCHANGED <<lockVars, apiVars, at, tries>>

\* The same, but the API server did create the object.
ApplyReplyLost(w) ==
    /\ pc[w] = "apply"
    /\ Spend("applyLost")
    /\ CreateOrUpdate(at[w])
    /\ snap' = [snap EXCEPT ![w] = Failed(@)]
    /\ Requeue(w)
    /\ Goto(w, "get")
    /\ UNCHANGED <<lockVars, status, fresh, at, tries>>

-----------------------------------------------------------------------------
(* The observer's report.                                                  *)

\* Mutant of EndOfReport: only failed Jobs count as ended.
EndOfReportFailedOnly(w, s) ==
    \/ (\E e \in Range(s.report) : e.verdict # "failed") /\ Requeue(w) /\ Return(w)
    \/ /\ \A e \in Range(s.report) : e.verdict = "failed"
       /\ snap' = [snap EXCEPT ![w] = s]
       /\ Goto(w, "get")
       /\ UNCHANGED <<at, tries, pending>>

\* The loop is over, at its end or at an error: while a Job runs nothing is
\* written and the request comes back after 10 s.
EndOfReport(w, s) ==
    \/ /\ \E e \in Range(s.report) : e.verdict = "running"
       /\ Requeue(w)
       /\ Return(w)
    \/ /\ \A e \in Range(s.report) : e.verdict # "running"
       /\ snap' = [snap EXCEPT ![w] = s]
       /\ Goto(w, "get")
       /\ UNCHANGED <<at, tries, pending>>

\* One entry of the report; a failed Job makes the object unhealthy.
WithVerdict(s, tid, verdict) ==
    [s EXCEPT !.report = Append(@, [tid |-> tid, verdict |-> verdict]),
              !.healthy = @ /\ verdict # "failed"]

\* The loop goes on with the status s.
NextReference(w, s) ==
    \/ at[w] = Len(s.refs) /\ EndOfReport(w, s)
    \/ /\ at[w] < Len(s.refs)
       /\ snap' = [snap EXCEPT ![w] = s]
       /\ at' = [at EXCEPT ![w] = @ + 1]
       /\ UNCHANGED <<pc, tries, pending>>

\* One round of createOwnedReferencesHealthReport: Jobs are listed by the
\* tracking id.  The observer drops the error that ends the loop.
ListJobs(w) ==
    LET ref == snap[w].refs[at[w]]
        found == {i \in DOMAIN objs : objs[i].tid = ref.tid}
        verdict == GetScheduledJobHealthStatus({objs[i].phase : i \in found})
    IN  /\ pc[w] = "list"
        /\ \/ verdict = "error" /\ EndOfReport(w, [snap[w] EXCEPT !.healthy = FALSE])
           \/ verdict \in Verdicts /\ NextReference(w, WithVerdict(snap[w], ref.tid, verdict))
        /\ UNCHANGED <<lockVars, apiVars, spent>>

\* The API server refuses to list: a shortened, unhealthy report.
ListFail(w) ==
    /\ pc[w] = "list"
    /\ Spend("list")
    /\ EndOfReport(w, [snap[w] EXCEPT !.healthy = FALSE])
    /\ UNCHANGED <<lockVars, apiVars>>

-----------------------------------------------------------------------------
(* The status update of either controller: RetryOnConflict of Get, replace *)
(* the whole .status by the aggregate's, UpdateStatus.                     *)

Get(w) ==
    /\ pc[w] = "get"
    /\ fresh' = fresh \cup {w}
    /\ Goto(w, "put")
    /\ UNCHANGED <<lockVars, status, objs, issued, snap, at, tries, pending, spent>>

\* Get or UpdateStatus fails with another error than a conflict: the update is
\* given up and the error is dropped.
UpdateFail(w) ==
    /\ pc[w] \in {"get", "put"}
    /\ Spend("status")
    /\ Return(w)
    /\ UNCHANGED <<lockVars, apiVars, pending>>

\* A write that changes the object has a new resourceVersion and reaches every
\* work queue.
Modified == fresh' = {} /\ pending' = Workers

\* PUT of the status, with the version the worker read.  A write that changes
\* nothing is no event; the message of a failed installation may differ each time.
UpdateStatus(w, s) ==
    /\ w \in fresh
    /\ status' = s
    /\ \/ /\ s # status \/ (w \in Reconcilers /\ s.cond = "False")
          /\ Modified
       \/ s = status /\ UNCHANGED <<fresh, pending>>

Put(w) ==
    /\ pc[w] = "put"
    /\ UpdateStatus(w, snap[w])
    /\ Return(w)
    /\ UNCHANGED <<lockVars, objs, issued, spent>>

\* Mutant of PutConflict: the update is not retried.
PutConflictGivesUp(w) ==
    /\ pc[w] = "put" /\ w \notin fresh
    /\ Return(w)
    /\ UNCHANGED <<lockVars, apiVars, pending, spent>>

\* Somebody changed the object since the Get: again, RetrySteps times at most.
PutConflict(w) ==
    /\ pc[w] = "put" /\ w \notin fresh
    /\ \/ /\ tries[w] + 1 < RetrySteps
          /\ tries' = [tries EXCEPT ![w] = @ + 1]
          /\ Goto(w, "get")
          /\ UNCHANGED <<snap, at>>
       \/ tries[w] + 1 >= RetrySteps /\ Return(w)
    /\ UNCHANGED <<lockVars, apiVars, pending, spent>>

-----------------------------------------------------------------------------
(* The end of Reconcile: the deferred Done.                                *)

Finish(w) ==
    /\ pc[w] = "done"
    /\ Lock!Done(w)
    /\ Goto(w, "idle")
    /\ UNCHANGED <<apiVars, snap, at, tries, pending, spent>>

FinishReleaseLost(w) ==
    /\ pc[w] = "done"
    /\ Lock!DoneLost(w)
    /\ Spend("lock")
    /\ Goto(w, "idle")
    /\ UNCHANGED <<apiVars, snap, at, tries, pending>>

-----------------------------------------------------------------------------
(* The environment.                                                        *)

\* A replica dies; restarted, its informers list the object.
Crash(ws) ==
    /\ Spend("crash")
    /\ Lock!Crash(ws)
    /\ Forget(ws, "idle")
    /\ pending' = pending \cup ws
    /\ UNCHANGED apiVars

\* The lock's TTL, for a token without a session and for one in use.
ExpireAbandoned ==
    /\ Lock!ExpireAbandoned(Key)
    /\ UNCHANGED <<apiVars, localVars, pending, spent>>

ExpireHeld ==
    /\ Lock!ExpireHeld(Key)
    /\ Spend("overrun")
    /\ UNCHANGED <<apiVars, localVars, pending>>

\* Kubernetes runs the Jobs.  No queue hears of it: addOwnerReferences does not
\* set `controller: true`, and Owns watches controller references only.
JobStep(i) ==
    /\ \E phase \in NextPhases(objs[i].phase) :
           objs' = [objs EXCEPT ![i].phase = phase]
    /\ UNCHANGED <<lockVars, status, fresh, issued, localVars, pending, spent>>

\* A user edits the object: a new resourceVersion, the status as it was.
Touch ==
    /\ Spend("touch")
    /\ Modified
    /\ UNCHANGED <<lockVars, status, objs, issued, localVars>>

\* The informers' periodic resync (SyncPeriod, 10 h by default).
Resync ==
    /\ pending' = Workers
    /\ UNCHANGED <<lockVars, apiVars, localVars, spent>>

-----------------------------------------------------------------------------
\* The steps of a worker that is not disturbed.
Work(w) == \/ Fetch(w) \/ ApplyDoc(w) \/ ListJobs(w)
           \/ Get(w) \/ Put(w) \/ PutConflict(w) \/ Finish(w)

\* The steps of a worker whose call fails.
Disturbed(w) == \/ ObtainReplyLost(w) \/ FetchFail(w)
                \/ ApplyFail(w) \/ ApplyReplyLost(w) \/ ListFail(w)
                \/ UpdateFail(w) \/ FinishReleaseLost(w)

Next == \/ \E w \in Workers : Obtain(w) \/ Work(w) \/ Disturbed(w)
        \/ \E ws \in Replicas : Crash(ws)
        \/ \E i \in DOMAIN objs : JobStep(i)
        \/ ExpireAbandoned \/ ExpireHeld \/ Touch \/ Resync

Spec == Init /\ [][Next]_vars

\* A reconcile function that is not killed runs to its end; Redis applies its
\* TTL; informers resync; Jobs end.  The lock is free time and again, and a
\* worker refused it comes back every 10 s: strong fairness for Obtain.
Fairness ==
    /\ \A w \in Workers : WF_vars(Work(w)) /\ SF_vars(Obtain(w))
    /\ WF_vars(ExpireAbandoned)
    /\ WF_vars(Resync)
    /\ WF_vars(\E i \in DOMAIN objs : JobStep(i))

FairSpec == Spec /\ Fairness

-----------------------------------------------------------------------------
(* Properties.                                                             *)

\* The types of the state: in particular, only statuses the API knows are
\* written, and every reference and every object belongs to a document.
TypeOK ==
    /\ Lock!LockTypeOK
    /\ status \in Status
    /\ fresh \in SUBSET Workers /\ pending \in SUBSET Workers
    /\ objs \in Seq([doc : 1 .. Len(Docs), tid : Nat, phase : Phases])
    /\ issued \in Nat
    /\ pc \in [Workers -> Steps]
    /\ snap \in [Workers -> Status]
    /\ at \in [Workers -> Nat] /\ tries \in [Workers -> Nat]
    /\ spent \in [Faults -> Nat]

Undisturbed(fs) == \A f \in fs : spent[f] = 0

\* As long as no session outlived its lease, no controller undoes another's
\* status: Processed stays set and the references of Jobs are only added to,
\* although each controller replaces the whole .status by its own copy.
StatusMonotone ==
    [][Undisturbed({"overrun"})' =>
          /\ status.processed => status'.processed
          /\ IsPrefix(status.refs, status'.refs)]_vars

\* Processed is set only when every rendered document was applied and the
\* status refers to what it created, whatever failed or crashed before.  (A
\* named object may have been given a later tracking id since.)
ProcessedMeansApplied ==
    status.processed =>
        \A d \in 1 .. Len(Docs) :
            \E ref \in Range(status.refs), i \in DOMAIN objs :
                /\ ref.doc = d /\ objs[i].doc = d
                /\ objs[i].tid = ref.tid \/ Docs[d].named

\* "action already performed, cannot do it once more": a document is created
\* once, however the workers, edits, resyncs and lost locks interleave, as
\* long as the outcome of ApplyObjects is written to the status.
AppliedOnce ==
    Undisturbed(Faults \ {"lock", "fetch", "list", "touch"}) /\ spent["touch"] < RetrySteps =>
        \A i, j \in DOMAIN objs : objs[i].doc = objs[j].doc => i = j

\* README: "All spawned Jobs are watched".  Every object is referred to by the
\* status, or by a worker that is about to write it, also when a later document
\* failed, as long as no update was lost.
Tracked(i) ==
    \/ \E ref \in Range(status.refs) : ref.tid = objs[i].tid
    \/ \E w \in Workers : \E ref \in Range(snap[w].refs) :
           ref.tid = objs[i].tid /\ pc[w] \in {"apply", "get", "put"}

TrackedOrInFlight ==
    Undisturbed({"crash", "overrun", "applyLost", "status"}) /\ spent["touch"] < RetrySteps =>
        \A i \in DOMAIN objs : Tracked(i)

\* A Job once reported as failed is not reported as succeeded later, while no
\* observer outlives its lease.
FailureSticks ==
    [][Undisturbed({"overrun"})' =>
          \A e \in Range(status.report), f \in Range(status'.report) :
              e.tid = f.tid /\ e.verdict = "failed" => f.verdict = "failed"]_vars

\* The action is performed in the end, whatever failed before.
EventuallyProcessed == <>[]status.processed

\* The final verdict on every Job the status refers to is reported in the end.
Reported ==
    \A ref \in Range(status.refs) :
        \E e \in Range(status.report), i \in DOMAIN objs :
            /\ e.tid = ref.tid /\ objs[i].tid = ref.tid
            /\ IsTerminal(objs[i].phase)
            /\ e.verdict = (IF HasFailed(objs[i].phase) THEN "failed" ELSE "succeeded")

EventuallyReported == <>[]Reported

-----------------------------------------------------------------------------
(* What the documentation says and the code does not do.                   *)

Quiet == pending = {} /\ \A w \in Workers : pc[w] = "idle"

\* README: "All spawned Jobs are watched and its status is reported to the
\* .status field": when nothing is left to do, every Job is referred to.
AllJobsWatched == Quiet => \A i \in DOMAIN objs : Tracked(i)

\* The message of the verdict: "All labelled jobs ... succeed".
SucceededMeansComplete ==
    \A e \in Range(status.report), i \in DOMAIN objs :
        e.verdict = "succeeded" /\ objs[i].tid = e.tid => objs[i].phase = "complete"
=============================================================================
