---------------------------- MODULE RBAJobsProofs ---------------------------
(* Proofs about the Jobs of a RequestedBackupAction: what Processed means, *)
(* that no Job is created twice or lost from sight, and what the reports   *)
(* say of failed Jobs.                                                     *)
EXTENDS RequestedBackupActionProofs

-----------------------------------------------------------------------------
(* The kinds of steps, told apart by what they do to the objects, the      *)
(* status and the workers' copies of it.                                   *)

DocIds == 1 .. Len(Docs)
Object == [doc : DocIds, tid : Nat, phase : Phases]

\* A worker goes on to step with all it has.
Moves(w, step) == Goto(w, step) /\ UNCHANGED <<status, objs, issued, snap, at>>

\* Workers drop what they have.
Leaves(ws, step) == Forget(ws, step) /\ UNCHANGED <<status, objs, issued>>

\* A worker has read the status.
Reads(w, s, step) == /\ pc[w] = "fetch" /\ Enter(w, s, step)
                     /\ UNCHANGED <<status, objs, issued>>

\* What the Jobs with a tracking id amount to.
VerdictOn(tid) ==
    GetScheduledJobHealthStatus({objs[i].phase : i \in {j \in DOMAIN objs : objs[j].tid = tid}})

\* The observer ends its report after an error.
Shortens(w) == /\ pc[w] = "list"
               /\ snap' = [snap EXCEPT ![w] = [snap[w] EXCEPT !.healthy = FALSE]]
               /\ Goto(w, "get")
               /\ UNCHANGED <<status, objs, issued, at>>

\* The observer adds the verdict on the reference it is at.
Judges(w) ==
    LET tid == snap[w].refs[at[w]].tid IN
    /\ pc[w] = "list" /\ VerdictOn(tid) \in Verdicts
    /\ snap' = [snap EXCEPT ![w] = WithVerdict(snap[w], tid, VerdictOn(tid))]
    /\ \/ Goto(w, "get") /\ UNCHANGED at
       \/ UNCHANGED pc /\ at' = [at EXCEPT ![w] = @ + 1]
    /\ UNCHANGED <<status, objs, issued>>

StepKind ==
    \/ UNCHANGED <<status, objs, issued, pc, snap, at>>
    \/ \E w \in Workers : pc[w] \in {"idle", "done"} /\ (Moves(w, "fetch") \/ Moves(w, "idle"))
    \/ \E w \in Workers : pc[w] = "get" /\ Moves(w, "put")
    \/ \E w \in Workers : pc[w] = "put" /\ Moves(w, "get")
    \/ \E ws \in SUBSET Workers : Leaves(ws, "idle") \/ Leaves(ws, "done")
    \/ \E w \in Reconcilers : ~status.processed /\ Reads(w, status, "apply")
    \/ \E w \in Observers, step \in {"list", "get"} :
           Reads(w, [status EXCEPT !.report = <<>>, !.healthy = TRUE], step)
    \/ \E w \in Workers : ApplyDoc(w) \/ ApplyFail(w) \/ ApplyReplyLost(w)
    \/ \E w \in Workers : Shortens(w) \/ Judges(w)
    \/ \E w \in Workers : Put(w)
    \/ \E i \in DOMAIN objs : JobStep(i)

\* Every step is of one of these kinds.
LEMMA StepKinds == TypeInv /\ [Next]_vars => StepKind
<1> SUFFICES ASSUME TypeInv, [Next]_vars PROVE StepKind
  OBVIOUS
<1> USE DEF StepKind
<1>1. CASE UNCHANGED vars
  BY <1>1 DEF vars, apiVars, localVars
<1>2. CASE ExpireAbandoned \/ ExpireHeld \/ Touch \/ Resync \/ \E w \in Workers : ObtainReplyLost(w)
  BY <1>2 DEF ExpireAbandoned, ExpireHeld, Touch, Resync, ObtainReplyLost, apiVars, localVars
<1>3. ASSUME NEW w \in Workers, Obtain(w) \/ Finish(w) \/ FinishReleaseLost(w) \/ Get(w) PROVE StepKind
  BY <1>3 DEF Obtain, Finish, FinishReleaseLost, Get, Moves, apiVars
<1>4. ASSUME NEW w \in Workers, Return(w), UNCHANGED <<status, objs, issued>> PROVE StepKind
  <2>1. Leaves({w}, "done") /\ {w} \in SUBSET Workers
    BY <1>4 DEF Return, Leaves
  <2> QED
    BY <2>1
<1>5. ASSUME NEW w \in Workers, Fetch(w) PROVE StepKind
  BY <1>4, <1>5 DEF Fetch, FetchReconciler, FetchObserver, Reads, apiVars
<1>6. ASSUME NEW w \in Workers, FetchFail(w) \/ UpdateFail(w) PROVE StepKind
  BY <1>4, <1>6 DEF FetchFail, UpdateFail, apiVars
<1>7. ASSUME NEW w \in Workers, PutConflict(w) PROVE StepKind
  BY <1>4, <1>7 DEF PutConflict, Moves, apiVars
<1>8. ASSUME NEW w \in Workers, pc[w] = "list", UNCHANGED apiVars,
             EndOfReport(w, [snap[w] EXCEPT !.healthy = FALSE])
      PROVE  StepKind
  <2>1. CASE Return(w)
    BY <1>4, <1>8, <2>1 DEF apiVars
  <2>2. CASE /\ snap' = [snap EXCEPT ![w] = [snap[w] EXCEPT !.healthy = FALSE]]
             /\ Goto(w, "get") /\ UNCHANGED <<at, tries, pending>>
    <3>1. Shortens(w)
      BY <1>8, <2>2 DEF Shortens, apiVars
    <3> QED
      BY <3>1
  <2> QED
    BY <1>8, <2>1, <2>2 DEF EndOfReport
<1>9. ASSUME NEW w \in Workers, ListFail(w) PROVE StepKind
  BY <1>8, <1>9 DEF ListFail
<1>10. ASSUME NEW w \in Workers, ListJobs(w) PROVE StepKind
  <2> DEFINE tid == snap[w].refs[at[w]].tid
             s == WithVerdict(snap[w], tid, VerdictOn(tid))
  <2>1. /\ pc[w] = "list" /\ UNCHANGED apiVars
        /\ \/ EndOfReport(w, [snap[w] EXCEPT !.healthy = FALSE])
           \/ VerdictOn(tid) \in Verdicts /\ NextReference(w, s)
    BY <1>10 DEF ListJobs, VerdictOn
  <2>2. CASE VerdictOn(tid) \in Verdicts /\ NextReference(w, s)
    <3> HIDE DEF s
    <3>1. CASE Return(w)
      BY <1>4, <2>1, <3>1 DEF apiVars
    <3>2. CASE \/ snap' = [snap EXCEPT ![w] = s] /\ Goto(w, "get") /\ UNCHANGED at
               \/ snap' = [snap EXCEPT ![w] = s] /\ UNCHANGED pc /\ at' = [at EXCEPT ![w] = @ + 1]
      <4>1. Judges(w)
        BY <2>1, <2>2, <3>2 DEF Judges, apiVars, s
      <4> QED
        BY <4>1
    <3> QED
      BY <2>2, <3>1, <3>2 DEF NextReference, EndOfReport
  <2> QED
    BY <1>8, <2>1, <2>2
<1>11. ASSUME NEW ws \in Replicas, Crash(ws) PROVE StepKind
  <2>1. Leaves(ws, "idle") /\ ws \in SUBSET Workers
    BY <1>11, ConstantsAssumption DEF Crash, Leaves, apiVars
  <2> QED
    BY <2>1
<1>12. CASE \/ \E w \in Workers : ApplyDoc(w) \/ ApplyFail(w) \/ ApplyReplyLost(w) \/ Put(w)
            \/ \E i \in DOMAIN objs : JobStep(i)
  BY <1>12
<1> HIDE DEF StepKind
<1> QED
  BY <1>1, <1>2, <1>3, <1>5, <1>6, <1>7, <1>9, <1>10, <1>11, <1>12 DEF Next, Work, Disturbed

-----------------------------------------------------------------------------
(* Lemmas about the objects and the references.                            *)

\* A list that grows by one entry has that entry and those it had.
LEMMA RangeAppend ==
  ASSUME NEW S, NEW s \in Seq(S), NEW e \in S
  PROVE  Range(Append(s, e)) = Range(s) \cup {e}
<1>1. /\ DOMAIN s = 1 .. Len(s) /\ Len(s) \in Nat
      /\ DOMAIN Append(s, e) = 1 .. Len(s) + 1
      /\ \A i \in 1 .. Len(s) : Append(s, e)[i] = s[i]
      /\ Append(s, e)[Len(s) + 1] = e
  BY AppendProperties, LenProperties
<1> QED
  BY <1>1 DEF Range

\* What CreateOrUpdate does to the objects: a new one at the end, or a new
\* tracking id for the one that exists.
LEMMA CreateOrUpdateObjects ==
  ASSUME objs \in Seq(Object), issued \in Nat, NEW d \in DocIds, CreateOrUpdate(d)
  PROVE  /\ issued' = issued + 1
         /\ DOMAIN objs = 1 .. Len(objs) /\ Len(objs) \in Nat
         /\ DOMAIN objs' = IF Existing(d) = {} THEN 1 .. Len(objs) + 1 ELSE 1 .. Len(objs)
         /\ \A i \in DOMAIN objs :
                /\ i \in DOMAIN objs'
                /\ objs'[i].doc = objs[i].doc /\ objs'[i].phase = objs[i].phase
                /\ objs'[i].tid = IF i \in Existing(d) THEN issued + 1 ELSE objs[i].tid
         /\ Existing(d) = {} =>
                objs'[Len(objs) + 1] = [doc |-> d, tid |-> issued + 1, phase |-> "pending"]
<1>1. DOMAIN objs = 1 .. Len(objs) /\ Len(objs) \in Nat
  BY LenProperties
<1>2. \A i \in DOMAIN objs : objs[i] \in Object
  BY <1>1, ElementOfSeq
<1>3. CASE Existing(d) = {}
  <2> DEFINE new == [doc |-> d, tid |-> issued + 1, phase |-> "pending"]
  <2>1. new \in Object
    BY DEF Object, Phases
  <2> HIDE DEF new
  <2>2. objs' = Append(objs, new)
    BY <1>3 DEF CreateOrUpdate, new
  <2>3. /\ DOMAIN objs' = 1 .. Len(objs) + 1
        /\ \A i \in 1 .. Len(objs) : objs'[i] = objs[i]
        /\ objs'[Len(objs) + 1] = new
    BY <1>1, <2>1, <2>2, AppendProperties, LenProperties
  <2> QED
    BY <1>1, <1>3, <2>3 DEF new, CreateOrUpdate
<1>4. CASE Existing(d) # {}
  <2>1. objs' = [i \in DOMAIN objs |-> IF i \in Existing(d)
                    THEN [objs[i] EXCEPT !.tid = issued + 1] ELSE objs[i]]
    BY <1>4 DEF CreateOrUpdate
  <2> QED
    BY <1>1, <1>2, <1>4, <2>1 DEF CreateOrUpdate, Object
<1> QED
  BY <1>3, <1>4

\* A Job that runs keeps its document and tracking id, and a failed pod stays
\* counted.
LEMMA JobStepObjects ==
  ASSUME objs \in Seq(Object), NEW i \in DOMAIN objs, JobStep(i)
  PROVE  /\ DOMAIN objs' = DOMAIN objs
         /\ \A j \in DOMAIN objs : /\ objs'[j].doc = objs[j].doc /\ objs'[j].tid = objs[j].tid
                                   /\ HasFailed(objs[j].phase) => HasFailed(objs'[j].phase)
<1>1. DOMAIN objs = 1 .. Len(objs) /\ \A j \in DOMAIN objs : objs[j] \in Object
  BY ElementOfSeq, LenProperties
<1>2. PICK phase \in NextPhases(objs[i].phase) : objs' = [objs EXCEPT ![i].phase = phase]
  BY DEF JobStep
<1>3. HasFailed(objs[i].phase) => HasFailed(phase)
  BY <1>2 DEF HasFailed, NextPhases
<1> QED
  BY <1>1, <1>2, <1>3 DEF Object

\* Objects do not go away, and keep their documents.  Only named ones get a
\* new tracking id.
ObjectsStay ==
    \A i \in DOMAIN objs : /\ i \in DOMAIN objs' /\ objs'[i].doc = objs[i].doc
                           /\ objs'[i].tid = objs[i].tid \/ Docs[objs[i].doc].named

\* So it is in every step.
LEMMA ObjectsStep == TypeInv /\ [Next]_vars => ObjectsStay
<1> SUFFICES ASSUME TypeInv, [Next]_vars PROVE ObjectsStay
  OBVIOUS
<1>1. objs \in Seq(Object) /\ issued \in Nat
  BY DEF TypeInv, TypeOK, Object, DocIds
<1>2. CASE UNCHANGED objs
  BY <1>2 DEF ObjectsStay
<1>3. ASSUME NEW w \in Workers, ApplyDoc(w) \/ ApplyReplyLost(w) PROVE ObjectsStay
  <2>1. at[w] \in DocIds /\ CreateOrUpdate(at[w])
    BY <1>3 DEF ApplyDoc, ApplyReplyLost, TypeInv, IndexInv, DocIds
  <2> QED
    BY <1>1, <2>1, CreateOrUpdateObjects DEF ObjectsStay, Existing
<1>4. ASSUME NEW i \in DOMAIN objs, JobStep(i) PROVE ObjectsStay
  BY <1>1, <1>4, JobStepObjects DEF ObjectsStay
<1>5. StepKind
  BY StepKinds
<1> QED
  BY <1>2, <1>3, <1>4, <1>5 DEF StepKind, Moves, Leaves, Reads, Shortens, Judges, Put, ApplyFail,
                                apiVars

-----------------------------------------------------------------------------
(* Processed means that every document was applied.                        *)

\* The status s refers to an object of document d.
Backed(s, d) ==
    \E ref \in Range(s.refs), i \in DOMAIN objs :
        /\ ref.doc = d /\ objs[i].doc = d
        /\ objs[i].tid = ref.tid \/ Docs[d].named

\* Also in the copies of the workers, and for the documents before the one the
\* reconciler is at.
BackedInv ==
    /\ status.processed => \A d \in DocIds : Backed(status, d)
    /\ \A w \in Workers :
          /\ pc[w] \in Inside /\ snap[w].processed => \A d \in DocIds : Backed(snap[w], d)
          /\ pc[w] = "apply" => \A d \in 1 .. at[w] - 1 : Backed(snap[w], d)

\* The status s refers to an object that is there after the step.
BackedThen(s, d) ==
    \E ref \in Range(s.refs), i \in DOMAIN objs' :
        /\ ref.doc = d /\ objs'[i].doc = d
        /\ objs'[i].tid = ref.tid \/ Docs[d].named

\* What refers to an object goes on to do so, and so do longer lists.
LEMMA BackedStays ==
  ASSUME ObjectsStay, NEW s, NEW d, Backed(s, d), NEW t, Range(s.refs) \subseteq Range(t.refs)
  PROVE  BackedThen(t, d)
BY DEF ObjectsStay, Backed, BackedThen

\* The references of a status under the changes a worker makes to it.
LEMMA ReferencesOf ==
  ASSUME NEW s \in Status, NEW d \in DocIds, issued \in Nat
  PROVE  /\ Range(AfterApply(WithReference(s, d), d).refs) =
                Range(s.refs) \cup {[doc |-> d, tid |-> issued + 1]}
         /\ AfterApply(WithReference(s, d), d).processed <=> s.processed \/ d = Len(Docs)
         /\ Failed(s).refs = s.refs /\ Failed(s).processed = s.processed
         /\ [s EXCEPT !.report = <<>>, !.healthy = TRUE].refs = s.refs
         /\ [s EXCEPT !.report = <<>>, !.healthy = TRUE].processed = s.processed
         /\ [s EXCEPT !.healthy = FALSE].refs = s.refs
         /\ [s EXCEPT !.healthy = FALSE].processed = s.processed
         /\ \A tid, verdict : /\ WithVerdict(s, tid, verdict).refs = s.refs
                              /\ WithVerdict(s, tid, verdict).processed = s.processed
<1>1. s.refs \in Seq(Refs) /\ [doc |-> d, tid |-> issued + 1] \in Refs
  BY DEF Status, Refs, DocIds
<1>2. Range(Append(s.refs, [doc |-> d, tid |-> issued + 1])) =
          Range(s.refs) \cup {[doc |-> d, tid |-> issued + 1]}
  BY <1>1, RangeAppend
<1>3. /\ AfterApply(WithReference(s, d), d).refs = Append(s.refs, [doc |-> d, tid |-> issued + 1])
      /\ AfterApply(WithReference(s, d), d).processed <=> s.processed \/ d = Len(Docs)
  BY DEF AfterApply, WithReference, Status
<1>4. /\ Failed(s).refs = s.refs /\ Failed(s).processed = s.processed
      /\ [s EXCEPT !.report = <<>>, !.healthy = TRUE].refs = s.refs
      /\ [s EXCEPT !.report = <<>>, !.healthy = TRUE].processed = s.processed
      /\ [s EXCEPT !.healthy = FALSE].refs = s.refs
      /\ [s EXCEPT !.healthy = FALSE].processed = s.processed
      /\ \A tid, verdict : /\ WithVerdict(s, tid, verdict).refs = s.refs
                           /\ WithVerdict(s, tid, verdict).processed = s.processed
  BY DEF Failed, WithVerdict, Status
<1> QED
  BY <1>2, <1>3, <1>4

\* Every step keeps this.
LEMMA BackedStep == TypeInv /\ BackedInv /\ [Next]_vars => BackedInv'
<1> SUFFICES ASSUME TypeInv, BackedInv, [Next]_vars PROVE BackedInv'
  OBVIOUS
<1> DEFINE Whole(s) == s.processed => \A d \in DocIds : BackedThen(s, d)
           Part(s, n) == \A d \in 1 .. n - 1 : BackedThen(s, d)
<1>0. /\ ObjectsStay /\ StepKind
      /\ status \in Status /\ snap \in [Workers -> Status] /\ pc \in [Workers -> Steps]
      /\ at \in [Workers -> Nat] /\ objs \in Seq(Object) /\ issued \in Nat
      /\ DocIds = 1 .. Len(Docs) /\ Len(Docs) \in Nat
      /\ Reconcilers \subseteq Workers /\ Observers \subseteq Workers
  BY ObjectsStep, StepKinds, ConstantsAssumption, LenProperties
    DEF TypeInv, TypeOK, Object, DocIds, Workers
\* What was backed still is.
<1>1. /\ Whole(status)
      /\ \A w \in Workers : /\ pc[w] \in Inside => Whole(snap[w])
                            /\ pc[w] = "apply" => Part(snap[w], at[w])
  BY <1>0, BackedStays DEF BackedInv
<1>2. ASSUME Whole(status'),
             \A v \in Workers : /\ pc'[v] \in Inside => Whole(snap'[v])
                                /\ pc'[v] = "apply" => Part(snap'[v], at'[v])
      PROVE  BackedInv'
  BY <1>2 DEF BackedInv, DocIds, Backed, BackedThen
<1> DEFINE Same(v) == pc'[v] = pc[v] /\ snap'[v] = snap[v] /\ at'[v] = at[v]
           Out(v) == pc'[v] \notin Inside
           Copy(v) == pc'[v] # "apply" /\ (pc'[v] \in Inside => Whole(snap'[v]))
\* Enough for the steps that apply nothing.
<1>3. ASSUME Whole(status'), \A v \in Workers : Same(v) \/ Out(v) \/ Copy(v) PROVE BackedInv'
  <2>1. ASSUME NEW v \in Workers PROVE /\ pc'[v] \in Inside => Whole(snap'[v])
                                       /\ pc'[v] = "apply" => Part(snap'[v], at'[v])
    <3>1. CASE Same(v)
      BY <1>1, <3>1
    <3>2. CASE Out(v) \/ Copy(v)
      BY <3>2 DEF Inside
    <3> QED
      BY <1>3, <3>1, <3>2
  <2> QED
    BY <1>2, <1>3, <2>1
<1>4. CASE UNCHANGED <<status, objs, issued, pc, snap, at>>
  BY <1>1, <1>3, <1>4
<1>5. ASSUME NEW w \in Workers, pc[w] \in {"idle", "done"}, Moves(w, "fetch") \/ Moves(w, "idle")
      PROVE  BackedInv'
  <2>1. Whole(status')
    BY <1>1, <1>5 DEF Moves
  <2>2. ASSUME NEW v \in Workers PROVE Same(v) \/ Out(v)
    BY <1>0, <1>5 DEF Moves, Goto, Inside
  <2> QED
    BY <1>3, <2>1, <2>2
<1>6. ASSUME NEW w \in Workers, NEW step \in {"get", "put"}, pc[w] \in {"get", "put"}, Moves(w, step)
      PROVE  BackedInv'
  <2>1. Whole(status')
    BY <1>1, <1>6 DEF Moves
  <2>2. ASSUME NEW v \in Workers, v # w PROVE Same(v)
    BY <1>0, <1>6, <2>2 DEF Moves, Goto
  <2>3. pc'[w] = step /\ snap'[w] = snap[w] /\ Whole(snap[w])
    BY <1>0, <1>1, <1>6 DEF Moves, Goto, Inside
  <2>4. Copy(w)
    BY <2>3
  <2> QED
    BY <1>3, <2>1, <2>2, <2>4
<1>7. ASSUME NEW ws \in SUBSET Workers, Leaves(ws, "idle") \/ Leaves(ws, "done") PROVE BackedInv'
  <2>1. Whole(status')
    BY <1>1, <1>7 DEF Leaves
  <2>2. ASSUME NEW v \in Workers PROVE Same(v) \/ Out(v)
    BY <1>7 DEF Leaves, Forget, Inside
  <2> QED
    BY <1>3, <2>1, <2>2
<1>8. ASSUME NEW w \in Reconcilers, Reads(w, status, "apply") PROVE BackedInv'
  <2>1. Whole(status')
    BY <1>1, <1>8 DEF Reads
  <2>2. ASSUME NEW v \in Workers, v # w PROVE Same(v)
    BY <1>0, <1>8, <2>2 DEF Reads, Enter, Goto
  <2>3. snap'[w] = status /\ at'[w] = 1
    BY <1>0, <1>8 DEF Reads, Enter
  <2>4. Whole(snap'[w]) /\ Part(snap'[w], at'[w])
    BY <1>1, <2>3
  <2> QED
    BY <1>1, <1>2, <2>1, <2>2, <2>4
<1>9. ASSUME NEW w \in Observers, NEW step \in {"list", "get"},
             Reads(w, [status EXCEPT !.report = <<>>, !.healthy = TRUE], step)
      PROVE  BackedInv'
  <2>1. Whole(status')
    BY <1>1, <1>9 DEF Reads
  <2>2. ASSUME NEW v \in Workers, v # w PROVE Same(v)
    BY <1>0, <1>9, <2>2 DEF Reads, Enter, Goto
  <2>3. snap'[w] = [status EXCEPT !.report = <<>>, !.healthy = TRUE] /\ pc'[w] = step
    BY <1>0, <1>9 DEF Reads, Enter, Goto
  <2>4. snap'[w].refs = status.refs /\ snap'[w].processed = status.processed
    BY <1>0, <2>3 DEF Status
  <2>5. Copy(w)
    BY <1>1, <2>3, <2>4 DEF BackedThen
  <2> QED
    BY <1>3, <2>1, <2>2, <2>5
<1>10. ASSUME NEW w \in Workers, ApplyDoc(w) PROVE BackedInv'
  <2> DEFINE d0 == at[w]
             s1 == AfterApply(WithReference(snap[w], d0), d0)
  <2>0. d0 \in DocIds /\ CreateOrUpdate(d0) /\ pc[w] = "apply" /\ UNCHANGED status
    BY <1>10 DEF ApplyDoc, TypeInv, IndexInv, DocIds
  <2>1. Whole(status')
    BY <1>1, <2>0
  <2>2. ASSUME NEW v \in Workers, v # w PROVE Same(v)
    BY <1>0, <1>10, <2>2 DEF ApplyDoc, Goto
  <2>3. snap'[w] = s1 /\ at'[w] = d0 + 1
    BY <1>0, <1>10 DEF ApplyDoc
  <2>4. /\ Range(s1.refs) = Range(snap[w].refs) \cup {[doc |-> d0, tid |-> issued + 1]}
        /\ s1.processed <=> snap[w].processed \/ d0 = Len(Docs)
    <3>1. snap[w] \in Status /\ d0 \in DocIds /\ issued \in Nat
      BY <1>0, <2>0
    <3> HIDE DEF d0
    <3> QED
      BY <3>1, ReferencesOf
  <2> HIDE DEF d0, s1
  <2>5. BackedThen(s1, d0)
    <3>1. \E i \in DOMAIN objs' : /\ objs'[i].doc = d0
                                  /\ objs'[i].tid = issued + 1 \/ Docs[d0].named
      <4>1. CASE Existing(d0) = {}
        <5>1. Len(objs) \in Nat /\ DOMAIN objs' = 1 .. Len(objs) + 1
          BY <1>0, <2>0, <4>1, CreateOrUpdateObjects
        <5>2. objs'[Len(objs) + 1] = [doc |-> d0, tid |-> issued + 1, phase |-> "pending"]
          BY <1>0, <2>0, <4>1, CreateOrUpdateObjects
        <5> QED
          BY <5>1, <5>2
      <4>2. ASSUME NEW i \in Existing(d0) PROVE i \in DOMAIN objs' /\ objs'[i].doc = d0 /\ Docs[d0].named
        BY <1>0, <2>0, CreateOrUpdateObjects DEF Existing
      <4> QED
        BY <4>1, <4>2
    <3>2. \E ref \in Range(s1.refs) : ref.doc = d0 /\ ref.tid = issued + 1
      <4>1. [doc |-> d0, tid |-> issued + 1] \in Range(s1.refs)
        BY <2>4
      <4> QED
        BY <4>1
    <3> QED
      BY <3>1, <3>2 DEF BackedThen
  <2>6. \A d : BackedThen(snap[w], d) => BackedThen(s1, d)
    BY <2>4 DEF BackedThen
  <2>7. \A d \in 1 .. d0 : BackedThen(s1, d)
    BY <1>0, <1>1, <2>0, <2>5, <2>6 DEF d0
  <2>8. Whole(s1) /\ Part(s1, d0 + 1)
    BY <1>0, <1>1, <2>0, <2>4, <2>6, <2>7 DEF Inside
  <2> QED
    BY <1>1, <1>2, <2>1, <2>2, <2>3, <2>8
<1>11. ASSUME NEW w \in Workers, ApplyFail(w) \/ ApplyReplyLost(w) PROVE BackedInv'
  <2>1. Whole(status')
    BY <1>1, <1>11 DEF ApplyFail, ApplyReplyLost, apiVars
  <2>2. ASSUME NEW v \in Workers, v # w PROVE Same(v)
    BY <1>0, <1>11, <2>2 DEF ApplyFail, ApplyReplyLost, Goto
  <2>3. snap'[w] = Failed(snap[w]) /\ pc'[w] = "get" /\ pc[w] \in Inside
    BY <1>0, <1>11 DEF ApplyFail, ApplyReplyLost, Goto, Inside
  <2>4. snap'[w].refs = snap[w].refs /\ snap'[w].processed = snap[w].processed
    BY <1>0, <2>3 DEF Failed, Status
  <2>5. Copy(w)
    BY <1>1, <2>3, <2>4 DEF BackedThen
  <2> QED
    BY <1>3, <2>1, <2>2, <2>5
<1>12. ASSUME NEW w \in Workers, Shortens(w) \/ Judges(w) PROVE BackedInv'
  <2>1. Whole(status')
    BY <1>1, <1>12 DEF Shortens, Judges
  <2>2. ASSUME NEW v \in Workers, v # w PROVE Same(v)
    BY <1>0, <1>12, <2>2 DEF Shortens, Judges, Goto
  <2>3. pc'[w] \in {"list", "get"} /\ pc[w] \in Inside
    BY <1>0, <1>12 DEF Shortens, Judges, Goto, Inside
  <2>4. snap'[w].refs = snap[w].refs /\ snap'[w].processed = snap[w].processed
    <3>1. 1 \in DocIds
      BY <1>0, ConstantsAssumption, EmptySeq
    <3>2. snap[w] \in Status
      BY <1>0
    <3>3. CASE snap'[w] = [snap[w] EXCEPT !.healthy = FALSE]
      BY <1>0, <3>1, <3>2, <3>3, ReferencesOf
    <3>4. ASSUME NEW tid, NEW verdict, snap'[w] = WithVerdict(snap[w], tid, verdict)
          PROVE  snap'[w].refs = snap[w].refs /\ snap'[w].processed = snap[w].processed
      BY <1>0, <3>1, <3>2, <3>4, ReferencesOf
    <3>5. \/ snap' = [snap EXCEPT ![w] = [snap[w] EXCEPT !.healthy = FALSE]]
          \/ \E tid, verdict : snap' = [snap EXCEPT ![w] = WithVerdict(snap[w], tid, verdict)]
      BY <1>12 DEF Shortens, Judges
    <3>6. \/ snap'[w] = [snap[w] EXCEPT !.healthy = FALSE]
          \/ \E tid, verdict : snap'[w] = WithVerdict(snap[w], tid, verdict)
      BY <1>0, <3>5
    <3> QED
      BY <3>3, <3>4, <3>6
  <2>5. Copy(w)
    BY <1>1, <2>3, <2>4 DEF BackedThen
  <2> QED
    BY <1>3, <2>1, <2>2, <2>5
<1>13. ASSUME NEW w \in Workers, Put(w) PROVE BackedInv'
  <2>1. status' = snap[w] /\ pc[w] \in Inside /\ Forget({w}, "done")
    BY <1>13 DEF Put, UpdateStatus, Return, Inside
  <2>2. ASSUME NEW v \in Workers PROVE Same(v) \/ Out(v)
    BY <2>1 DEF Forget, Inside
  <2>3. Whole(status')
    BY <1>1, <2>1
  <2> QED
    BY <1>3, <2>2, <2>3
<1>14. ASSUME NEW i \in DOMAIN objs, JobStep(i) PROVE BackedInv'
  BY <1>1, <1>3, <1>14 DEF JobStep, localVars
<1> QED
  BY <1>0, <1>4, <1>5, <1>6, <1>7, <1>8, <1>9, <1>10, <1>11, <1>12, <1>13, <1>14 DEF StepKind

\* Processed is set only when every rendered document was applied and is
\* referred to, whatever failed, crashed or outlived its lock.
THEOREM ProcessedIsTrue == Spec => []ProcessedMeansApplied
<1>1. Init => BackedInv
  BY DEF Init, BackedInv, EmptyStatus, Inside
<1>2. BackedInv => ProcessedMeansApplied
  BY DEF BackedInv, ProcessedMeansApplied, Backed, DocIds
<1>3. BaseInv => TypeInv
  BY DEF BaseInv
<1> QED
  BY <1>1, <1>2, <1>3, BackedStep, InitBaseInv, NextBaseInv, PTL DEF Spec

-----------------------------------------------------------------------------
(* Conflicts of a status update.  Without an overrun they all come from    *)
(* edits of users: there are at least as many edits as conflicts.          *)

ConflictInv ==
    spent["overrun"] = 0 =>
        \A w \in Workers :
            /\ pc[w] \notin {"get", "put"} => tries[w] = 0
            /\ tries[w] <= spent["touch"]
            /\ pc[w] = "put" /\ w \notin fresh => tries[w] + 1 <= spent["touch"]

\* Faults are only added.
LEMMA FaultsGrow ==
  ASSUME TypeInv, [Next]_vars
  PROVE  \A f \in Faults : spent[f] \in Nat /\ spent'[f] \in Nat /\ spent'[f] >= spent[f]
<1>1. spent \in [Faults -> Nat]
  BY DEF TypeInv, TypeOK
<1>2. spent' = spent \/ \E f \in Faults : Spend(f)
  BY DEF Next, Work, Disturbed, vars, Obtain, ObtainReplyLost, Fetch, FetchFail, Faults,
         ApplyDoc, ApplyFail, ApplyReplyLost, ListJobs, ListFail, Get, UpdateFail, Put, UpdateStatus,
         PutConflict, Finish, FinishReleaseLost, Crash, JobStep, ExpireAbandoned, ExpireHeld,
         Touch, Resync
<1>3. ASSUME NEW f \in Faults, Spend(f) PROVE spent' = [spent EXCEPT ![f] = @ + 1]
  BY <1>3 DEF Spend
<1> QED
  BY <1>1, <1>2, <1>3

\* Every step keeps the count of conflicts.
LEMMA ConflictStep == BaseInv /\ ConflictInv /\ [Next]_vars => ConflictInv'
<1> SUFFICES ASSUME BaseInv, ConflictInv, [Next]_vars, spent'["overrun"] = 0, NEW v \in Workers
             PROVE  /\ pc'[v] \notin {"get", "put"} => tries'[v] = 0
                    /\ tries'[v] <= spent'["touch"]
                    /\ pc'[v] = "put" /\ v \notin fresh' => tries'[v] + 1 <= spent'["touch"]
  BY DEF ConflictInv
<1> DEFINE Goal == /\ pc'[v] \notin {"get", "put"} => tries'[v] = 0
                   /\ tries'[v] <= spent'["touch"]
                   /\ pc'[v] = "put" /\ v \notin fresh' => tries'[v] + 1 <= spent'["touch"]
<1>0. /\ TypeInv /\ pc \in [Workers -> Steps] /\ tries \in [Workers -> Nat] /\ tries[v] \in Nat
      /\ snap \in [Workers -> Status]
  BY DEF BaseInv, TypeInv, TypeOK
<1>1. /\ spent["overrun"] = 0
      /\ spent["touch"] \in Nat /\ spent'["touch"] \in Nat /\ spent'["touch"] >= spent["touch"]
  BY <1>0, FaultsGrow DEF Faults
<1>2. /\ pc[v] \notin {"get", "put"} => tries[v] = 0
      /\ tries[v] <= spent["touch"]
      /\ pc[v] = "put" /\ v \notin fresh => tries[v] + 1 <= spent["touch"]
  BY <1>1 DEF ConflictInv
\* A worker that stays where it is, with what it has read as fresh as before.
<1>3. ASSUME pc'[v] = pc[v], tries'[v] = tries[v], pc[v] = "put" /\ v \in fresh => v \in fresh' PROVE Goal
  BY <1>0, <1>1, <1>2, <1>3
\* A worker that goes on to another step than "put".
<1>4. ASSUME pc'[v] # "put", tries'[v] = tries[v], pc'[v] = "get" \/ pc[v] \notin {"get", "put"} PROVE Goal
  BY <1>0, <1>1, <1>2, <1>4
\* A worker that starts again.
<1>5. ASSUME pc'[v] # "put", tries'[v] = 0 PROVE Goal
  BY <1>1, <1>5
<1> SUFFICES Goal
  OBVIOUS
<1> HIDE DEF Goal
<1>6. ASSUME NEW ws, NEW step \in {"idle", "done"}, Forget(ws, step), fresh' = fresh PROVE Goal
  BY <1>3, <1>5, <1>6 DEF Forget
<1>7. CASE UNCHANGED vars
  BY <1>3, <1>7 DEF vars, apiVars, localVars
<1>8. CASE \/ ExpireAbandoned \/ ExpireHeld \/ Resync
           \/ \E w \in Workers : ObtainReplyLost(w)
           \/ \E i \in DOMAIN objs : JobStep(i)
  BY <1>3, <1>8 DEF ExpireAbandoned, ExpireHeld, Resync, ObtainReplyLost, JobStep, apiVars, localVars
<1>9. CASE Touch
  <2>1. spent' = [spent EXCEPT !["touch"] = @ + 1] /\ UNCHANGED <<pc, tries>>
    BY <1>9 DEF Touch, Spend, localVars
  <2>2. spent'["touch"] = spent["touch"] + 1
    BY <2>1 DEF BaseInv, TypeInv, TypeOK, Faults
  <2> QED
    BY <1>0, <1>1, <1>2, <2>1, <2>2 DEF Goal
<1>10. ASSUME NEW w \in Workers, Obtain(w) \/ Finish(w) \/ FinishReleaseLost(w) PROVE Goal
  <2>1. UNCHANGED <<fresh, tries>>
    BY <1>10 DEF Obtain, Finish, FinishReleaseLost, apiVars
  <2>2. pc'[v] = pc[v] \/ (pc'[v] # "put" /\ pc[v] \notin {"get", "put"})
    BY <1>0, <1>10 DEF Obtain, Finish, FinishReleaseLost, Goto
  <2> QED
    BY <1>3, <1>4, <2>1, <2>2
<1>11. ASSUME NEW w \in Workers, pc[w] \notin {"get", "put"}, UNCHANGED <<fresh, tries>>,
              NEW step \in Steps \ {"put"}, Goto(w, step)
       PROVE  Goal
  BY <1>0, <1>3, <1>4, <1>11 DEF Goto
<1>12. ASSUME NEW w \in Workers, Fetch(w) PROVE Goal
  <2>1. UNCHANGED fresh /\ pc[w] = "fetch"
    BY <1>12 DEF Fetch, apiVars
  <2>2. CASE Return(w)
    BY <1>6, <2>1, <2>2 DEF Return
  <2>3. ASSUME NEW s, NEW step \in Steps \ {"put"}, Enter(w, s, step) PROVE Goal
    BY <1>11, <2>1, <2>3 DEF Enter
  <2> QED
    BY <1>12, <2>2, <2>3 DEF Fetch, FetchReconciler, FetchObserver, Steps
<1>13. ASSUME NEW w \in Workers, FetchFail(w) \/ UpdateFail(w) PROVE Goal
  BY <1>6, <1>13 DEF FetchFail, UpdateFail, Return, apiVars
<1>14. ASSUME NEW w \in Workers, ApplyDoc(w) \/ ApplyFail(w) \/ ApplyReplyLost(w) PROVE Goal
  BY <1>11, <1>14 DEF ApplyDoc, ApplyFail, ApplyReplyLost, apiVars, Steps
<1>15. ASSUME NEW w \in Workers, pc[w] = "list", UNCHANGED fresh, NEW s, EndOfReport(w, s) PROVE Goal
  BY <1>6, <1>11, <1>15 DEF EndOfReport, Return, Steps
<1>16. ASSUME NEW w \in Workers, ListJobs(w) \/ ListFail(w) PROVE Goal
  <2>1. pc[w] = "list" /\ UNCHANGED fresh
    BY <1>16 DEF ListJobs, ListFail, apiVars
  <2>2. \E s : NextReference(w, s) \/ EndOfReport(w, s)
    BY <1>16 DEF ListJobs, ListFail
  <2> QED
    BY <1>3, <1>15, <2>1, <2>2 DEF NextReference
<1>17. ASSUME NEW w \in Workers, Get(w) PROVE Goal
  <2>1. UNCHANGED tries /\ fresh' = fresh \cup {w} /\ Goto(w, "put")
    BY <1>17 DEF Get
  <2>2. CASE v = w
    BY <1>0, <1>1, <1>2, <2>1, <2>2 DEF Goal, Goto
  <2>3. CASE v # w
    BY <1>0, <1>3, <2>1, <2>3 DEF Goto
  <2> QED
    BY <2>2, <2>3
<1>18. ASSUME NEW w \in Workers, Put(w) PROVE Goal
  <2>1. Forget({w}, "done") /\ pc[w] = "put"
    BY <1>18 DEF Put, Return
  <2>2. CASE v = w
    BY <1>5, <2>1, <2>2 DEF Forget
  <2>3. CASE v # w
    <3>1. pc[v] # "put"
      BY <1>1, <2>1, <2>3, OneInside
    <3> QED
      BY <1>3, <2>1, <2>3, <3>1 DEF Forget
  <2> QED
    BY <2>2, <2>3
<1>19. ASSUME NEW w \in Workers, PutConflict(w) PROVE Goal
  <2>1. UNCHANGED fresh /\ pc[w] = "put" /\ w \notin fresh
    BY <1>19 DEF PutConflict, apiVars
  <2>2. CASE Return(w)
    BY <1>6, <2>1, <2>2 DEF Return
  <2>3. CASE tries' = [tries EXCEPT ![w] = @ + 1] /\ Goto(w, "get")
    <3>1. CASE v = w
      BY <1>0, <1>1, <1>2, <2>1, <2>3, <3>1 DEF Goal, Goto
    <3>2. CASE v # w
      BY <1>0, <1>3, <2>1, <2>3, <3>2 DEF Goto
    <3> QED
      BY <3>1, <3>2
  <2> QED
    BY <1>19, <2>2, <2>3 DEF PutConflict
<1>20. ASSUME NEW ws \in Replicas, Crash(ws) PROVE Goal
  BY <1>6, <1>20 DEF Crash, apiVars
<1> QED
  BY <1>7, <1>8, <1>9, <1>10, <1>12, <1>13, <1>14, <1>16, <1>17, <1>18, <1>19, <1>20
    DEF Next, Work, Disturbed

-----------------------------------------------------------------------------
(* No Job is lost from sight.                                              *)

Flight == {"apply", "get", "put"}   \* the steps of a worker that is to write

Refers(s, t) == \E ref \in Range(s.refs) : ref.tid = t

\* The status, or a worker that is to write it, refers to the tracking id t.
Known(t) == \/ Refers(status, t)
            \/ \E w \in Workers : pc[w] \in Flight /\ Refers(snap[w], t)

\* No update is lost.
NoneLost == Undisturbed({"crash", "overrun", "applyLost", "status"}) /\ spent["touch"] < RetrySteps

\* A list of references keeps those of its prefixes.
LEMMA PrefixRange ==
  ASSUME NEW S, NEW s \in Seq(S), NEW t \in Seq(S), IsPrefix(s, t)
  PROVE  Range(s) \subseteq Range(t)
<1>1. Len(s) \in Nat /\ Len(t) \in Nat /\ Len(s) <= Len(t) /\ s = SubSeq(t, 1, Len(s))
  BY LenProperties DEF IsPrefix
<1>2. DOMAIN s = 1 .. Len(s) /\ DOMAIN t = 1 .. Len(t)
  BY LenProperties
<1>3. \A i \in 1 .. Len(s) : t[i] \in S
  BY <1>1, ElementOfSeq
<1>4. \A i \in 1 .. Len(s) : SubSeq(t, 1, Len(s))[i] = t[i]
  BY <1>1, <1>3, SubSeqProperties
<1>5. \A i \in DOMAIN s : i \in DOMAIN t /\ s[i] = t[i]
  BY <1>1, <1>2, <1>4
<1> QED
  BY <1>5 DEF Range

\* What is known stays known when no update is lost.
LEMMA KnownStays ==
  ASSUME BaseInv, SnapInv, ConflictInv, [Next]_vars, NoneLost', NEW t, Known(t)
  PROVE  Known(t)'
<1>0. /\ TypeInv /\ pc \in [Workers -> Steps] /\ snap \in [Workers -> Status] /\ status \in Status
      /\ tries \in [Workers -> Nat] /\ issued \in Nat /\ spent \in [Faults -> Nat]
      /\ RetrySteps \in Nat
  BY ConstantsAssumption DEF BaseInv, TypeInv, TypeOK
<1>1. /\ spent'["crash"] = 0 /\ spent'["overrun"] = 0 /\ spent'["status"] = 0
      /\ spent'["touch"] < RetrySteps
  BY DEF NoneLost, Undisturbed
<1>2. /\ spent["overrun"] = 0 /\ spent["touch"] < RetrySteps
      /\ spent["touch"] \in Nat /\ spent'["touch"] \in Nat
  BY <1>0, <1>1, FaultsGrow DEF Faults
\* Enough for the steps that write no status.
<1>3. ASSUME status' = status,
             \A w \in Workers : pc[w] \in Flight =>
                 pc'[w] \in Flight /\ Range(snap[w].refs) \subseteq Range(snap'[w].refs)
      PROVE  Known(t)'
  BY <1>3 DEF Known, Refers
<1>4. ASSUME NEW w \in Workers, pc[w] \notin Flight, NEW step, Forget({w}, step), status' = status
      PROVE  Known(t)'
  BY <1>3, <1>4 DEF Forget
<1>5. ASSUME NEW w \in Workers, pc[w] \notin Flight, status' = status,
             \A v \in Workers \ {w} : pc'[v] = pc[v] /\ snap'[v] = snap[v]
      PROVE  Known(t)'
  BY <1>3, <1>5
<1>6. CASE UNCHANGED vars
  BY <1>3, <1>6 DEF vars, apiVars, localVars
<1>7. CASE \/ ExpireAbandoned \/ ExpireHeld \/ Resync \/ Touch
           \/ \E w \in Workers : ObtainReplyLost(w)
           \/ \E i \in DOMAIN objs : JobStep(i)
  BY <1>3, <1>7 DEF ExpireAbandoned, ExpireHeld, Resync, Touch, ObtainReplyLost, JobStep, apiVars,
                    localVars
<1>8. ASSUME NEW w \in Workers, Obtain(w) \/ Finish(w) \/ FinishReleaseLost(w) PROVE Known(t)'
  BY <1>0, <1>5, <1>8 DEF Obtain, Finish, FinishReleaseLost, Goto, apiVars, Flight
<1>9. ASSUME NEW w \in Workers, Fetch(w) \/ FetchFail(w) PROVE Known(t)'
  <2>1. pc[w] = "fetch" /\ status' = status
    BY <1>9 DEF Fetch, FetchFail, apiVars
  <2>2. CASE Return(w)
    BY <1>4, <2>1, <2>2 DEF Return, Flight
  <2>3. ASSUME NEW s, NEW step, Enter(w, s, step) PROVE Known(t)'
    BY <1>0, <1>5, <2>1, <2>3 DEF Enter, Goto, Flight
  <2> QED
    BY <1>9, <2>2, <2>3 DEF Fetch, FetchFail, FetchReconciler, FetchObserver
<1>10. ASSUME NEW w \in Workers, ApplyDoc(w) PROVE Known(t)'
  <2>1. at[w] \in DocIds /\ snap[w] \in Status
    BY <1>0, <1>10 DEF ApplyDoc, TypeInv, IndexInv, DocIds
  <2>2. Range(AfterApply(WithReference(snap[w], at[w]), at[w]).refs) =
            Range(snap[w].refs) \cup {[doc |-> at[w], tid |-> issued + 1]}
    BY <1>0, <2>1, ReferencesOf
  <2>3. /\ status' = status /\ pc'[w] \in Flight
        /\ snap' = [snap EXCEPT ![w] = AfterApply(WithReference(snap[w], at[w]), at[w])]
        /\ \A v \in Workers \ {w} : pc'[v] = pc[v]
    BY <1>0, <1>10 DEF ApplyDoc, Goto, Flight
  <2> QED
    BY <1>0, <1>3, <2>2, <2>3
<1>11. ASSUME NEW w \in Workers, ApplyFail(w) \/ ApplyReplyLost(w) PROVE Known(t)'
  <2>1. Failed(snap[w]).refs = snap[w].refs
    BY <1>0 DEF Failed, Status
  <2>2. /\ status' = status /\ pc'[w] \in Flight
        /\ snap' = [snap EXCEPT ![w] = Failed(snap[w])]
        /\ \A v \in Workers \ {w} : pc'[v] = pc[v]
    BY <1>0, <1>11 DEF ApplyFail, ApplyReplyLost, Goto, Flight, apiVars
  <2> QED
    BY <1>0, <1>3, <2>1, <2>2
<1>12. ASSUME NEW w \in Workers, ListJobs(w) \/ ListFail(w) PROVE Known(t)'
  <2>1. pc[w] = "list" /\ status' = status
    BY <1>12 DEF ListJobs, ListFail, apiVars
  <2>2. \E s : NextReference(w, s) \/ EndOfReport(w, s)
    BY <1>12 DEF ListJobs, ListFail
  <2>3. ASSUME NEW s, NextReference(w, s) \/ EndOfReport(w, s)
        PROVE  \A v \in Workers \ {w} : pc'[v] = pc[v] /\ snap'[v] = snap[v]
    BY <1>0, <2>3 DEF NextReference, EndOfReport, Return, Forget, Goto
  <2> QED
    BY <1>5, <2>1, <2>2, <2>3 DEF Flight
<1>13. ASSUME NEW w \in Workers, Get(w) PROVE Known(t)'
  BY <1>0, <1>3, <1>13 DEF Get, Goto, Flight
<1>14. ASSUME NEW w \in Workers, Put(w) PROVE Known(t)'
  <2>1. status' = snap[w] /\ pc[w] = "put"
    BY <1>14 DEF Put, UpdateStatus
  <2>2. Range(status.refs) \subseteq Range(snap[w].refs)
    <3>1. IsPrefix(status.refs, snap[w].refs) /\ status.refs \in Seq(Refs) /\ snap[w].refs \in Seq(Refs)
      BY <1>0, <1>2, <2>1 DEF SnapInv, Covers, Inside, Status
    <3> QED
      BY <3>1, PrefixRange
  <2>3. \A v \in Workers : pc[v] \in Flight => v = w
    BY <1>2, <2>1, OneInside DEF Flight
  <2>4. Refers(snap[w], t)
    BY <2>2, <2>3 DEF Known, Refers
  <2> QED
    BY <2>1, <2>4 DEF Known, Refers
<1>15. ASSUME NEW w \in Workers, PutConflict(w) PROVE Known(t)'
  <2>1. tries[w] + 1 <= spent["touch"]
    BY <1>2, <1>15 DEF PutConflict, ConflictInv
  <2>2. ~(tries[w] + 1 >= RetrySteps)
    BY <1>0, <1>2, <2>1
  <2>3. Goto(w, "get") /\ UNCHANGED <<status, snap>>
    BY <1>15, <2>2 DEF PutConflict, apiVars
  <2> QED
    BY <1>0, <1>3, <2>3 DEF Goto, Flight
<1>16. ASSUME NEW w \in Workers, UpdateFail(w) PROVE Known(t)'
  BY <1>0, <1>1, <1>16, SpendCounts DEF UpdateFail, Faults
<1>17. ASSUME NEW ws \in Replicas, Crash(ws) PROVE Known(t)'
  BY <1>0, <1>1, <1>17, SpendCounts DEF Crash, Faults
<1> QED
  BY <1>6, <1>7, <1>8, <1>9, <1>10, <1>11, <1>12, <1>13, <1>14, <1>15, <1>16, <1>17
    DEF Next, Work, Disturbed

\* The tracking ids of the objects are those of before, or the one just issued.
LEMMA TidsStep ==
  ASSUME BaseInv, [Next]_vars, NoneLost', NEW i \in DOMAIN objs'
  PROVE  \/ \E j \in DOMAIN objs : objs'[i].tid = objs[j].tid
         \/ objs'[i].tid = issued + 1 /\ \E w \in Workers : ApplyDoc(w)
<1>1. /\ TypeInv /\ objs \in Seq(Object) /\ issued \in Nat /\ StepKind /\ spent \in [Faults -> Nat]
  BY StepKinds DEF BaseInv, TypeInv, TypeOK, Object, DocIds
<1>2. CASE UNCHANGED objs
  BY <1>2
<1>3. ASSUME NEW w \in Workers, ApplyDoc(w)
      PROVE  (\E j \in DOMAIN objs : objs'[i].tid = objs[j].tid) \/ objs'[i].tid = issued + 1
  <2>1. at[w] \in DocIds /\ CreateOrUpdate(at[w])
    BY <1>1, <1>3 DEF ApplyDoc, TypeInv, IndexInv, DocIds
  <2>2. CASE i \in DOMAIN objs
    BY <1>1, <2>1, <2>2, CreateOrUpdateObjects
  <2>3. CASE i \notin DOMAIN objs
    <3>1. Existing(at[w]) = {} /\ i = Len(objs) + 1
      <4>1. /\ DOMAIN objs = 1 .. Len(objs) /\ Len(objs) \in Nat
            /\ Existing(at[w]) = {} => DOMAIN objs' = 1 .. Len(objs) + 1
            /\ Existing(at[w]) # {} => DOMAIN objs' = 1 .. Len(objs)
        BY <1>1, <2>1, CreateOrUpdateObjects
      <4> QED
        BY <2>3, <4>1
    <3>2. objs'[i] = [doc |-> at[w], tid |-> issued + 1, phase |-> "pending"]
      BY <1>1, <2>1, <3>1, CreateOrUpdateObjects
    <3> QED
      BY <3>2
  <2> QED
    BY <2>2, <2>3
<1>4. ASSUME NEW w \in Workers, ApplyReplyLost(w) PROVE FALSE
  <2>1. spent'["applyLost"] > 0
    BY <1>1, <1>4, SpendCounts DEF ApplyReplyLost, Faults
  <2> QED
    BY <2>1 DEF NoneLost, Undisturbed
<1>5. ASSUME NEW k \in DOMAIN objs, JobStep(k) PROVE \E j \in DOMAIN objs : objs'[i].tid = objs[j].tid
  BY <1>1, <1>5, JobStepObjects
<1> QED
  BY <1>1, <1>2, <1>3, <1>4, <1>5
    DEF StepKind, Moves, Leaves, Reads, Shortens, Judges, Put, ApplyFail, apiVars

\* Every object is referred to by the status or by a worker that is about to
\* write it, as long as no update is lost: no crash, no lease outlived, no
\* answer of Create lost, no failed update, and fewer edits of the object than
\* an update has attempts.
THEOREM JobsNotLost == Spec => []TrackedOrInFlight
<1> DEFINE Inv == NoneLost => \A i \in DOMAIN objs : Known(objs[i].tid)
<1>1. Inv <=> TrackedOrInFlight
  BY DEF TrackedOrInFlight, Tracked, Known, Refers, NoneLost, Flight
<1>2. Init => Inv
  BY DEF Init
<1>3. BaseInv /\ SnapInv /\ ConflictInv /\ Inv /\ [Next]_vars => Inv'
  <2> SUFFICES ASSUME BaseInv, SnapInv, ConflictInv, Inv, [Next]_vars, NoneLost', NEW i \in DOMAIN objs'
               PROVE  Known(objs[i].tid)'
    OBVIOUS
  <2>0. NoneLost
    <3>1. TypeInv /\ RetrySteps \in Nat
      BY ConstantsAssumption DEF BaseInv
    <3>2. \A f \in Faults : spent[f] \in Nat /\ spent'[f] \in Nat /\ spent'[f] >= spent[f]
      BY <3>1, FaultsGrow
    <3> QED
      BY <3>1, <3>2 DEF NoneLost, Undisturbed, Faults
  <2>1. ASSUME NEW j \in DOMAIN objs, objs'[i].tid = objs[j].tid PROVE Known(objs[i].tid)'
    <3>1. Known(objs[j].tid)
      BY <2>0
    <3>2. \A t : Known(t) => Known(t)'
      BY KnownStays
    <3>3. ASSUME NEW t, t = objs[j].tid PROVE Known(t)'
      BY <3>1, <3>2, <3>3
    <3> QED
      BY <2>1, <3>3 DEF Known, Refers
  <2>2. ASSUME NEW w \in Workers, ApplyDoc(w), objs'[i].tid = issued + 1 PROVE Known(objs[i].tid)'
    <3>1. at[w] \in DocIds /\ snap \in [Workers -> Status] /\ issued \in Nat /\ pc \in [Workers -> Steps]
      BY <2>2 DEF BaseInv, TypeInv, TypeOK, IndexInv, ApplyDoc, DocIds
    <3>2. Range(AfterApply(WithReference(snap[w], at[w]), at[w]).refs) =
              Range(snap[w].refs) \cup {[doc |-> at[w], tid |-> issued + 1]}
      BY <3>1, ReferencesOf
    <3>3. /\ snap'[w] = AfterApply(WithReference(snap[w], at[w]), at[w])
          /\ pc'[w] \in Flight
      BY <2>2, <3>1 DEF ApplyDoc, Goto, Flight
    <3>4. [doc |-> at[w], tid |-> issued + 1] \in Range(snap'[w].refs)
      BY <3>2, <3>3
    <3>5. \E ref \in Range(snap'[w].refs) : ref.tid = objs'[i].tid
      BY <2>2, <3>4
    <3> QED
      BY <3>3, <3>5 DEF Known, Refers
  <2> QED
    BY <2>1, <2>2, TidsStep
<1>4. Init => ConflictInv
  BY DEF Init, ConflictInv, Faults
<1> HIDE DEF Inv
<1> QED
  BY <1>1, <1>2, <1>3, <1>4, InitBaseInv, NextBaseInv, InitSnapInv, NextSnapInv, ConflictStep, PTL
    DEF Spec

-----------------------------------------------------------------------------
(* No Job is created twice.                                                *)

\* The outcome of ApplyObjects is written to the status, at the first attempt.
Calm == /\ Undisturbed(Faults \ {"lock", "fetch", "list", "touch"})
        /\ spent["touch"] < RetrySteps

\* Reconcilers apply, observers list.
RoleInv == \A w \in Workers : /\ pc[w] = "apply" => w \in Reconcilers
                              /\ pc[w] = "list" => w \in Observers

\* The objects are those of the first documents, in their order, and a
\* reconciler is still at work on them until Processed is set.
OnceInv ==
    /\ \A i \in DOMAIN objs : objs[i].doc = i
    /\ \A r \in Reconcilers : /\ pc[r] = "apply" => Len(objs) = at[r] - 1
                              /\ pc[r] \in {"get", "put"} => snap[r].processed
    /\ \/ status.processed \/ objs = <<>>
       \/ \E r \in Reconcilers : pc[r] \in Flight

\* Every step keeps the roles.
LEMMA RoleStep == TypeInv /\ RoleInv /\ [Next]_vars => RoleInv'
<1> SUFFICES ASSUME TypeInv, RoleInv, [Next]_vars PROVE RoleInv'
  OBVIOUS
<1>0. StepKind /\ pc \in [Workers -> Steps] /\ Reconcilers \subseteq Workers /\ Observers \subseteq Workers
  BY StepKinds DEF TypeInv, TypeOK, Workers
<1>1. ASSUME \A v \in Workers : pc'[v] = pc[v] \/ pc'[v] \notin {"apply", "list"} PROVE RoleInv'
  BY <1>1 DEF RoleInv
<1>2. ASSUME NEW w \in Workers, NEW step \in {"fetch", "idle", "put", "get"}, Goto(w, step) PROVE RoleInv'
  BY <1>0, <1>1, <1>2 DEF Goto
<1>3. ASSUME NEW ws, NEW step \in {"idle", "done"}, Forget(ws, step) PROVE RoleInv'
  BY <1>1, <1>3 DEF Forget
<1>4. ASSUME NEW w \in Reconcilers, Goto(w, "apply") PROVE RoleInv'
  BY <1>0, <1>4 DEF Goto, RoleInv
<1>5. ASSUME NEW w \in Observers, NEW step \in {"list", "get"}, Goto(w, step) PROVE RoleInv'
  BY <1>0, <1>5 DEF Goto, RoleInv
<1>6. ASSUME NEW w \in Workers, ApplyDoc(w) PROVE RoleInv'
  <2>1. w \in Reconcilers
    BY <1>6 DEF ApplyDoc, RoleInv
  <2> QED
    BY <1>2, <1>4, <1>6, <2>1 DEF ApplyDoc
<1>7. ASSUME UNCHANGED pc PROVE RoleInv'
  BY <1>7 DEF RoleInv
<1>8. CASE \/ UNCHANGED <<status, objs, issued, pc, snap, at>>
           \/ \E i \in DOMAIN objs : JobStep(i)
  BY <1>7, <1>8 DEF JobStep, localVars
<1>9. ASSUME NEW w \in Workers, Put(w) PROVE RoleInv'
  BY <1>3, <1>9 DEF Put, Return
<1>10. ASSUME NEW w \in Workers, \/ Moves(w, "fetch") \/ Moves(w, "idle") \/ Moves(w, "get") \/ Moves(w, "put")
                                 \/ ApplyFail(w) \/ ApplyReplyLost(w) \/ Shortens(w)
       PROVE  RoleInv'
  BY <1>2, <1>10 DEF Moves, ApplyFail, ApplyReplyLost, Shortens
<1>11. ASSUME NEW w \in Workers, Judges(w) PROVE RoleInv'
  BY <1>2, <1>7, <1>11 DEF Judges
<1> QED
  BY <1>0, <1>3, <1>4, <1>5, <1>6, <1>8, <1>9, <1>10, <1>11 DEF StepKind, Leaves, Reads, Enter

\* Every step of a calm history keeps the objects in order.
LEMMA OnceStep ==
  ASSUME BaseInv, SnapInv, ConflictInv, RoleInv, OnceInv, [Next]_vars, Calm'
  PROVE  OnceInv'
<1>0. /\ TypeInv /\ pc \in [Workers -> Steps] /\ snap \in [Workers -> Status] /\ status \in Status
      /\ at \in [Workers -> Nat] /\ tries \in [Workers -> Nat] /\ issued \in Nat
      /\ spent \in [Faults -> Nat] /\ objs \in Seq(Object) /\ RetrySteps \in Nat
      /\ Reconcilers \subseteq Workers /\ Reconcilers \cap Observers = {}
  BY ConstantsAssumption DEF BaseInv, TypeInv, TypeOK, Object, DocIds, Workers
<1>1. /\ spent'["crash"] = 0 /\ spent'["overrun"] = 0 /\ spent'["status"] = 0
      /\ spent'["apply"] = 0 /\ spent'["applyLost"] = 0 /\ spent'["touch"] < RetrySteps
  BY DEF Calm, Undisturbed, Faults
<1>2. /\ spent["overrun"] = 0 /\ spent["touch"] < RetrySteps
      /\ spent["touch"] \in Nat /\ spent'["touch"] \in Nat
  BY <1>0, <1>1, FaultsGrow, SMTT(30) DEF Faults
<1>3. DOMAIN objs = 1 .. Len(objs) /\ Len(objs) \in Nat
  BY <1>0, LenProperties
\* Enough for the steps that neither apply nor write.
<1>4. ASSUME UNCHANGED <<status, objs>>,
             \A r \in Reconcilers :
                 \/ pc'[r] = pc[r] /\ at'[r] = at[r] /\ snap'[r] = snap[r]
                 \/ pc[r] \notin Flight /\ pc'[r] \notin Flight
                 \/ pc[r] \in {"get", "put"} /\ pc'[r] \in {"get", "put"} /\ snap'[r] = snap[r]
      PROVE  OnceInv'
  BY <1>4 DEF OnceInv, Flight
<1>5. ASSUME NEW w \in Workers, pc[w] \notin Flight, pc'[w] \notin Flight, UNCHANGED <<status, objs>>,
             \A v \in Workers \ {w} : pc'[v] = pc[v] /\ at'[v] = at[v] /\ snap'[v] = snap[v]
      PROVE  OnceInv'
  BY <1>0, <1>4, <1>5
<1>6. CASE UNCHANGED vars
  BY <1>4, <1>6 DEF vars, apiVars, localVars
<1>7. CASE \/ ExpireAbandoned \/ ExpireHeld \/ Resync \/ Touch
           \/ \E w \in Workers : ObtainReplyLost(w)
  BY <1>4, <1>7 DEF ExpireAbandoned, ExpireHeld, Resync, Touch, ObtainReplyLost, apiVars, localVars
<1>8. ASSUME NEW w \in Workers, Obtain(w) \/ Finish(w) \/ FinishReleaseLost(w) PROVE OnceInv'
  BY <1>0, <1>5, <1>8 DEF Obtain, Finish, FinishReleaseLost, Goto, apiVars, Flight
<1>9. ASSUME NEW w \in Workers, pc[w] \notin Flight, Return(w), UNCHANGED <<status, objs>> PROVE OnceInv'
  BY <1>5, <1>9 DEF Return, Forget, Flight
<1>10. ASSUME NEW w \in Reconcilers, pc[w] = "fetch", ~status.processed, Enter(w, status, "apply"),
              UNCHANGED <<status, objs>>
       PROVE  OnceInv'
  <2>1. \A r \in Reconcilers : r # w => pc[r] = "idle"
    BY <1>0, <1>2, <1>10, OneInside
  <2>2. objs = <<>>
    BY <1>10, <2>1 DEF OnceInv, Flight
  <2>3. Len(objs) = 0
    BY <2>2
  <2>4. pc'[w] = "apply" /\ at'[w] = 1 /\ \A r \in Reconcilers : r # w => pc'[r] = "idle"
    BY <1>0, <1>10, <2>1 DEF Enter, Goto
  <2> QED
    BY <1>10, <2>3, <2>4 DEF OnceInv, Flight
<1>11. ASSUME NEW w \in Observers, pc[w] \notin Flight, UNCHANGED <<status, objs>>,
              \A v \in Workers \ {w} : pc'[v] = pc[v] /\ at'[v] = at[v] /\ snap'[v] = snap[v]
       PROVE  OnceInv'
  BY <1>0, <1>4, <1>11
<1>12. ASSUME NEW w \in Workers, Fetch(w) \/ FetchFail(w) PROVE OnceInv'
  <2>1. pc[w] = "fetch" /\ UNCHANGED <<status, objs>>
    BY <1>12 DEF Fetch, FetchFail, apiVars
  <2>2. CASE Return(w)
    BY <1>9, <2>1, <2>2 DEF Flight
  <2>3. ASSUME NEW s, NEW step, Enter(w, s, step)
        PROVE  \A v \in Workers \ {w} : pc'[v] = pc[v] /\ at'[v] = at[v] /\ snap'[v] = snap[v]
    BY <1>0, <2>3 DEF Enter, Goto
  <2>4. CASE w \in Observers /\ FetchObserver(w)
    BY <1>11, <2>1, <2>3, <2>4 DEF FetchObserver, Flight
  <2>5. CASE w \in Reconcilers /\ FetchReconciler(w)
    BY <1>10, <2>1, <2>2, <2>5 DEF FetchReconciler
  <2> QED
    BY <1>12, <2>2, <2>4, <2>5 DEF Fetch, FetchFail
<1>13. ASSUME NEW w \in Workers, ApplyDoc(w) PROVE OnceInv'
  <2> DEFINE d0 == at[w]
  <2>1. d0 \in DocIds /\ CreateOrUpdate(d0) /\ pc[w] = "apply" /\ w \in Reconcilers
    BY <1>13 DEF ApplyDoc, BaseInv, TypeInv, IndexInv, DocIds, RoleInv
  <2>2. Len(objs) = d0 - 1 /\ d0 \in Nat
    BY <1>0, <2>1 DEF OnceInv
  <2>3. Existing(d0) = {}
    BY <1>3, <2>2 DEF OnceInv, Existing
  <2>4. DOMAIN objs' = 1 .. d0 /\ objs'[d0] = [doc |-> d0, tid |-> issued + 1, phase |-> "pending"]
    <3>1. /\ DOMAIN objs' = 1 .. Len(objs) + 1
          /\ objs'[Len(objs) + 1] = [doc |-> d0, tid |-> issued + 1, phase |-> "pending"]
      BY <1>0, <2>1, <2>3, CreateOrUpdateObjects
    <3>2. Len(objs) + 1 = d0
      BY <2>2
    <3> QED
      BY <3>1, <3>2
  <2>5. \A i \in DOMAIN objs' : objs'[i].doc = i
    <3>1. \A i \in DOMAIN objs : objs'[i].doc = i
      BY <1>0, <2>1, CreateOrUpdateObjects DEF OnceInv
    <3> QED
      BY <1>3, <2>2, <2>4, <3>1
  <2>6. Len(objs') = d0
    <3>1. objs' \in Seq(Object)
      BY <1>0, <2>1, ObjectTypes DEF Object, DocIds
    <3>2. DOMAIN objs' = 1 .. Len(objs') /\ Len(objs') \in Nat
      BY <3>1, LenProperties
    <3> QED
      BY <2>2, <2>4, <3>2
  <2>7. \A r \in Reconcilers : r # w => pc[r] = "idle"
    BY <1>0, <1>2, <2>1, OneInside
  <2>8. /\ pc'[w] = IF d0 = Len(Docs) THEN "get" ELSE "apply"
        /\ at'[w] = d0 + 1 /\ snap'[w] = AfterApply(WithReference(snap[w], d0), d0)
        /\ \A r \in Reconcilers : r # w => pc'[r] = "idle"
    BY <1>0, <1>13, <2>7 DEF ApplyDoc, Goto
  <2>9. d0 = Len(Docs) => snap'[w].processed
    BY <1>0, <2>1, <2>8, ReferencesOf
  <2> HIDE DEF d0
  <2>10. pc'[w] \in Flight /\ (pc'[w] = "apply" => Len(objs') = at'[w] - 1)
    BY <2>2, <2>6, <2>8 DEF Flight
  <2> QED
    BY <2>1, <2>5, <2>8, <2>9, <2>10 DEF OnceInv
<1>14. ASSUME NEW w \in Workers, ListJobs(w) \/ ListFail(w) PROVE OnceInv'
  <2>1. pc[w] = "list" /\ UNCHANGED <<status, objs>> /\ w \in Observers
    BY <1>14 DEF ListJobs, ListFail, apiVars, RoleInv
  <2>2. \E s : NextReference(w, s) \/ EndOfReport(w, s)
    BY <1>14 DEF ListJobs, ListFail
  <2>3. ASSUME NEW s, NextReference(w, s) \/ EndOfReport(w, s)
        PROVE  \A v \in Workers \ {w} : pc'[v] = pc[v] /\ at'[v] = at[v] /\ snap'[v] = snap[v]
    BY <1>0, <2>3 DEF NextReference, EndOfReport, Return, Forget, Goto
  <2> QED
    BY <1>11, <2>1, <2>2, <2>3 DEF Flight
<1>15. ASSUME NEW w \in Workers, NEW step \in {"get", "put"}, pc[w] \in {"get", "put"}, Goto(w, step),
              UNCHANGED <<status, objs, snap, at>>
       PROVE  OnceInv'
  BY <1>0, <1>4, <1>15 DEF Goto
<1>16. ASSUME NEW w \in Workers, Get(w) PROVE OnceInv'
  BY <1>15, <1>16 DEF Get
<1>17. ASSUME NEW w \in Workers, Put(w) PROVE OnceInv'
  <2>1. status' = snap[w] /\ pc[w] = "put" /\ Forget({w}, "done") /\ UNCHANGED objs
    BY <1>17 DEF Put, UpdateStatus, Return
  <2>2. \A r \in Reconcilers : r # w => pc[r] = "idle"
    BY <1>0, <1>2, <2>1, OneInside
  <2>3. \A r \in Reconcilers : pc'[r] \in {"idle", "done"}
    BY <1>0, <2>1, <2>2 DEF Forget
  <2>4. status'.processed \/ objs = <<>>
    <3>1. CASE w \in Reconcilers
      BY <2>1, <3>1 DEF OnceInv
    <3>2. CASE w \notin Reconcilers
      <4>1. status.processed => status'.processed
        BY <1>2, <2>1 DEF SnapInv, Covers, Inside
      <4> QED
        BY <2>2, <3>2, <4>1 DEF OnceInv, Flight
    <3> QED
      BY <3>1, <3>2
  <2> QED
    BY <2>1, <2>3, <2>4 DEF OnceInv
<1>18. ASSUME NEW w \in Workers, PutConflict(w) PROVE OnceInv'
  <2>1. tries[w] + 1 <= spent["touch"]
    BY <1>2, <1>18 DEF PutConflict, ConflictInv
  <2>2. ~(tries[w] + 1 >= RetrySteps)
    BY <1>0, <1>2, <2>1
  <2> QED
    BY <1>15, <1>18, <2>2 DEF PutConflict, apiVars
<1>19. ASSUME NEW w \in Workers, UpdateFail(w) \/ ApplyFail(w) \/ ApplyReplyLost(w) PROVE OnceInv'
  BY <1>0, <1>1, <1>19, SpendCounts DEF UpdateFail, ApplyFail, ApplyReplyLost, Faults
<1>20. ASSUME NEW ws \in Replicas, Crash(ws) PROVE OnceInv'
  BY <1>0, <1>1, <1>20, SpendCounts DEF Crash, Faults
<1>21. ASSUME NEW i \in DOMAIN objs, JobStep(i) PROVE OnceInv'
  <2>1. DOMAIN objs' = DOMAIN objs /\ \A j \in DOMAIN objs : objs'[j].doc = objs[j].doc
    BY <1>0, <1>21, JobStepObjects
  <2>2. UNCHANGED <<status, pc, snap, at>>
    BY <1>21 DEF JobStep, localVars
  <2>3. Len(objs') = Len(objs) /\ objs # <<>>
    BY <1>0, <1>3, <1>21 DEF JobStep
  <2> QED
    BY <2>1, <2>2, <2>3 DEF OnceInv
<1> QED
  BY <1>6, <1>7, <1>8, <1>12, <1>13, <1>14, <1>16, <1>17, <1>18, <1>19, <1>20, <1>21
    DEF Next, Work, Disturbed

\* "action already performed, cannot do it once more": no document is created
\* twice, whatever the number of replicas and however their workers, lost locks,
\* edits and resyncs interleave, as long as the outcome of ApplyObjects is
\* written.
THEOREM JobsCreatedOnce == Spec => []AppliedOnce
<1> DEFINE Inv == Calm => OnceInv
<1>1. Init => Inv /\ RoleInv /\ ConflictInv
  <2>1. Init => OnceInv
    BY DEF Init, OnceInv, Workers, Flight
  <2> QED
    BY <2>1 DEF Init, RoleInv, ConflictInv, Faults
<1>2. BaseInv /\ SnapInv /\ ConflictInv /\ RoleInv /\ Inv /\ [Next]_vars => Inv'
  <2> SUFFICES ASSUME BaseInv, SnapInv, ConflictInv, RoleInv, Inv, [Next]_vars, Calm' PROVE OnceInv'
    OBVIOUS
  <2>1. Calm
    <3>1. TypeInv /\ RetrySteps \in Nat
      BY ConstantsAssumption DEF BaseInv
    <3>2. \A f \in Faults : spent[f] \in Nat /\ spent'[f] \in Nat /\ spent'[f] >= spent[f]
      BY <3>1, FaultsGrow
    <3> QED
      BY <3>1, <3>2 DEF Calm, Undisturbed, Faults
  <2> QED
    BY <2>1, OnceStep
<1>3. Inv => AppliedOnce
  BY DEF AppliedOnce, OnceInv, Calm
<1>4. BaseInv => TypeInv
  BY DEF BaseInv
<1> HIDE DEF Inv
<1> QED
  BY <1>1, <1>2, <1>3, <1>4, RoleStep, ConflictStep, InitBaseInv, NextBaseInv, InitSnapInv,
     NextSnapInv, PTL DEF Spec

-----------------------------------------------------------------------------
(* A failure that was reported stays reported.                             *)

\* What p calls failed, q does not call otherwise.
Agree(p, q) == \A e \in Range(p), f \in Range(q) :
                   e.tid = f.tid /\ e.verdict = "failed" => f.verdict = "failed"

\* A tracking id belongs to one object, and a named document has one object.
TidInv ==
    /\ \A i \in DOMAIN objs : objs[i].tid <= issued
    /\ \A i, j \in DOMAIN objs :
           objs[i].tid = objs[j].tid \/ (objs[i].doc = objs[j].doc /\ Docs[objs[i].doc].named) => i = j

\* The tracking ids of a list of references were issued, each once.
GoodRefs(refs, n) ==
    /\ \A i \in DOMAIN refs : refs[i].tid <= n
    /\ \A i, j \in DOMAIN refs : refs[i].tid = refs[j].tid => i = j

\* The entries of a report are on issued tracking ids, what they call failed
\* has failed, among the objects os, and they do not contradict each other.
GoodReport(report, os, n) ==
    /\ \A e \in Range(report) :
           /\ e.tid <= n
           /\ e.verdict = "failed" => \A i \in DOMAIN os : os[i].tid = e.tid => HasFailed(os[i].phase)
    /\ Agree(report, report)

Sound(s, os, n) == GoodRefs(s.refs, n) /\ GoodReport(s.report, os, n)

\* The status and the copies of it are sound.
SoundInv == Sound(status, objs, issued) /\ \A w \in Workers : Sound(snap[w], objs, issued)

\* The report that an observer is writing is on the references before the one
\* it is at.
ListInv == \A w \in Workers : pc[w] = "list" =>
               \A e \in Range(snap[w].report) : \E k \in 1 .. at[w] - 1 : e.tid = snap[w].refs[k].tid

\* What a worker is going to write agrees with what it replaces.
AgreeInv == spent["overrun"] = 0 =>
                \A w \in Workers : pc[w] \in Inside => Agree(status.report, snap[w].report)

\* What a step does to tracking ids and failures: the objects are those of
\* before, no less failed, or carry the tracking id just issued.
TidsAge ==
    /\ issued' \in {issued, issued + 1}
    /\ \A i \in DOMAIN objs' :
           \/ /\ i \in DOMAIN objs /\ objs'[i].tid = objs[i].tid /\ objs'[i].doc = objs[i].doc
              /\ HasFailed(objs[i].phase) => HasFailed(objs'[i].phase)
           \/ objs'[i].tid = issued + 1 /\ issued' = issued + 1

\* Every step does that, and keeps tracking ids apart.
LEMMA TidStep == TypeInv /\ TidInv /\ [Next]_vars => TidsAge /\ TidInv'
<1> SUFFICES ASSUME TypeInv, TidInv, [Next]_vars PROVE TidsAge /\ TidInv'
  OBVIOUS
<1>0. objs \in Seq(Object) /\ issued \in Nat /\ StepKind /\ \A i \in DOMAIN objs : objs[i].tid \in Nat
  <2>1. objs \in Seq(Object) /\ issued \in Nat /\ StepKind
    BY StepKinds DEF TypeInv, TypeOK, Object, DocIds
  <2>2. \A i \in DOMAIN objs : objs[i] \in Object
    BY <2>1, ElementOfSeq, LenProperties
  <2> QED
    BY <2>1, <2>2 DEF Object
<1>1. ASSUME UNCHANGED <<objs, issued>> PROVE TidsAge /\ TidInv'
  BY <1>1 DEF TidsAge, TidInv
<1>2. ASSUME NEW w \in Workers, ApplyDoc(w) \/ ApplyReplyLost(w) PROVE TidsAge /\ TidInv'
  <2> DEFINE d0 == at[w]
  <2>1. d0 \in DocIds /\ CreateOrUpdate(d0)
    BY <1>2 DEF ApplyDoc, ApplyReplyLost, TypeInv, IndexInv, DocIds
  <2> HIDE DEF d0
  <2>2. /\ issued' = issued + 1
        /\ DOMAIN objs = 1 .. Len(objs) /\ Len(objs) \in Nat
        /\ \A i \in DOMAIN objs : /\ objs'[i].doc = objs[i].doc /\ objs'[i].phase = objs[i].phase
                                  /\ objs'[i].tid = IF i \in Existing(d0) THEN issued + 1 ELSE objs[i].tid
    BY <1>0, <2>1, CreateOrUpdateObjects
  <2>3. CASE Existing(d0) = {}
    <3>1. /\ DOMAIN objs' = 1 .. Len(objs) + 1
          /\ objs'[Len(objs) + 1] = [doc |-> d0, tid |-> issued + 1, phase |-> "pending"]
      BY <1>0, <2>1, <2>3, CreateOrUpdateObjects
    <3>2. \A i \in DOMAIN objs' : i \in DOMAIN objs \/ i = Len(objs) + 1
      BY <2>2, <3>1
    <3>3. objs'[Len(objs) + 1].doc = d0 /\ objs'[Len(objs) + 1].tid = issued + 1
      BY <3>1
    <3>4. \A i \in DOMAIN objs : objs'[i].tid = objs[i].tid /\ objs[i].tid # issued + 1
      BY <1>0, <2>2, <2>3 DEF TidInv
    <3>5. TidsAge
      BY <2>2, <3>2, <3>3, <3>4 DEF TidsAge
    <3>6. \A i \in DOMAIN objs' : objs'[i].tid <= issued'
      BY <1>0, <2>2, <3>2, <3>3, <3>4 DEF TidInv
    <3>7. \A i \in DOMAIN objs : ~(objs[i].doc = d0 /\ Docs[d0].named)
      BY <2>3 DEF Existing
    <3>8. ASSUME NEW i \in DOMAIN objs', NEW j \in DOMAIN objs',
                 \/ objs'[i].tid = objs'[j].tid
                 \/ objs'[i].doc = objs'[j].doc /\ Docs[objs'[i].doc].named
          PROVE  i = j
      <4>1. CASE i \in DOMAIN objs /\ j \in DOMAIN objs
        BY <2>2, <3>4, <3>8, <4>1 DEF TidInv
      <4>2. CASE i \in DOMAIN objs /\ j = Len(objs) + 1
        BY <2>2, <3>3, <3>4, <3>7, <3>8, <4>2
      <4>3. CASE i = Len(objs) + 1 /\ j \in DOMAIN objs
        BY <2>2, <3>3, <3>4, <3>7, <3>8, <4>3
      <4> QED
        BY <3>2, <4>1, <4>2, <4>3
    <3> QED
      BY <3>5, <3>6, <3>8 DEF TidInv
  <2>4. CASE Existing(d0) # {}
    <3>1. DOMAIN objs' = DOMAIN objs
      BY <1>0, <2>1, <2>2, <2>4, CreateOrUpdateObjects
    <3>2. \A i, j \in Existing(d0) : i = j
      BY DEF Existing, TidInv
    <3>3. TidsAge
      BY <2>2, <3>1 DEF TidsAge
    <3>4. \A i \in DOMAIN objs' : objs'[i].tid <= issued'
      BY <1>0, <2>2, <3>1 DEF TidInv
    <3>5. \A i \in DOMAIN objs : objs[i].tid # issued + 1
      BY <1>0 DEF TidInv
    <3>6. ASSUME NEW i \in DOMAIN objs', NEW j \in DOMAIN objs',
                 \/ objs'[i].tid = objs'[j].tid
                 \/ objs'[i].doc = objs'[j].doc /\ Docs[objs'[i].doc].named
          PROVE  i = j
      BY <2>2, <3>1, <3>2, <3>5, <3>6 DEF TidInv
    <3> QED
      BY <3>3, <3>4, <3>6 DEF TidInv
  <2> QED
    BY <2>3, <2>4
<1>3. ASSUME NEW i \in DOMAIN objs, JobStep(i) PROVE TidsAge /\ TidInv'
  <2>1. issued' = issued
    BY <1>3 DEF JobStep
  <2> QED
    BY <1>0, <1>3, <2>1, JobStepObjects DEF TidsAge, TidInv
<1> QED
  BY <1>0, <1>1, <1>2, <1>3 DEF StepKind, Moves, Leaves, Reads, Shortens, Judges, Put, ApplyFail,
                                apiVars

\* What is sound stays sound.
LEMMA SoundStays ==
  ASSUME TypeInv, TidsAge, NEW s \in Status, Sound(s, objs, issued)
  PROVE  Sound(s, objs', issued')
<1>1. issued \in Nat
  BY DEF TypeInv, TypeOK
<1>2. \A i \in DOMAIN s.refs : s.refs[i].tid \in Nat
  <2>1. \A i \in DOMAIN s.refs : s.refs[i] \in Refs
    BY ElementOfSeq, LenProperties DEF Status
  <2> QED
    BY <2>1 DEF Refs
<1>3. \A e \in Range(s.report) : e.tid \in Nat
  <2> DEFINE Entry == [tid : Nat, verdict : Verdicts]
  <2>0. s.report \in Seq(Entry)
    BY DEF Status
  <2>1. \A i \in DOMAIN s.report : s.report[i] \in Entry
    <3> HIDE DEF Entry
    <3> QED
      BY <2>0, ElementOfSeq, LenProperties
  <2> QED
    BY <2>1 DEF Range
<1>4. GoodRefs(s.refs, issued')
  BY <1>1, <1>2 DEF Sound, GoodRefs, TidsAge
<1>5. GoodReport(s.report, objs', issued')
  <2>1. \A e \in Range(s.report) : e.tid <= issued' /\ e.tid # issued + 1
    BY <1>1, <1>3 DEF Sound, GoodReport, TidsAge
  <2>2. ASSUME NEW e \in Range(s.report), e.verdict = "failed", NEW i \in DOMAIN objs',
               objs'[i].tid = e.tid
        PROVE  HasFailed(objs'[i].phase)
    BY <2>1, <2>2 DEF Sound, GoodReport, TidsAge
  <2> QED
    BY <2>1, <2>2 DEF Sound, GoodReport
<1> QED
  BY <1>4, <1>5 DEF Sound

\* A status that differs in neither references nor report is as sound.
LEMMA SoundSame ==
  ASSUME NEW s, NEW t, NEW os, NEW n, Sound(s, os, n), t.refs = s.refs, t.report = s.report
  PROVE  Sound(t, os, n)
BY DEF Sound

\* The status of a new object is sound, and so is one without a report.
LEMMA SoundEmpty ==
  ASSUME NEW os, NEW n
  PROVE  /\ Sound(EmptyStatus, os, n)
         /\ \A s : Sound(s, os, n) /\ s \in Status =>
                Sound([s EXCEPT !.report = <<>>, !.healthy = TRUE], os, n)
<1>1. Range(<<>>) = {} /\ DOMAIN <<>> = {}
  BY DEF Range
<1>2. GoodReport(<<>>, os, n) /\ GoodRefs(<<>>, n)
  BY <1>1 DEF GoodReport, Agree, GoodRefs
<1>3. ASSUME NEW s \in Status, Sound(s, os, n)
      PROVE  Sound([s EXCEPT !.report = <<>>, !.healthy = TRUE], os, n)
  <2>1. /\ [s EXCEPT !.report = <<>>, !.healthy = TRUE].report = <<>>
        /\ [s EXCEPT !.report = <<>>, !.healthy = TRUE].refs = s.refs
    BY DEF Status
  <2> QED
    BY <1>2, <1>3, <2>1 DEF Sound
<1> QED
  BY <1>2, <1>3 DEF Sound, EmptyStatus

\* The reference to the object just applied carries the tracking id just issued.
LEMMA SoundReference ==
  ASSUME NEW s \in Status, NEW d \in DocIds, issued \in Nat, NEW os,
         GoodRefs(s.refs, issued), GoodReport(s.report, os, issued + 1)
  PROVE  Sound(AfterApply(WithReference(s, d), d), os, issued + 1)
<1> DEFINE ref == [doc |-> d, tid |-> issued + 1]
<1>1. s.refs \in Seq(Refs) /\ ref \in Refs
  BY DEF Status, Refs, DocIds
<1>2. /\ AfterApply(WithReference(s, d), d).refs = Append(s.refs, ref)
      /\ AfterApply(WithReference(s, d), d).report = s.report
  BY DEF AfterApply, WithReference, Status
<1>3. ref.tid = issued + 1
  OBVIOUS
<1> HIDE DEF ref
<1>4. /\ DOMAIN s.refs = 1 .. Len(s.refs) /\ Len(s.refs) \in Nat
      /\ DOMAIN Append(s.refs, ref) = 1 .. Len(s.refs) + 1
      /\ \A i \in 1 .. Len(s.refs) : Append(s.refs, ref)[i] = s.refs[i]
      /\ Append(s.refs, ref)[Len(s.refs) + 1] = ref
  BY <1>1, AppendProperties, LenProperties
<1>5. \A i \in DOMAIN s.refs : s.refs[i].tid \in Nat /\ s.refs[i].tid <= issued
  <2>1. \A i \in DOMAIN s.refs : s.refs[i] \in Refs
    BY <1>1, ElementOfSeq, LenProperties
  <2> QED
    BY <2>1 DEF Refs, GoodRefs
<1>6. GoodRefs(Append(s.refs, ref), issued + 1)
  <2>1. \A i \in DOMAIN Append(s.refs, ref) : i \in DOMAIN s.refs \/ i = Len(s.refs) + 1
    BY <1>4
  <2>2. \A i \in DOMAIN Append(s.refs, ref) : Append(s.refs, ref)[i].tid <= issued + 1
    BY <1>3, <1>4, <1>5, <2>1
  <2>3. ASSUME NEW i \in DOMAIN Append(s.refs, ref), NEW j \in DOMAIN Append(s.refs, ref),
               Append(s.refs, ref)[i].tid = Append(s.refs, ref)[j].tid
        PROVE  i = j
    <3>1. CASE i \in DOMAIN s.refs /\ j \in DOMAIN s.refs
      BY <1>4, <2>3, <3>1 DEF GoodRefs
    <3>2. CASE i \in DOMAIN s.refs /\ j = Len(s.refs) + 1
      BY <1>3, <1>4, <1>5, <2>3, <3>2
    <3>3. CASE i = Len(s.refs) + 1 /\ j \in DOMAIN s.refs
      BY <1>3, <1>4, <1>5, <2>3, <3>3
    <3> QED
      BY <2>1, <3>1, <3>2, <3>3
  <2> QED
    BY <2>2, <2>3 DEF GoodRefs
<1> QED
  BY <1>2, <1>6 DEF Sound

\* A verdict on an issued tracking id that the report has no entry on yet: it
\* says failed exactly when the Job has failed.
LEMMA SoundVerdict ==
  ASSUME TidInv, NEW s \in Status, Sound(s, objs, issued),
         NEW tid \in Nat, tid <= issued, VerdictOn(tid) \in Verdicts,
         \A e \in Range(s.report) : e.tid # tid
  PROVE  /\ Sound(WithVerdict(s, tid, VerdictOn(tid)), objs, issued)
         /\ Range(WithVerdict(s, tid, VerdictOn(tid)).report) =
                Range(s.report) \cup {[tid |-> tid, verdict |-> VerdictOn(tid)]}
         /\ (\A i \in DOMAIN objs : objs[i].tid = tid => HasFailed(objs[i].phase))
                <=> VerdictOn(tid) = "failed"
<1> DEFINE v == VerdictOn(tid)
           new == [tid |-> tid, verdict |-> v]
           Entry == [tid : Nat, verdict : Verdicts]
           phases == {objs[i].phase : i \in {j \in DOMAIN objs : objs[j].tid = tid}}
<1>1. s.report \in Seq(Entry) /\ new \in Entry /\ new.tid = tid /\ new.verdict = v
  BY DEF Status
<1>2. /\ WithVerdict(s, tid, v).report = Append(s.report, new)
      /\ WithVerdict(s, tid, v).refs = s.refs
  BY DEF WithVerdict, Status
<1>3. v # "error" /\ v = GetScheduledJobHealthStatus(phases)
  BY DEF VerdictOn, Verdicts
<1>4. (\A i \in DOMAIN objs : objs[i].tid = tid => HasFailed(objs[i].phase)) <=> v = "failed"
  <2>1. phases # {} /\ (v = "failed" <=> \E phase \in phases : HasFailed(phase))
    BY <1>3 DEF GetScheduledJobHealthStatus
  <2>2. \A i, j \in DOMAIN objs : objs[i].tid = tid /\ objs[j].tid = tid => i = j
    BY DEF TidInv
  <2> QED
    BY <2>1, <2>2
<1> HIDE DEF v, new, Entry, phases
<1>5. Range(Append(s.report, new)) = Range(s.report) \cup {new}
  BY <1>1, RangeAppend
<1>6. GoodReport(Append(s.report, new), objs, issued)
  <2>1. GoodReport(s.report, objs, issued)
    BY DEF Sound
  <2>2. Agree(Append(s.report, new), Append(s.report, new))
    BY <1>1, <1>5, <2>1 DEF GoodReport, Agree
  <2> QED
    BY <1>1, <1>4, <1>5, <2>1, <2>2 DEF GoodReport
<1>7. Sound(WithVerdict(s, tid, v), objs, issued)
  BY <1>2, <1>6 DEF Sound
<1> QED
  BY <1>2, <1>4, <1>5, <1>7 DEF v, new

\* What an observer adds to its report.
LEMMA JudgesSound ==
  ASSUME TypeInv, TidInv, SoundInv, ListInv, NEW w \in Workers, Judges(w)
  PROVE  \E tid \in Nat :
            /\ tid = snap[w].refs[at[w]].tid /\ at[w] \in 1 .. Len(snap[w].refs)
            /\ snap' = [snap EXCEPT ![w] = WithVerdict(snap[w], tid, VerdictOn(tid))]
            /\ WithVerdict(snap[w], tid, VerdictOn(tid)).refs = snap[w].refs
            /\ Sound(WithVerdict(snap[w], tid, VerdictOn(tid)), objs, issued)
            /\ Range(WithVerdict(snap[w], tid, VerdictOn(tid)).report) =
                   Range(snap[w].report) \cup {[tid |-> tid, verdict |-> VerdictOn(tid)]}
            /\ (\A i \in DOMAIN objs : objs[i].tid = tid => HasFailed(objs[i].phase))
                   <=> VerdictOn(tid) = "failed"
<1> DEFINE tid == snap[w].refs[at[w]].tid
<1>1. /\ pc[w] = "list" /\ VerdictOn(tid) \in Verdicts
      /\ snap' = [snap EXCEPT ![w] = WithVerdict(snap[w], tid, VerdictOn(tid))]
  BY DEF Judges
<1>2. /\ snap[w] \in Status /\ snap[w].refs \in Seq(Refs) /\ at[w] \in 1 .. Len(snap[w].refs)
      /\ Sound(snap[w], objs, issued)
  BY <1>1 DEF TypeInv, TypeOK, IndexInv, SoundInv, Status
<1>3. DOMAIN snap[w].refs = 1 .. Len(snap[w].refs) /\ Len(snap[w].refs) \in Nat
  BY <1>2, LenProperties
<1>4. snap[w].refs[at[w]] \in Refs
  BY <1>2, ElementOfSeq
<1>5. tid \in Nat /\ tid <= issued
  BY <1>2, <1>3, <1>4 DEF Refs, Sound, GoodRefs
<1>6. \A e \in Range(snap[w].report) : e.tid # tid
  <2>1. ASSUME NEW k \in 1 .. at[w] - 1 PROVE snap[w].refs[k].tid # tid
    <3>1. k \in DOMAIN snap[w].refs /\ at[w] \in DOMAIN snap[w].refs /\ k # at[w]
      BY <1>2, <1>3
    <3> QED
      BY <1>2, <3>1 DEF Sound, GoodRefs
  <2> QED
    BY <1>1, <2>1 DEF ListInv
<1>7. WithVerdict(snap[w], tid, VerdictOn(tid)).refs = snap[w].refs
  BY <1>2 DEF WithVerdict, Status
<1> HIDE DEF tid
<1>8. /\ Sound(WithVerdict(snap[w], tid, VerdictOn(tid)), objs, issued)
      /\ Range(WithVerdict(snap[w], tid, VerdictOn(tid)).report) =
             Range(snap[w].report) \cup {[tid |-> tid, verdict |-> VerdictOn(tid)]}
      /\ (\A i \in DOMAIN objs : objs[i].tid = tid => HasFailed(objs[i].phase))
             <=> VerdictOn(tid) = "failed"
  BY <1>1, <1>2, <1>5, <1>6, SoundVerdict
<1> QED
  BY <1>1, <1>2, <1>5, <1>7, <1>8 DEF tid

\* Every step keeps the copies of the status sound.
LEMMA SoundStep ==
  TypeInv /\ TidInv /\ SoundInv /\ ListInv /\ [Next]_vars => SoundInv' /\ ListInv'
<1> SUFFICES ASSUME TypeInv, TidInv, SoundInv, ListInv, [Next]_vars PROVE SoundInv' /\ ListInv'
  OBVIOUS
<1> DEFINE Good(s) == Sound(s, objs', issued')
<1>0. /\ StepKind /\ TidsAge /\ status \in Status /\ snap \in [Workers -> Status]
      /\ pc \in [Workers -> Steps] /\ at \in [Workers -> Nat] /\ issued \in Nat
      /\ Reconcilers \subseteq Workers /\ Observers \subseteq Workers
  BY StepKinds, TidStep DEF TypeInv, TypeOK, Workers
<1>1. Good(status) /\ \A v \in Workers : Good(snap[v])
  <2>1. ASSUME NEW s \in Status, Sound(s, objs, issued) PROVE Good(s)
    BY <1>0, <2>1, SoundStays
  <2> QED
    BY <1>0, <2>1 DEF SoundInv
<1> HIDE DEF Good
<1>2. ASSUME Good(status'), \A v \in Workers : Good(snap'[v]) PROVE SoundInv'
  BY <1>2 DEF SoundInv, Good
\* A worker that is not listing after the step, or not changed by it.
<1>3. ASSUME Good(status'),
             \A v \in Workers : \/ pc'[v] = pc[v] /\ snap'[v] = snap[v] /\ at'[v] = at[v]
                                \/ pc'[v] # "list" /\ Good(snap'[v])
      PROVE  SoundInv' /\ ListInv'
  <2>1. \A v \in Workers : Good(snap'[v])
    BY <1>1, <1>3
  <2>2. ASSUME NEW v \in Workers, pc'[v] = "list", NEW e \in Range(snap'[v].report)
        PROVE  \E k \in 1 .. at'[v] - 1 : e.tid = snap'[v].refs[k].tid
    <3>1. pc'[v] = pc[v] /\ snap'[v] = snap[v] /\ at'[v] = at[v]
      BY <1>3, <2>2
    <3> QED
      BY <2>2, <3>1 DEF ListInv
  <2> QED
    BY <1>2, <1>3, <2>1, <2>2 DEF ListInv
<1>4. CASE UNCHANGED <<status, objs, issued, pc, snap, at>>
  BY <1>1, <1>3, <1>4
<1>5. ASSUME NEW w \in Workers, NEW step \in {"fetch", "idle", "put", "get"}, Moves(w, step)
      PROVE  SoundInv' /\ ListInv'
  <2>1. UNCHANGED <<status, snap, at>> /\ pc' = [pc EXCEPT ![w] = step]
    BY <1>5 DEF Moves, Goto
  <2> QED
    BY <1>0, <1>1, <1>3, <2>1
<1>6. ASSUME NEW ws \in SUBSET Workers, NEW step \in {"idle", "done"}, Forget(ws, step), Good(status')
      PROVE  SoundInv' /\ ListInv'
  <2>1. Good(EmptyStatus)
    BY SoundEmpty DEF Good
  <2> QED
    BY <1>1, <1>3, <1>6, <2>1 DEF Forget
<1>7. ASSUME NEW w \in Reconcilers, Reads(w, status, "apply") PROVE SoundInv' /\ ListInv'
  BY <1>0, <1>1, <1>3, <1>7 DEF Reads, Enter, Goto
<1>8. ASSUME NEW w \in Observers, NEW step \in {"list", "get"},
             Reads(w, [status EXCEPT !.report = <<>>, !.healthy = TRUE], step)
      PROVE  SoundInv' /\ ListInv'
  <2> DEFINE s1 == [status EXCEPT !.report = <<>>, !.healthy = TRUE]
  <2>1. Good(s1) /\ s1.report = <<>>
    BY <1>0, <1>1, SoundEmpty DEF Status, Good
  <2> HIDE DEF s1
  <2>2. /\ UNCHANGED status /\ snap'[w] = s1
        /\ \A v \in Workers \ {w} : pc'[v] = pc[v] /\ snap'[v] = snap[v] /\ at'[v] = at[v]
    BY <1>0, <1>8 DEF Reads, Enter, Goto, s1
  <2>3. \A v \in Workers : Good(snap'[v])
    BY <1>1, <2>1, <2>2
  <2>4. Range(snap'[w].report) = {}
    BY <2>1, <2>2 DEF Range
  <2>5. ListInv'
    BY <2>2, <2>4 DEF ListInv
  <2> QED
    BY <1>1, <1>2, <2>2, <2>3, <2>5
<1>9. ASSUME NEW w \in Workers, ApplyDoc(w) PROVE SoundInv' /\ ListInv'
  <2> DEFINE s1 == AfterApply(WithReference(snap[w], at[w]), at[w])
  <2>1. at[w] \in DocIds /\ snap[w] \in Status /\ issued' = issued + 1
    BY <1>0, <1>9 DEF ApplyDoc, CreateOrUpdate, TypeInv, IndexInv, DocIds
  <2>2. GoodRefs(snap[w].refs, issued) /\ GoodReport(snap[w].report, objs', issued + 1)
    BY <1>1, <2>1 DEF SoundInv, Sound, Good
  <2>3. Good(s1)
    BY <1>0, <2>1, <2>2, SoundReference DEF Good
  <2> HIDE DEF s1
  <2>4. /\ UNCHANGED status /\ snap'[w] = s1 /\ pc'[w] # "list"
        /\ \A v \in Workers \ {w} : pc'[v] = pc[v] /\ snap'[v] = snap[v] /\ at'[v] = at[v]
    BY <1>0, <1>9 DEF ApplyDoc, Goto, s1
  <2> QED
    BY <1>1, <1>3, <2>3, <2>4
<1>10. ASSUME NEW w \in Workers, NEW s1, snap' = [snap EXCEPT ![w] = s1], Goto(w, "get"),
              s1.refs = snap[w].refs, s1.report = snap[w].report, UNCHANGED <<status, at>>
       PROVE  SoundInv' /\ ListInv'
  <2>1. Good(s1)
    BY <1>1, <1>10, SoundSame DEF Good
  <2>2. /\ snap'[w] = s1 /\ pc'[w] # "list"
        /\ \A v \in Workers \ {w} : pc'[v] = pc[v] /\ snap'[v] = snap[v] /\ at'[v] = at[v]
    BY <1>0, <1>10 DEF Goto
  <2> QED
    BY <1>1, <1>3, <1>10, <2>1, <2>2
<1>11. ASSUME NEW w \in Workers, ApplyFail(w) \/ ApplyReplyLost(w) PROVE SoundInv' /\ ListInv'
  <2>1. Failed(snap[w]).refs = snap[w].refs /\ Failed(snap[w]).report = snap[w].report
    BY <1>0 DEF Failed, Status
  <2> QED
    BY <1>10, <1>11, <2>1 DEF ApplyFail, ApplyReplyLost, apiVars
<1>12. ASSUME NEW w \in Workers, Shortens(w) PROVE SoundInv' /\ ListInv'
  <2>1. /\ [snap[w] EXCEPT !.healthy = FALSE].refs = snap[w].refs
        /\ [snap[w] EXCEPT !.healthy = FALSE].report = snap[w].report
    BY <1>0 DEF Status
  <2> QED
    BY <1>10, <1>12, <2>1 DEF Shortens
<1>13. ASSUME NEW w \in Workers, Judges(w) PROVE SoundInv' /\ ListInv'
  <2>1. PICK tid \in Nat :
            /\ tid = snap[w].refs[at[w]].tid /\ at[w] \in 1 .. Len(snap[w].refs)
            /\ snap' = [snap EXCEPT ![w] = WithVerdict(snap[w], tid, VerdictOn(tid))]
            /\ WithVerdict(snap[w], tid, VerdictOn(tid)).refs = snap[w].refs
            /\ Sound(WithVerdict(snap[w], tid, VerdictOn(tid)), objs, issued)
            /\ Range(WithVerdict(snap[w], tid, VerdictOn(tid)).report) =
                   Range(snap[w].report) \cup {[tid |-> tid, verdict |-> VerdictOn(tid)]}
    BY <1>13, JudgesSound
  <2> DEFINE s1 == WithVerdict(snap[w], tid, VerdictOn(tid))
             new == [tid |-> tid, verdict |-> VerdictOn(tid)]
  <2>2. new.tid = tid
    OBVIOUS
  <2>3. /\ snap' = [snap EXCEPT ![w] = s1] /\ s1.refs = snap[w].refs /\ Sound(s1, objs, issued)
        /\ Range(s1.report) = Range(snap[w].report) \cup {new}
    BY <2>1
  <2> HIDE DEF s1, new
  <2>4. /\ UNCHANGED <<status, objs, issued>> /\ pc[w] = "list" /\ at[w] \in Nat
        /\ (Goto(w, "get") /\ UNCHANGED at) \/ (UNCHANGED pc /\ at' = [at EXCEPT ![w] = @ + 1])
    BY <1>0, <1>13 DEF Judges
  <2>5. Good(status') /\ \A v \in Workers : Good(snap'[v])
    BY <1>0, <1>1, <2>3, <2>4 DEF Good
  <2>6. CASE Goto(w, "get") /\ UNCHANGED at
    BY <1>0, <1>3, <2>3, <2>5, <2>6 DEF Goto
  <2>7. CASE UNCHANGED pc /\ at' = [at EXCEPT ![w] = @ + 1]
    <3>1. ASSUME NEW v \in Workers, v # w, pc'[v] = "list", NEW e \in Range(snap'[v].report)
          PROVE  \E k \in 1 .. at'[v] - 1 : e.tid = snap'[v].refs[k].tid
      <4>1. pc[v] = "list" /\ snap'[v] = snap[v] /\ at'[v] = at[v]
        BY <1>0, <2>3, <2>7, <3>1
      <4> QED
        BY <3>1, <4>1 DEF ListInv
    <3>2. snap'[w] = s1 /\ at'[w] = at[w] + 1
      BY <1>0, <2>3, <2>7
    <3>3. ASSUME NEW e \in Range(s1.report)
          PROVE  \E k \in 1 .. at[w] : e.tid = s1.refs[k].tid
      <4>1. CASE e \in Range(snap[w].report)
        <5>1. PICK k \in 1 .. at[w] - 1 : e.tid = snap[w].refs[k].tid
          BY <2>4, <4>1 DEF ListInv
        <5>2. k \in 1 .. at[w]
          BY <2>4, <5>1
        <5> QED
          BY <2>3, <5>1, <5>2
      <4>2. CASE e = new
        <5>1. at[w] \in 1 .. at[w]
          <6>1. \A k \in Nat : \A n : k \in 1 .. n => k \in 1 .. k
            OBVIOUS
          <6> QED
            BY <2>1, <2>4, <6>1, Zenon
        <5> QED
          BY <2>1, <2>2, <2>3, <4>2, <5>1
      <4> QED
        BY <2>3, <4>1, <4>2
    <3>4. at'[w] - 1 = at[w]
      BY <2>4, <3>2
    <3>5. ListInv'
      BY <3>1, <3>2, <3>3, <3>4 DEF ListInv
    <3> QED
      BY <1>2, <2>5, <3>5
  <2> QED
    BY <2>4, <2>6, <2>7
<1>14. ASSUME NEW w \in Workers, Put(w) PROVE SoundInv' /\ ListInv'
  <2>1. status' = snap[w] /\ Forget({w}, "done") /\ {w} \in SUBSET Workers
    BY <1>14 DEF Put, UpdateStatus, Return
  <2> QED
    BY <1>1, <1>6, <2>1
<1>15. ASSUME NEW i \in DOMAIN objs, JobStep(i) PROVE SoundInv' /\ ListInv'
  BY <1>1, <1>3, <1>15 DEF JobStep, localVars
<1> QED
  BY <1>0, <1>1, <1>4, <1>5, <1>6, <1>7, <1>8, <1>9, <1>11, <1>12, <1>13, <1>14, <1>15
    DEF StepKind, Leaves


\* Every step keeps what is going to be written in agreement with the status.
LEMMA AgreeStep ==
  BaseInv /\ TidInv /\ SoundInv /\ ListInv /\ AgreeInv /\ [Next]_vars => AgreeInv'
<1> SUFFICES ASSUME BaseInv, TidInv, SoundInv, ListInv, AgreeInv, [Next]_vars, spent'["overrun"] = 0
             PROVE  \A v \in Workers : pc'[v] \in Inside => Agree(status'.report, snap'[v].report)
  BY DEF AgreeInv
<1> DEFINE Goal == \A v \in Workers : pc'[v] \in Inside => Agree(status'.report, snap'[v].report)
           Kept(v) == pc[v] \in Inside /\ snap'[v].report = snap[v].report
<1> SUFFICES Goal
  OBVIOUS
<1>0. /\ StepKind /\ TypeInv /\ status \in Status /\ snap \in [Workers -> Status]
      /\ pc \in [Workers -> Steps] /\ at \in [Workers -> Nat] /\ spent["overrun"] = 0
      /\ Reconcilers \subseteq Workers /\ Observers \subseteq Workers
  BY StepKinds, FaultsAdd DEF BaseInv, TypeInv, TypeOK, Workers
<1>1. \A v \in Workers : pc[v] \in Inside => Agree(status.report, snap[v].report)
  BY <1>0 DEF AgreeInv
\* A worker that is inside after the step and was not before, or has a new report, agrees.
<1>2. ASSUME UNCHANGED status,
             \A v \in Workers : pc'[v] \in Inside => Kept(v) \/ Agree(status.report, snap'[v].report)
      PROVE  Goal
  BY <1>1, <1>2
<1> HIDE DEF Goal
<1>3. CASE UNCHANGED <<status, objs, issued, pc, snap, at>>
  BY <1>2, <1>3
<1>4. ASSUME NEW w \in Workers, NEW step \in {"fetch", "idle", "put", "get"}, Moves(w, step),
             step \in Inside => pc[w] \in Inside
      PROVE  Goal
  BY <1>0, <1>2, <1>4 DEF Moves, Goto, Inside
<1>5. ASSUME NEW ws \in SUBSET Workers, NEW step \in {"idle", "done"}, Leaves(ws, step) PROVE Goal
  BY <1>0, <1>2, <1>5 DEF Leaves, Forget, Inside
<1>6. ASSUME NEW w \in Reconcilers, Reads(w, status, "apply") PROVE Goal
  <2>1. Agree(status.report, status.report)
    BY DEF SoundInv, Sound, GoodReport
  <2> QED
    BY <1>0, <1>2, <1>6, <2>1 DEF Reads, Enter, Goto
<1>7. ASSUME NEW w \in Observers, NEW step \in {"list", "get"},
             Reads(w, [status EXCEPT !.report = <<>>, !.healthy = TRUE], step)
      PROVE  Goal
  <2>1. [status EXCEPT !.report = <<>>, !.healthy = TRUE].report = <<>>
    BY <1>0 DEF Status
  <2>2. Agree(status.report, <<>>)
    BY DEF Agree, Range
  <2> QED
    BY <1>0, <1>2, <1>7, <2>1, <2>2 DEF Reads, Enter, Goto
<1>8. ASSUME NEW w \in Workers, pc[w] \in Inside, UNCHANGED status, snap'[w].report = snap[w].report,
             \A v \in Workers \ {w} : pc'[v] = pc[v] /\ snap'[v] = snap[v]
      PROVE  Goal
  BY <1>2, <1>8
<1>9. ASSUME NEW w \in Workers, ApplyDoc(w) PROVE Goal
  <2>1. at[w] \in DocIds /\ snap[w] \in Status /\ pc[w] \in Inside
    BY <1>0, <1>9 DEF ApplyDoc, TypeInv, IndexInv, DocIds, Inside
  <2>2. AfterApply(WithReference(snap[w], at[w]), at[w]).report = snap[w].report
    <3>1. WithReference(snap[w], at[w]).report = snap[w].report /\ WithReference(snap[w], at[w]) \in Status
      BY <1>0, <2>1, StatusChanges DEF WithReference, Status, DocIds, TypeInv, TypeOK
    <3> QED
      BY <3>1 DEF AfterApply, Status
  <2> QED
    BY <1>0, <1>8, <1>9, <2>1, <2>2 DEF ApplyDoc, Goto
<1>10. ASSUME NEW w \in Workers, ApplyFail(w) \/ ApplyReplyLost(w) PROVE Goal
  <2>1. Failed(snap[w]).report = snap[w].report
    BY <1>0 DEF Failed, Status
  <2> QED
    BY <1>0, <1>8, <1>10, <2>1 DEF ApplyFail, ApplyReplyLost, Goto, apiVars, Inside
<1>11. ASSUME NEW w \in Workers, Shortens(w) PROVE Goal
  <2>1. [snap[w] EXCEPT !.healthy = FALSE].report = snap[w].report
    BY <1>0 DEF Status
  <2> QED
    BY <1>0, <1>8, <1>11, <2>1 DEF Shortens, Goto, Inside
<1>12. ASSUME NEW w \in Workers, Judges(w) PROVE Goal
  <2>1. PICK tid \in Nat :
            /\ snap' = [snap EXCEPT ![w] = WithVerdict(snap[w], tid, VerdictOn(tid))]
            /\ Range(WithVerdict(snap[w], tid, VerdictOn(tid)).report) =
                   Range(snap[w].report) \cup {[tid |-> tid, verdict |-> VerdictOn(tid)]}
            /\ (\A i \in DOMAIN objs : objs[i].tid = tid => HasFailed(objs[i].phase))
                   <=> VerdictOn(tid) = "failed"
    BY <1>0, <1>12, JudgesSound
  <2> DEFINE new == [tid |-> tid, verdict |-> VerdictOn(tid)]
  <2>2. new.tid = tid /\ new.verdict = VerdictOn(tid)
    OBVIOUS
  <2>3. snap'[w] = WithVerdict(snap[w], tid, VerdictOn(tid)) /\ Range(snap'[w].report) = Range(snap[w].report) \cup {new}
    BY <1>0, <2>1
  <2> HIDE DEF new
  <2>4. ASSUME NEW e \in Range(status.report), e.tid = tid, e.verdict = "failed"
        PROVE  VerdictOn(tid) = "failed"
    BY <2>1, <2>4 DEF SoundInv, Sound, GoodReport
  <2>5. Agree(status.report, snap[w].report)
    BY <1>1, <1>12 DEF Judges, Inside
  <2>6. Agree(status.report, snap'[w].report)
    BY <2>2, <2>3, <2>4, <2>5 DEF Agree
  <2>7. UNCHANGED status /\ \A v \in Workers \ {w} : pc'[v] = pc[v] /\ snap'[v] = snap[v]
    BY <1>0, <1>12, <2>1 DEF Judges, Goto
  <2> QED
    BY <1>2, <2>6, <2>7
<1>13. ASSUME NEW w \in Workers, Put(w) PROVE Goal
  <2>1. pc[w] = "put" /\ \A v \in Workers : pc'[v] = IF v = w THEN "done" ELSE pc[v]
    BY <1>13 DEF Put, Return, Forget
  <2>2. \A v \in Workers : pc'[v] \notin Inside
    BY <1>0, <2>1, OneInside DEF Inside
  <2> QED
    BY <2>2 DEF Goal
<1>14. ASSUME NEW i \in DOMAIN objs, JobStep(i) PROVE Goal
  BY <1>2, <1>14 DEF JobStep, localVars
<1>15. StepKind /\ {"get", "put"} \subseteq Inside /\ {"fetch", "idle"} \cap Inside = {}
  BY <1>0 DEF Inside
<1> QED
  BY <1>3, <1>4, <1>5, <1>6, <1>7, <1>9, <1>10, <1>11, <1>12, <1>13, <1>14, <1>15 DEF StepKind

\* A Job once reported as failed is not reported otherwise later, by whichever
\* replica's observer, as long as no session outlived its lease: a report is
\* compared with the Jobs as they were under the lock, and a failed pod counts
\* for good.
THEOREM FailuresStick == Spec => FailureSticks
<1> DEFINE Step == Undisturbed({"overrun"})' =>
                     \A e \in Range(status.report), f \in Range(status'.report) :
                         e.tid = f.tid /\ e.verdict = "failed" => f.verdict = "failed"
<1>1. BaseInv /\ SoundInv /\ AgreeInv /\ [Next]_vars => [Step]_vars
  <2> SUFFICES ASSUME BaseInv, SoundInv, AgreeInv, [Next]_vars, spent'["overrun"] = 0
               PROVE  Agree(status.report, status'.report)
    BY DEF Undisturbed, Agree
  <2>1. spent["overrun"] = 0
    BY FaultsAdd DEF BaseInv, TypeInv, TypeOK
  <2>2. CASE status' = status
    BY <2>2 DEF SoundInv, Sound, GoodReport
  <2>3. CASE status' # status
    <3>1. PICK w \in Workers : Put(w)
      BY <2>3, OnlyPutWrites
    <3> QED
      BY <2>1, <3>1 DEF Put, UpdateStatus, AgreeInv, Inside
  <2> QED
    BY <2>2, <2>3
<1>2. Init => TidInv /\ SoundInv /\ ListInv /\ AgreeInv
  <2> SUFFICES ASSUME Init PROVE TidInv /\ SoundInv /\ ListInv /\ AgreeInv
    OBVIOUS
  <2>1. TidInv
    BY DEF Init, TidInv
  <2>2. SoundInv
    BY SoundEmpty DEF Init, SoundInv
  <2>3. ListInv /\ AgreeInv
    BY DEF Init, ListInv, AgreeInv, Inside
  <2> QED
    BY <2>1, <2>2, <2>3
<1>3. BaseInv => TypeInv
  BY DEF BaseInv
<1> QED
  BY <1>1, <1>2, <1>3, TidStep, SoundStep, AgreeStep, InitBaseInv, NextBaseInv, PTL
    DEF Spec, FailureSticks
=============================================================================
