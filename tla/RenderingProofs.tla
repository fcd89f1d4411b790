-------------------------- MODULE RenderingProofs ---------------------------
(* Proofs about Rendering, for any objects, loops and replicas, any kind   *)
(* types and any bounds on faults: the theorems about the Secret, from the *)
(* invariant of HydrationProofs, and those about what is rendered.         *)
EXTENDS Rendering, HydrationProofs

\* What a loop may be doing when it renders.
AtRendering == {"hydrated", "write", "workspace", "generate", "rendered"}

-----------------------------------------------------------------------------
(* Rendering is hydration with a tail.                                     *)

\* A step of a loop that renders is what hydration expects of it.
LEMMA RenderStepRenders ==
  ASSUME Inv, NEW l \in Loops, RenderStep(l) \/ RenderFails(l)
  PROVE  Renders(l) /\ pc[l] \in AtRendering
<1>1. pc[l] \in AtRendering
  BY DEF RenderStep, Return, TruncateTemplate, WriteTemplate, WriteWorkspace, Generate, Rendered,
         RenderFails, AtRendering
<1> SUFFICES Renders(l)
  BY <1>1
<1>2. Hydrated(l)
  BY <1>1 DEF Hydrated, AtRendering
<1>3. CASE Return(l)
  BY <1>2, <1>3 DEF Return, Renders
<1>4. CASE TruncateTemplate(l)
  BY <1>2, <1>4 DEF TruncateTemplate, Renders
<1>5. CASE WriteTemplate(l)
  BY <1>2, <1>5 DEF WriteTemplate, Renders
<1>6. CASE WriteWorkspace(l)
  <2>1. GPGKey(agg[l], MyRef(l), Op(l)) \in Values
    BY AtWork, KeyForOperation DEF MyRef
  <2> QED
    BY <1>2, <1>6, <2>1 DEF WriteWorkspace, Renders
<1>7. CASE Generate(l)
  <2>1. \E step \in {"hydrated", "write", "workspace", "generate", "rendered"} : Goto(l, step)
    BY <1>7 DEF Generate
  <2> QED
    BY <1>2, <1>7, <2>1 DEF Generate, Renders
<1>8. CASE Rendered(l)
  BY <1>2, <1>8 DEF Rendered, Renders, Fail
<1>9. CASE RenderFails(l)
  BY <1>2, <1>9 DEF RenderFails, Renders, Fail
<1> QED
  BY <1>1, <1>3, <1>4, <1>5, <1>6, <1>7, <1>8, <1>9 DEF RenderStep

\* A step of Rendering is a step of hydration.
LEMMA RenderNextHydrates ==
  ASSUME Inv, [RenderNext]_allVars
  PROVE  [HydrationNext]_vars
<1>1. CASE UNCHANGED allVars
  BY <1>1 DEF allVars
<1>2. CASE RenderNext
  BY <1>2, RenderStepRenders DEF RenderNext, HydrationNext, RunAgain
<1> QED
  BY <1>1, <1>2


-----------------------------------------------------------------------------
(* The invariant of rendering.                                             *)

\* The operations of a loop with the aggregate a.
OpsOf(l, a) == IF Request[l].action = "" THEN <<"backup", "restore">> ELSE <<a.spec.operation>>

\* A script is that of its operation, or a file that another loop has truncated.
ScriptOK(script, op) == script = Empty \/ (script \in (0 .. MaxTemplate) \X {op})

\* What a manifest for op says, given the aggregate a, of which only the key
\* variable may have been set anew since, and the kind of the actions.
ManifestOK(l, a, op, m, kind) ==
    /\ m \in Manifests /\ m.op = op /\ ScriptOK(m.script, op)
    /\ m.key = GPGKey(a, MyRef(l), op)
    /\ m.definition["HelmValues.gpgKeyContent"] = m.key
    /\ a.token # Nothing => m.definition["Repository.token"] = a.token
    /\ a.vars["Params.password"] # Nothing =>
          m.definition["Params.password"] = a.vars["Params.password"]
    /\ "CronJob" \in m.kinds => Request[l].action = "" /\ a.spec.cron /\ a.spec.operation = op
    /\ "Job" \in m.kinds => Request[l].action # ""
    /\ Request[l].action # "" /\ m.kinds # {} => kind = "Job"

\* What loop l has rendered at step: one manifest after the other.
OutOK(l, step, a, o, kind) ==
    /\ step \in Before \cup Reading => o = <<>>
    /\ Len(o) <= Len(OpsOf(l, a))
    /\ step # "rendered" => Len(o) < Len(OpsOf(l, a))
    /\ step = "generate" => a.gpgKeyContent = GPGKey(a, MyRef(l), OpsOf(l, a)[Len(o) + 1])
    /\ \A i \in 1 .. Len(o) : ManifestOK(l, a, OpsOf(l, a)[i], o[i], kind)

FileInv ==
    /\ file \in [Replicas -> [Operations -> Scripts]]
    /\ \A p \in Replicas : \A op \in Operations : ScriptOK(file[p][op], op)

ActionInv ==
    /\ kindType \in KindTypes /\ processed \subseteq Loops
    /\ processed # {} => TargetKind = "Job"

OutInv ==
    /\ out \in [Loops -> Seq(Manifests)]
    /\ \A l \in Loops : OutOK(l, pc[l], agg[l], out[l], TargetKind)

RenderInv == Inv /\ FileInv /\ ActionInv /\ OutInv

\* Who has begun to render has something to render.
Busy == {"write", "workspace", "generate", "rendered"}
BusyInv == \A l \in Loops : pc[l] \in Busy \/ out[l] # <<>> => MustRender(l)

\* A loop has one or two operations to render.
LEMMA OpsOfLoop ==
  ASSUME NEW l \in Loops, NEW a \in Aggregates
  PROVE  /\ Len(OpsOf(l, a)) \in {1, 2} /\ \A i \in 1 .. Len(OpsOf(l, a)) : OpsOf(l, a)[i] \in Operations
         /\ Request[l].action = "" => OpsOf(l, a) = <<"backup", "restore">>
         /\ Request[l].action # "" => OpsOf(l, a) = <<a.spec.operation>>
<1>1. a.spec.operation \in Operations
  BY AggregateFields DEF Specs
<1>2. CASE Request[l].action = ""
  <2>1. OpsOf(l, a) = <<"backup", "restore">>
    BY <1>2 DEF OpsOf
  <2>2. Len(OpsOf(l, a)) = 2 /\ OpsOf(l, a)[1] = "backup" /\ OpsOf(l, a)[2] = "restore"
    BY <2>1
  <2>3. \A i \in 1 .. 2 : i = 1 \/ i = 2
    OBVIOUS
  <2> QED
    BY <1>2, <2>1, <2>2, <2>3 DEF Operations
<1>3. CASE Request[l].action # ""
  <2>1. OpsOf(l, a) = <<a.spec.operation>>
    BY <1>3 DEF OpsOf
  <2>2. Len(OpsOf(l, a)) = 1 /\ OpsOf(l, a)[1] = a.spec.operation
    BY <2>1
  <2>3. \A i \in 1 .. 1 : OpsOf(l, a)[i] \in Operations
    BY <1>1, <2>2
  <2> QED
    BY <1>3, <2>1, <2>2, <2>3
<1> QED
  BY <1>2, <1>3

\* They are those that RenderKubernetesResourcesFor goes through.
LEMMA OpsOfRendering == \A l : RenderedOperations(l) = OpsOf(l, agg[l])
BY DEF RenderedOperations, OpsOf, ShouldRenderDependentObjectsForAllOperationTypes, GetOperation

\* Who has rendered nothing has rendered nothing wrong.
LEMMA NothingRendered ==
  ASSUME NEW l \in Loops, NEW a \in Aggregates, NEW step \in Steps \ {"generate"}, NEW kind
  PROVE  OutOK(l, step, a, <<>>, kind)
<1>1. Len(OpsOf(l, a)) \in {1, 2}
  BY OpsOfLoop
<1> QED
  BY <1>1 DEF OutOK

\* A step of hydration leaves a loop where it is, or was taken by one that has
\* rendered nothing, and at most is ready to render now.
LEMMA HydrationBefore ==
  ASSUME Inv, NEW l \in Loops, HydrationStep(l) \/ HydrationFault(l)
  PROVE  /\ pc[l] \in Before \cup Reading
         /\ pc'[l] \notin Busy
         /\ \A m \in Loops : m # l => pc'[m] = pc[m] /\ agg'[m] = agg[m]
<1>1. pc[l] \in Before \cup Reading
  BY DEF HydrationStep, HydrationFault, Fetch, WaitForCacheSync, SecretUnreadable, SecretMissing,
         SecretFound, CreateSecret, GetSecret, UpdateSecret, hydrateTemplate, hydrateAccessToken,
         hydrateVarsSecret, SecretMissingKeygenFails, GetSecretKeygenFails, WriteFails,
         Getting, Before, Reading
<1>2. \E step \in Steps \ Busy : Goto(l, step)
  BY DEF HydrationStep, HydrationFault, Fetch, WaitForCacheSync, SecretUnreadable, SecretMissing,
         SecretFound, CreateSecret, GetSecret, UpdateSecret, hydrateTemplate, hydrateAccessToken,
         hydrateVarsSecret, SecretMissingKeygenFails, GetSecretKeygenFails, WriteFails,
         Take, Fail, Steps, Busy
<1>3. pc \in [Loops -> Steps] /\ agg \in [Loops -> Aggregates]
  BY DEF Inv, LoopInv
<1>4. \A m \in Loops : m # l => agg'[m] = agg[m]
  BY <1>3 DEF HydrationStep, HydrationFault, Fetch, WaitForCacheSync, SecretUnreadable, SecretMissing,
         SecretFound, CreateSecret, GetSecret, UpdateSecret, hydrateTemplate, hydrateAccessToken,
         hydrateVarsSecret, SecretMissingKeygenFails, GetSecretKeygenFails, WriteFails,
         Take, Fail
<1> QED
  BY <1>1, <1>2, <1>3, <1>4 DEF Goto


-----------------------------------------------------------------------------
(* Every step keeps the invariant.                                         *)

\* A loop that moves on leaves what the others have rendered.
LEMMA OneLoopRenders ==
  ASSUME OutInv, UNCHANGED kindType, NEW l \in Loops,
         \A m \in Loops : m # l => pc'[m] = pc[m] /\ agg'[m] = agg[m],
         NEW o \in Seq(Manifests), out' = [out EXCEPT ![l] = o],
         OutOK(l, pc'[l], agg'[l], o, TargetKind)
  PROVE  OutInv'
<1>1. TargetKind' = TargetKind
  BY DEF TargetKind
<1>2. out' \in [Loops -> Seq(Manifests)] /\ out'[l] = o
      /\ \A m \in Loops : m # l => out'[m] = out[m]
  BY DEF OutInv
<1>3. ASSUME NEW m \in Loops PROVE OutOK(m, pc'[m], agg'[m], out'[m], TargetKind)
  <2>1. CASE m = l
    BY <1>2, <2>1
  <2>2. CASE m # l
    BY <1>2, <2>2 DEF OutInv
  <2> QED
    BY <2>1, <2>2
<1> QED
  BY <1>1, <1>2, <1>3 DEF OutInv

\* Steps of hydration.
LEMMA HydrationKeepsOut ==
  ASSUME RenderInv, Inv', UNCHANGED renderVars,
         Environment \/ \E l \in Loops : HydrationStep(l) \/ HydrationFault(l)
  PROVE  RenderInv'
<1>1. FileInv' /\ ActionInv'
  BY DEF RenderInv, FileInv, ActionInv, TargetKind, renderVars
<1>2. CASE Environment
  <2>1. UNCHANGED <<pc, agg>>
    BY <1>2 DEF Environment, EditSecret, EditTemplate, EditBackup, SyncSecret, SyncTemplate, SyncBackup, Stop
  <2>2. OutInv'
    BY <2>1 DEF RenderInv, OutInv, TargetKind, renderVars
  <2> QED
    BY <1>1, <2>2 DEF RenderInv
<1>3. ASSUME NEW l \in Loops, HydrationStep(l) \/ HydrationFault(l) PROVE RenderInv'
  <2>1. /\ pc[l] \in Before \cup Reading /\ pc'[l] \notin Busy
        /\ \A m \in Loops : m # l => pc'[m] = pc[m] /\ agg'[m] = agg[m]
    BY <1>3, HydrationBefore DEF RenderInv
  <2>2. out[l] = <<>>
    BY <2>1 DEF RenderInv, OutInv, OutOK
  <2>3. pc'[l] \in Steps \ {"generate"} /\ agg'[l] \in Aggregates
    BY <2>1 DEF Inv, LoopInv, Busy
  <2>4. OutOK(l, pc'[l], agg'[l], out[l], TargetKind)
    BY <2>2, <2>3, NothingRendered
  <2>5. out' = [out EXCEPT ![l] = out[l]] /\ out[l] \in Seq(Manifests) /\ UNCHANGED kindType
    BY DEF RenderInv, OutInv, renderVars
  <2>6. OutInv'
    BY <2>1, <2>4, <2>5, OneLoopRenders DEF RenderInv
  <2> QED
    BY <1>1, <2>6 DEF RenderInv
<1> QED
  BY <1>2, <1>3

\* A process is run again: its files and what its loops have rendered are gone.
LEMMA RunKeepsOut ==
  ASSUME RenderInv, Inv', NEW p \in Replicas, RunAgain(p)
  PROVE  RenderInv'
<1>1. /\ file' = [file EXCEPT ![p] = [op \in Operations |-> Empty]]
      /\ out' = [l \in Loops |-> IF l \in p THEN <<>> ELSE out[l]]
      /\ UNCHANGED <<processed, kindType>>
      /\ pc' = [l \in Loops |-> IF l \in p THEN "idle" ELSE pc[l]]
      /\ agg' = [l \in Loops |-> IF l \in p THEN NoAggregate ELSE agg[l]]
  BY DEF RunAgain, Run
<1>2. FileInv'
  <2>1. [op \in Operations |-> Empty] \in [Operations -> Scripts]
    BY DEF Scripts
  <2> QED
    BY <1>1, <2>1 DEF RenderInv, FileInv, ScriptOK
<1>3. ActionInv' /\ TargetKind' = TargetKind
  BY <1>1 DEF RenderInv, ActionInv, TargetKind
<1>4. out' \in [Loops -> Seq(Manifests)]
  <2>1. <<>> \in Seq(Manifests)
    OBVIOUS
  <2> QED
    BY <1>1, <2>1 DEF RenderInv, OutInv
<1>5. ASSUME NEW m \in Loops PROVE OutOK(m, pc'[m], agg'[m], out'[m], TargetKind)
  <2>1. CASE m \in p
    <3>1. "idle" \in Steps \ {"generate"} /\ NoAggregate \in Aggregates
      BY GoodIdle DEF Steps
    <3> QED
      BY <1>1, <2>1, <3>1, NothingRendered
  <2>2. CASE m \notin p
    BY <1>1, <2>2 DEF RenderInv, OutInv
  <2> QED
    BY <2>1, <2>2
<1> QED
  BY <1>2, <1>3, <1>4, <1>5 DEF RenderInv, OutInv

\* A loop that gives up, or is done, starts with nothing rendered.
LEMMA StartsAnew ==
  ASSUME RenderInv, NEW l \in Loops, UNCHANGED kindType, out' = [out EXCEPT ![l] = <<>>],
         pc' = [pc EXCEPT ![l] = "idle"], agg' = [agg EXCEPT ![l] = NoAggregate]
  PROVE  OutInv'
<1>1. pc \in [Loops -> Steps] /\ agg \in [Loops -> Aggregates] /\ OutInv
  BY DEF RenderInv, Inv, LoopInv
<1>2. pc'[l] = "idle" /\ agg'[l] = NoAggregate
  BY <1>1
<1>3. \A m \in Loops : m # l => pc'[m] = pc[m] /\ agg'[m] = agg[m]
  BY <1>1
<1>4. OutOK(l, pc'[l], agg'[l], <<>>, TargetKind)
  <2>1. "idle" \in Steps \ {"generate"} /\ NoAggregate \in Aggregates
    BY GoodIdle DEF Steps
  <2> QED
    BY <1>2, <2>1, NothingRendered
<1>5. <<>> \in Seq(Manifests)
  OBVIOUS
<1> QED
  BY <1>1, <1>3, <1>4, <1>5, OneLoopRenders

\* A manifest is as good when the key variable has been set anew.
LEMMA ManifestStays ==
  ASSUME NEW l, NEW a, NEW b,
         b.spec = a.spec, b.secret = a.secret, b.token = a.token, b.vars = a.vars
  PROVE  /\ OpsOf(l, b) = OpsOf(l, a)
         /\ \A op : GPGKey(b, MyRef(l), op) = GPGKey(a, MyRef(l), op)
         /\ \A op, m, kind : ManifestOK(l, a, op, m, kind) => ManifestOK(l, b, op, m, kind)
<1>1. OpsOf(l, b) = OpsOf(l, a) /\ \A op : GPGKey(b, MyRef(l), op) = GPGKey(a, MyRef(l), op)
  BY DEF OpsOf, GPGKey
<1>2. ASSUME NEW op, NEW m, NEW kind, ManifestOK(l, a, op, m, kind)
      PROVE  ManifestOK(l, b, op, m, kind)
  <2>1. m.key = GPGKey(b, MyRef(l), op)
    BY <1>1, <1>2 DEF ManifestOK
  <2> QED
    BY <1>2, <2>1 DEF ManifestOK
<1> QED
  BY <1>1, <1>2

\* The operation that a loop is rendering.
LEMMA CurrentOp ==
  ASSUME RenderInv, NEW l \in Loops, pc[l] # "rendered"
  PROVE  /\ Op(l) \in Operations /\ Op(l) = OpsOf(l, agg[l])[Len(out[l]) + 1]
         /\ agg[l] \in Aggregates /\ out[l] \in Seq(Manifests) /\ Home(l) \in Replicas
         /\ Len(out[l]) + 1 \in 1 .. Len(OpsOf(l, agg[l])) /\ Len(out[l]) \in Nat
<1>1. /\ agg[l] \in Aggregates /\ out[l] \in Seq(Manifests) /\ Home(l) \in Replicas
      /\ OutOK(l, pc[l], agg[l], out[l], TargetKind)
  BY HomeOfLoop DEF RenderInv, Inv, LoopInv, OutInv
<1>2. Op(l) = OpsOf(l, agg[l])[Len(out[l]) + 1]
  BY OpsOfRendering DEF Op
<1>3. Len(out[l]) \in Nat
  BY <1>1
<1>4. Len(out[l]) < Len(OpsOf(l, agg[l])) /\ Len(OpsOf(l, agg[l])) \in {1, 2}
  BY <1>1, OpsOfLoop DEF OutOK
<1>5. Len(out[l]) + 1 \in 1 .. Len(OpsOf(l, agg[l]))
  BY <1>3, <1>4
<1>6. OpsOf(l, agg[l])[Len(out[l]) + 1] \in Operations
  BY <1>1, <1>5, OpsOfLoop
<1> QED
  BY <1>1, <1>2, <1>3, <1>5, <1>6

\* Who writes a script writes that of its operation.
LEMMA FileWritten ==
  ASSUME FileInv, NEW p \in Replicas, NEW op \in Operations, NEW script \in Scripts, ScriptOK(script, op),
         file' = [file EXCEPT ![p][op] = script]
  PROVE  FileInv'
<1>1. file \in [Replicas -> [Operations -> Scripts]]
  BY DEF FileInv
<1> DEFINE dir == [file[p] EXCEPT ![op] = script]
<1>2. dir \in [Operations -> Scripts] /\ \A o \in Operations : ScriptOK(dir[o], o)
  BY <1>1 DEF FileInv
<1>3. file' = [file EXCEPT ![p] = dir]
  BY <1>1
<1> HIDE DEF dir
<1> QED
  BY <1>1, <1>2, <1>3 DEF FileInv

\* The script file is truncated and filled.
LEMMA TemplateKeepsOut ==
  ASSUME RenderInv, Inv', NEW l \in Loops, TruncateTemplate(l) \/ WriteTemplate(l)
  PROVE  RenderInv'
<1>1. /\ UNCHANGED <<agg, out, processed, kindType>>
      /\ Goto(l, "write") \/ Goto(l, "workspace")
  BY DEF TruncateTemplate, WriteTemplate
<1>2. pc[l] # "rendered" /\ pc[l] \in {"hydrated", "write"}
  BY DEF TruncateTemplate, WriteTemplate
<1>3. FileInv'
  <2>1. FileInv /\ Home(l) \in Replicas /\ Op(l) \in Operations /\ agg[l] \in Aggregates
    BY <1>2, CurrentOp DEF RenderInv
  <2>2. Empty \in Scripts /\ ScriptOK(Empty, Op(l))
    BY DEF Scripts, ScriptOK
  <2>3. /\ <<agg[l].tpl, Op(l)>> \in Scripts /\ ScriptOK(<<agg[l].tpl, Op(l)>>, Op(l))
    <3>1. agg[l].tpl \in 0 .. MaxTemplate
      BY <2>1, AggregateFields
    <3> QED
      BY <2>1, <3>1 DEF Scripts, ScriptOK
  <2>4. CASE UNCHANGED file
    BY <2>1, <2>4 DEF FileInv
  <2>5. CASE file' = [file EXCEPT ![Home(l)][Op(l)] = Empty]
    BY <2>1, <2>2, <2>5, FileWritten
  <2>6. CASE file' = [file EXCEPT ![Home(l)][Op(l)] = <<agg[l].tpl, Op(l)>>]
    BY <2>1, <2>3, <2>6, FileWritten
  <2> QED
    BY <2>4, <2>5, <2>6 DEF TruncateTemplate, WriteTemplate, TemplateDir
<1>4. ActionInv'
  BY <1>1 DEF RenderInv, ActionInv, TargetKind
<1>5. OutInv'
  <2>1. PICK step \in {"write", "workspace"} : pc' = [pc EXCEPT ![l] = step]
    BY <1>1 DEF Goto
  <2>2. /\ pc'[l] = step /\ agg'[l] = agg[l]
        /\ \A m \in Loops : m # l => pc'[m] = pc[m] /\ agg'[m] = agg[m]
    BY <1>1, <2>1 DEF RenderInv, Inv, LoopInv
  <2>3. OutOK(l, pc[l], agg[l], out[l], TargetKind) /\ out[l] \in Seq(Manifests)
        /\ out' = [out EXCEPT ![l] = out[l]]
    BY <1>1 DEF RenderInv, OutInv
  <2>4. OutOK(l, step, agg[l], out[l], TargetKind)
    BY <1>2, <2>3 DEF OutOK, Before, Reading
  <2> QED
    BY <1>1, <2>2, <2>3, <2>4, OneLoopRenders DEF RenderInv
<1> QED
  BY <1>3, <1>4, <1>5 DEF RenderInv

\* The key variable is set for the operation.
LEMMA WorkspaceKeepsOut ==
  ASSUME RenderInv, Inv', NEW l \in Loops, WriteWorkspace(l)
  PROVE  RenderInv'
<1>1. /\ UNCHANGED renderVars /\ pc[l] = "workspace" /\ pc' = [pc EXCEPT ![l] = "generate"]
      /\ agg' = [agg EXCEPT ![l].gpgKeyContent = GPGKey(agg[l], MyRef(l), Op(l))]
  BY DEF WriteWorkspace, Goto
<1>2. FileInv' /\ ActionInv'
  BY <1>1 DEF RenderInv, FileInv, ActionInv, TargetKind, renderVars
<1> DEFINE v == GPGKey(agg[l], MyRef(l), Op(l))
           b == [agg[l] EXCEPT !.gpgKeyContent = v]
<1>3. /\ pc'[l] = "generate" /\ agg'[l] = b
      /\ \A m \in Loops : m # l => pc'[m] = pc[m] /\ agg'[m] = agg[m]
  BY <1>1 DEF RenderInv, Inv, LoopInv
<1>4. /\ OutOK(l, "workspace", agg[l], out[l], TargetKind) /\ out[l] \in Seq(Manifests)
      /\ out' = [out EXCEPT ![l] = out[l]] /\ agg[l] \in Aggregates /\ UNCHANGED kindType
  BY <1>1 DEF RenderInv, OutInv, Inv, LoopInv, renderVars
<1>5. v \in Values
  BY <1>4, BackupOfLoop, KeyForOperation DEF MyRef
<1>6. Op(l) = OpsOf(l, agg[l])[Len(out[l]) + 1]
  BY <1>1, CurrentOp
<1>7. v = GPGKey(agg[l], MyRef(l), OpsOf(l, agg[l])[Len(out[l]) + 1])
  BY <1>6
<1> HIDE DEF v
<1>8. /\ b.spec = agg[l].spec /\ b.secret = agg[l].secret /\ b.token = agg[l].token
      /\ b.vars = agg[l].vars /\ b.gpgKeyContent = v
  BY <1>4 DEF Aggregates
<1> HIDE DEF b
<1>9. /\ OpsOf(l, b) = OpsOf(l, agg[l])
      /\ \A op : GPGKey(b, MyRef(l), op) = GPGKey(agg[l], MyRef(l), op)
      /\ \A op, m, kind : ManifestOK(l, agg[l], op, m, kind) => ManifestOK(l, b, op, m, kind)
  BY <1>8, ManifestStays
<1>10. OutOK(l, "generate", b, out[l], TargetKind)
  <2>1. "generate" \notin Before \cup Reading
    BY DEF Before, Reading
  <2> QED
    BY <1>4, <1>7, <1>8, <1>9, <2>1 DEF OutOK
<1>11. OutInv'
  BY <1>3, <1>4, <1>10, OneLoopRenders DEF RenderInv
<1> QED
  BY <1>2, <1>11 DEF RenderInv


\* The variables of definition.yaml.
LEMMA DefinitionOf ==
  ASSUME NEW a \in Aggregates, NEW d, d = writeDefinition(a)
  PROVE  /\ d \in [Variables -> Values \cup {Text}]
         /\ d["HelmValues.gpgKeyContent"] = a.gpgKeyContent
         /\ a.token # Nothing => d["Repository.token"] = a.token
         /\ a.vars["Params.password"] # Nothing => d["Params.password"] = a.vars["Params.password"]
<1>1. /\ a.gpgKeyContent \in Values /\ a.token \in Values /\ a.vars \in [Names -> Values]
      /\ "Params.password" \in Names
  BY AggregateFields DEF Data, Names
<1>2. a.vars["Params.password"] \in Values
  BY <1>1
<1>3. d = [v \in Variables |->
              IF v = "Params.password" /\ a.vars[v] # Nothing THEN a.vars[v]
              ELSE IF v = "HelmValues.gpgKeyContent" THEN a.gpgKeyContent
              ELSE IF v = "Repository.token" /\ a.token # Nothing THEN a.token
              ELSE Text]
  BY DEF writeDefinition, ImportOnlyKeys
<1>4. d \in [Variables -> Values \cup {Text}]
  BY <1>1, <1>2, <1>3
<1> QED
  BY <1>3, <1>4 DEF Variables

\* The kinds that are left of what BMG renders.
LEMMA KindsOf ==
  ASSUME NEW l, NEW op, NEW k, k = parseRenderedManifests(l, op), kindType \in KindTypes
  PROVE  /\ k \in SUBSET Kinds
         /\ "CronJob" \in k => Request[l].action = "" /\ agg[l].spec.cron /\ agg[l].spec.operation = op
         /\ "Job" \in k => Request[l].action # ""
         /\ Request[l].action # "" /\ k # {} => TargetKind = "Job"
<1>1. CASE Request[l].action = ""
  <2>1. k = (Helpers \cup {"CronJob"}) \cap
             (Helpers \cup IF agg[l].spec.operation = op /\ agg[l].spec.cron THEN {"CronJob"} ELSE {})
    BY <1>1 DEF parseRenderedManifests, Documents, NewResourceTypesFilterForScheduledBackup,
                ShouldRenderDependentObjectsForAllOperationTypes, GetOperation, ShouldCreateCronJob
  <2>2. "CronJob" \notin Helpers /\ "Job" \notin Helpers
    BY DEF Helpers
  <2> QED
    BY <1>1, <2>1, <2>2 DEF Kinds
<1>2. CASE Request[l].action # ""
  <2>1. k = (Helpers \cup {TargetKind}) \cap {"Job"}
    BY <1>2 DEF parseRenderedManifests, Documents, NewResourceTypesFilterForRequestedBackupAction,
                ShouldRenderDependentObjectsForAllOperationTypes
  <2>2. "Job" \notin Helpers
    BY DEF Helpers
  <2> QED
    BY <1>2, <2>1, <2>2 DEF Kinds
<1> QED
  BY <1>1, <1>2

\* What is generated for the operation.
LEMMA GeneratedManifest ==
  ASSUME RenderInv, NEW l \in Loops, pc[l] = "generate",
         NEW m, m = [op |-> Op(l), image |-> agg[l].tpl,
           script |-> IF ProvidesScript(l) THEN file[Home(l)][TemplateDir(Op(l))] ELSE <<0, Op(l)>>,
           key |-> GPGKey(agg[l], MyRef(l), Op(l)),
           definition |-> writeDefinition(agg[l]),
           kinds |-> parseRenderedManifests(l, Op(l))]
  PROVE  m \in Manifests /\ ManifestOK(l, agg[l], Op(l), m, TargetKind)
<1> DEFINE a == agg[l]
           op == Op(l)
           script == IF ProvidesScript(l) THEN file[Home(l)][op] ELSE <<0, op>>
           d == writeDefinition(a)
           k == parseRenderedManifests(l, op)
           v == GPGKey(a, MyRef(l), op)
<1>1. /\ a \in Aggregates /\ op \in Operations /\ Home(l) \in Replicas
      /\ op = OpsOf(l, a)[Len(out[l]) + 1]
  BY CurrentOp
<1>2. a.gpgKeyContent = v
  <2>1. OutOK(l, "generate", agg[l], out[l], TargetKind)
    BY DEF RenderInv, OutInv
  <2> QED
    BY <1>1, <2>1 DEF OutOK
<1>3. v \in Values /\ a.tpl \in 0 .. MaxTemplate /\ 0 \in 0 .. MaxTemplate
  <2>1. 0 \in 0 .. MaxTemplate
    BY GoodIdle, AggregateFields DEF NoAggregate
  <2> QED
    BY <1>1, <2>1, BackupOfLoop, KeyForOperation, AggregateFields DEF MyRef
<1>4. script \in Scripts /\ ScriptOK(script, op)
  <2>1. CASE ProvidesScript(l)
    BY <1>1, <2>1 DEF RenderInv, FileInv
  <2>2. CASE ~ProvidesScript(l)
    <3>1. <<0, op>> \in (0 .. MaxTemplate) \X {op}
      BY <1>3
    <3> QED
      BY <1>1, <1>3, <2>2, <3>1 DEF Scripts, ScriptOK
  <2> QED
    BY <2>1, <2>2
<1>5. /\ d \in [Variables -> Values \cup {Text}] /\ d["HelmValues.gpgKeyContent"] = a.gpgKeyContent
      /\ a.token # Nothing => d["Repository.token"] = a.token
      /\ a.vars["Params.password"] # Nothing => d["Params.password"] = a.vars["Params.password"]
  BY <1>1, DefinitionOf
<1>6. /\ k \in SUBSET Kinds
      /\ "CronJob" \in k => Request[l].action = "" /\ a.spec.cron /\ a.spec.operation = op
      /\ "Job" \in k => Request[l].action # ""
      /\ Request[l].action # "" /\ k # {} => TargetKind = "Job"
  <2>1. kindType \in KindTypes /\ k = parseRenderedManifests(l, op)
    BY DEF RenderInv, ActionInv
  <2> HIDE DEF k, op
  <2>2. k \in SUBSET Kinds
    BY <2>1, KindsOf, ZenonT(30)
  <2>3. "CronJob" \in k => Request[l].action = "" /\ a.spec.cron /\ a.spec.operation = op
    BY <2>1, KindsOf, ZenonT(30)
  <2>4. "Job" \in k => Request[l].action # ""
    BY <2>1, KindsOf, ZenonT(30)
  <2>5. Request[l].action # "" /\ k # {} => TargetKind = "Job"
    BY <2>1, KindsOf, ZenonT(30)
  <2> QED
    BY <2>2, <2>3, <2>4, <2>5
<1>7. m = [op |-> op, image |-> a.tpl, script |-> script, key |-> v, definition |-> d, kinds |-> k]
  BY DEF TemplateDir
<1>8. v = GPGKey(a, MyRef(l), op)
  OBVIOUS
<1> HIDE DEF a, op, script, d, k, v
<1>9. /\ m.op = op /\ m.image = a.tpl /\ m.script = script /\ m.key = v /\ m.definition = d /\ m.kinds = k
  BY <1>7
<1>10. m \in Manifests
  <2>1. op \in Operations /\ a.tpl \in 0 .. MaxTemplate /\ script \in Scripts /\ v \in Values
    BY <1>1, <1>3, <1>4
  <2>2. d \in [Variables -> Values \cup {Text}]
    BY <1>5
  <2>3. k \in SUBSET Kinds
    BY <1>6
  <2> QED
    BY <1>7, <2>1, <2>2, <2>3 DEF Manifests
<1>11. ManifestOK(l, a, op, m, TargetKind)
  BY <1>2, <1>4, <1>5, <1>6, <1>8, <1>9, <1>10 DEF ManifestOK
<1> QED
  BY <1>10, <1>11 DEF a, op


\* One more manifest is rendered.
LEMMA GenerateKeepsOut ==
  ASSUME RenderInv, Inv', NEW l \in Loops, Generate(l)
  PROVE  RenderInv'
<1> DEFINE m == [op |-> Op(l), image |-> agg[l].tpl,
                 script |-> IF ProvidesScript(l) THEN file[Home(l)][TemplateDir(Op(l))] ELSE <<0, Op(l)>>,
                 key |-> GPGKey(agg[l], MyRef(l), Op(l)),
                 definition |-> writeDefinition(agg[l]),
                 kinds |-> parseRenderedManifests(l, Op(l))]
           n == Len(out[l])
           ops == OpsOf(l, agg[l])
           o == Append(out[l], m)
           step == IF n + 1 = Len(ops) THEN "rendered" ELSE "hydrated"
<1>1. /\ pc[l] = "generate" /\ UNCHANGED <<agg, file, processed, kindType>>
      /\ out' = [out EXCEPT ![l] = o] /\ pc' = [pc EXCEPT ![l] = step]
  <2>1. Len(RenderedOperations(l)) = Len(ops)
    BY OpsOfRendering
  <2>2. out' = [out EXCEPT ![l] = Append(@, m)]
    BY DEF Generate
  <2>3. out' = [out EXCEPT ![l] = o]
    BY <2>2 DEF RenderInv, OutInv
  <2>4. pc' = [pc EXCEPT ![l] = step]
    BY <2>1 DEF Generate, Goto
  <2> QED
    BY <2>3, <2>4 DEF Generate
<1>2. FileInv' /\ ActionInv'
  BY <1>1 DEF RenderInv, FileInv, ActionInv, TargetKind
<1>3. m \in Manifests /\ ManifestOK(l, agg[l], Op(l), m, TargetKind)
  BY <1>1, GeneratedManifest
<1>4. /\ Op(l) = ops[n + 1] /\ out[l] \in Seq(Manifests)
      /\ n + 1 \in 1 .. Len(ops) /\ n \in Nat /\ Len(ops) \in {1, 2}
  <2>1. agg[l] \in Aggregates
    BY <1>1, CurrentOp
  <2> QED
    BY <1>1, <2>1, CurrentOp, OpsOfLoop
<1>5. /\ pc'[l] = step /\ agg'[l] = agg[l]
      /\ \A k \in Loops : k # l => pc'[k] = pc[k] /\ agg'[k] = agg[k]
  BY <1>1 DEF RenderInv, Inv, LoopInv
<1>6. OutOK(l, "generate", agg[l], out[l], TargetKind)
  BY <1>1 DEF RenderInv, OutInv
<1> HIDE DEF m, ops
<1>7. /\ o \in Seq(Manifests) /\ Len(o) = n + 1 /\ o[n + 1] = m
      /\ \A i \in 1 .. n : o[i] = out[l][i]
  BY <1>3, <1>4
<1> HIDE DEF o
<1>8. ASSUME NEW i \in 1 .. Len(o) PROVE ManifestOK(l, agg[l], ops[i], o[i], TargetKind)
  <2>1. CASE i = n + 1
    BY <1>3, <1>4, <1>7, <2>1
  <2>2. CASE i # n + 1
    <3>1. i \in 1 .. n
      BY <1>4, <1>7, <2>2
    <3> QED
      BY <1>6, <1>7, <3>1 DEF OutOK, ops
  <2> QED
    BY <2>1, <2>2
<1>9. OutOK(l, step, agg[l], o, TargetKind)
  <2>1. /\ step \notin Before \cup Reading /\ step # "generate"
        /\ step # "rendered" => n + 1 < Len(ops)
    BY <1>4 DEF Before, Reading
  <2>2. Len(o) <= Len(ops)
    BY <1>4, <1>7
  <2> QED
    BY <1>7, <1>8, <2>1, <2>2 DEF OutOK, ops
<1>10. OutInv'
  BY <1>1, <1>5, <1>7, <1>9, OneLoopRenders DEF RenderInv
<1> QED
  BY <1>2, <1>10 DEF RenderInv

\* A rendering fails.
LEMMA FailKeepsOut ==
  ASSUME RenderInv, Inv', NEW l \in Loops, RenderFails(l)
  PROVE  RenderInv'
<1>1. /\ out' = [out EXCEPT ![l] = <<>>] /\ UNCHANGED <<file, processed, kindType>>
      /\ pc' = [pc EXCEPT ![l] = "idle"] /\ agg' = [agg EXCEPT ![l] = NoAggregate]
  BY DEF RenderFails, Fail, Goto
<1>2. FileInv' /\ ActionInv'
  BY <1>1 DEF RenderInv, FileInv, ActionInv, TargetKind
<1>3. OutInv'
  BY <1>1, StartsAnew
<1> QED
  BY <1>2, <1>3 DEF RenderInv

\* What was rendered is applied.  An action is processed if something was left to
\* apply, which is then a Job.
LEMMA RenderedKeepsOut ==
  ASSUME RenderInv, Inv', NEW l \in Loops, Rendered(l)
  PROVE  RenderInv'
<1>1. /\ out' = [out EXCEPT ![l] = <<>>] /\ UNCHANGED <<file, kindType>>
      /\ pc' = [pc EXCEPT ![l] = "idle"] /\ agg' = [agg EXCEPT ![l] = NoAggregate]
  BY DEF Rendered, Fail, Goto
<1>2. FileInv' /\ TargetKind' = TargetKind
  BY <1>1 DEF RenderInv, FileInv, TargetKind
<1>3. ActionInv'
  <2>1. CASE UNCHANGED processed
    BY <1>1, <1>2, <2>1 DEF RenderInv, ActionInv
  <2>2. CASE Applicable(l) /\ processed' = processed \cup {k \in {l} : Request[k].action # ""}
    <3>1. CASE Request[l].action = ""
      <4>1. processed' = processed
        BY <2>2, <3>1
      <4> QED
        BY <1>1, <1>2, <4>1 DEF RenderInv, ActionInv
    <3>2. CASE Request[l].action # ""
      <4>1. PICK i \in DOMAIN out[l] : out[l][i].kinds # {}
        BY <2>2 DEF Applicable
      <4>2. /\ \A j \in 1 .. Len(out[l]) :
                  ManifestOK(l, agg[l], OpsOf(l, agg[l])[j], out[l][j], TargetKind)
            /\ out[l] \in Seq(Manifests)
        BY DEF RenderInv, OutInv, OutOK
      <4>3. i \in 1 .. Len(out[l])
        BY <4>2
      <4>4. ManifestOK(l, agg[l], OpsOf(l, agg[l])[i], out[l][i], TargetKind)
        BY <4>2, <4>3
      <4>5. TargetKind = "Job"
        BY <3>2, <4>1, <4>4 DEF ManifestOK
      <4>6. processed' \subseteq Loops /\ kindType \in KindTypes
        BY <2>2 DEF RenderInv, ActionInv
      <4> QED
        BY <1>1, <1>2, <4>5, <4>6 DEF ActionInv
    <3> QED
      BY <3>1, <3>2
  <2> QED
    BY <2>1, <2>2 DEF Rendered
<1>4. OutInv'
  BY <1>1, StartsAnew
<1> QED
  BY <1>2, <1>3, <1>4 DEF RenderInv


\* Who has nothing to render has rendered nothing.
LEMMA ReturnKeepsOut ==
  ASSUME RenderInv, BusyInv, Inv', NEW l \in Loops, Return(l)
  PROVE  RenderInv'
<1>1. /\ UNCHANGED renderVars /\ ~MustRender(l)
      /\ pc' = [pc EXCEPT ![l] = "idle"] /\ agg' = [agg EXCEPT ![l] = NoAggregate]
  BY DEF Return, Goto
<1>2. out[l] = <<>>
  BY <1>1 DEF BusyInv
<1>3. out' = [out EXCEPT ![l] = <<>>] /\ UNCHANGED <<file, processed, kindType>>
  BY <1>1, <1>2 DEF RenderInv, OutInv, renderVars
<1>4. FileInv' /\ ActionInv'
  BY <1>3 DEF RenderInv, FileInv, ActionInv, TargetKind
<1>5. OutInv'
  BY <1>1, <1>3, StartsAnew
<1> QED
  BY <1>4, <1>5 DEF RenderInv

\* Only who has something to render begins to, and an action is processed when all
\* of it is rendered.
LEMMA BusyStays ==
  ASSUME RenderInv, BusyInv, RenderNext
  PROVE  BusyInv'
<1>0. /\ pc \in [Loops -> Steps] /\ out \in [Loops -> Seq(Manifests)]
      /\ \A l \in Loops : pc[l] \in Before \cup Reading => out[l] = <<>>
  BY DEF RenderInv, Inv, LoopInv, OutInv, OutOK
<1>1. CASE UNCHANGED <<pc, out, processed>>
  BY <1>1 DEF BusyInv, MustRender
<1>2. ASSUME NEW l \in Loops, \A m \in Loops : m # l => pc'[m] = pc[m] /\ out'[m] = out[m],
             (pc'[l] \notin Busy /\ out'[l] = <<>>) \/ MustRender(l)',
             processed' \subseteq processed \cup {l}
      PROVE  BusyInv'
  <2>1. ASSUME NEW m \in Loops, pc'[m] \in Busy \/ out'[m] # <<>> PROVE MustRender(m)'
    <3>1. CASE m = l
      BY <1>2, <2>1, <3>1
    <3>2. CASE m # l
      BY <1>2, <2>1, <3>2 DEF BusyInv, MustRender
    <3> QED
      BY <3>1, <3>2
  <2> QED
    BY <2>1 DEF BusyInv
<1>3. CASE Environment /\ UNCHANGED renderVars
  BY <1>1, <1>3 DEF Environment, EditSecret, EditTemplate, EditBackup, SyncSecret, SyncTemplate,
                    SyncBackup, Stop, renderVars
<1>4. ASSUME NEW l \in Loops, HydrationStep(l) \/ HydrationFault(l), UNCHANGED renderVars PROVE BusyInv'
  <2>1. /\ pc[l] \in Before \cup Reading /\ pc'[l] \notin Busy
        /\ \A m \in Loops : m # l => pc'[m] = pc[m]
    BY <1>4, HydrationBefore DEF RenderInv
  <2>2. out[l] = <<>> /\ out' = out /\ processed' = processed
    BY <1>0, <1>4, <2>1 DEF renderVars
  <2> QED
    BY <1>2, <2>1, <2>2
<1>5. ASSUME NEW l \in Loops, TruncateTemplate(l) \/ WriteTemplate(l) \/ WriteWorkspace(l) \/ Generate(l)
      PROVE  BusyInv'
  <2>1. MustRender(l) /\ UNCHANGED processed
    BY <1>5 DEF TruncateTemplate, WriteTemplate, WriteWorkspace, Generate, BusyInv, Busy, renderVars
  <2>2. \A m \in Loops : m # l => pc'[m] = pc[m]
    BY <1>0, <1>5 DEF TruncateTemplate, WriteTemplate, WriteWorkspace, Generate, Goto
  <2>3. \A m \in Loops : m # l => out'[m] = out[m]
    BY <1>0, <1>5 DEF TruncateTemplate, WriteTemplate, WriteWorkspace, Generate, renderVars
  <2>4. MustRender(l)' /\ processed' \subseteq processed \cup {l}
    BY <2>1 DEF MustRender
  <2> QED
    BY <1>2, <2>2, <2>3, <2>4
<1>6. ASSUME NEW l \in Loops, Return(l) \/ Rendered(l) \/ RenderFails(l) PROVE BusyInv'
  <2>1. pc' = [pc EXCEPT ![l] = "idle"] /\ processed' \subseteq processed \cup {l}
    BY <1>6 DEF Return, Rendered, RenderFails, Fail, Goto, renderVars
  <2>2. \/ Return(l) /\ UNCHANGED out /\ ~MustRender(l)
        \/ out' = [out EXCEPT ![l] = <<>>]
    BY <1>6 DEF Return, Rendered, RenderFails, renderVars
  <2>3. out'[l] = <<>> /\ \A m \in Loops : m # l => out'[m] = out[m]
    BY <1>0, <2>2 DEF BusyInv
  <2>4. pc'[l] \notin Busy /\ \A m \in Loops : m # l => pc'[m] = pc[m]
    BY <1>0, <2>1 DEF Busy
  <2> QED
    BY <1>2, <2>1, <2>3, <2>4
<1>7. ASSUME NEW p \in Replicas, RunAgain(p) PROVE BusyInv'
  BY <1>7 DEF RunAgain, Run, BusyInv, Busy, MustRender
<1> QED
  BY <1>3, <1>4, <1>5, <1>6, <1>7 DEF RenderNext, RenderStep


-----------------------------------------------------------------------------
(* The invariant holds, and what it says of what is rendered.              *)

FullInv == RenderInv /\ BusyInv

\* Every step keeps it.
LEMMA RenderSafe == FullInv /\ [RenderNext]_allVars => FullInv'
<1> SUFFICES ASSUME FullInv, [RenderNext]_allVars PROVE FullInv'
  OBVIOUS
<1>1. Inv'
  BY RenderNextHydrates, HydrationSafe DEF FullInv, RenderInv
<1>2. CASE UNCHANGED allVars
  BY <1>1, <1>2 DEF FullInv, RenderInv, FileInv, ActionInv, OutInv, BusyInv, MustRender, TargetKind,
                    allVars, vars, renderVars
<1>3. CASE RenderNext
  <2>1. BusyInv'
    BY <1>3, BusyStays DEF FullInv
  <2>2. RenderInv'
    BY <1>1, <1>3, HydrationKeepsOut, RunKeepsOut, ReturnKeepsOut, TemplateKeepsOut,
       WorkspaceKeepsOut, GenerateKeepsOut, RenderedKeepsOut, FailKeepsOut
       DEF FullInv, RenderNext, RenderStep
  <2> QED
    BY <2>1, <2>2 DEF FullInv
<1> QED
  BY <1>2, <1>3

\* It holds at first.
LEMMA RenderStarts == RenderInit => FullInv
<1> SUFFICES ASSUME RenderInit PROVE FullInv
  OBVIOUS
<1>1. Inv /\ \A l \in Loops : pc[l] = "idle" /\ agg[l] = NoAggregate
  BY HydrationStarts DEF RenderInit, Init
<1>2. FileInv
  BY DEF RenderInit, FileInv, ScriptOK, Scripts
<1>3. ActionInv
  BY DEF RenderInit, ActionInv
<1>4. <<>> \in Seq(Manifests)
  OBVIOUS
<1>5. "idle" \in Steps \ {"generate"} /\ NoAggregate \in Aggregates
  BY GoodIdle DEF Steps
<1>6. OutInv
  BY <1>1, <1>4, <1>5, NothingRendered DEF RenderInit, OutInv
<1>7. BusyInv
  BY <1>1 DEF RenderInit, BusyInv, Busy
<1> QED
  BY <1>1, <1>2, <1>3, <1>6, <1>7 DEF FullInv, RenderInv

\* The invariant holds for ever.
LEMMA RenderInvariant == RenderSpec => []FullInv
BY RenderStarts, RenderSafe, PTL DEF RenderSpec

\* What is known of a manifest and of the loop that rendered it.
LEMMA AboutManifest ==
  ASSUME FullInv, NEW l \in Loops, NEW i \in DOMAIN out[l]
  PROVE  /\ ManifestOK(l, agg[l], OpsOf(l, agg[l])[i], out[l][i], TargetKind)
         /\ i \in 1 .. Len(out[l]) /\ i \in 1 .. Len(OpsOf(l, agg[l])) /\ out[l] \in Seq(Manifests)
         /\ pc[l] \notin Before \cup Reading /\ Hydrated(l)
         /\ RestOK(l, pc[l], agg[l], history, published[Backup(l)])
         /\ Backup(l) \in Backups /\ agg[l] \in Aggregates
         /\ OpsOf(l, agg[l])[i] \in Operations
<1>1. OutOK(l, pc[l], agg[l], out[l], TargetKind) /\ out[l] \in Seq(Manifests) /\ Inv
  BY DEF FullInv, RenderInv, OutInv
<1>2. i \in 1 .. Len(out[l]) /\ out[l] # <<>>
  BY <1>1
<1>3. pc[l] \notin Before \cup Reading
  BY <1>1, <1>2 DEF OutOK
<1>4. Hydrated(l)
  BY <1>3 DEF Hydrated, Before, Reading
<1>5. RestOK(l, pc[l], agg[l], history, published[Backup(l)]) /\ Backup(l) \in Backups /\ agg[l] \in Aggregates
  BY <1>1, AtWork DEF Good
<1>6. i \in 1 .. Len(OpsOf(l, agg[l]))
  <2>1. Len(out[l]) <= Len(OpsOf(l, agg[l])) /\ Len(out[l]) \in Nat
    BY <1>1 DEF OutOK
  <2>2. Len(OpsOf(l, agg[l])) \in {1, 2}
    BY <1>5, OpsOfLoop
  <2> QED
    BY <1>2, <2>1, <2>2
<1>7. OpsOf(l, agg[l])[i] \in Operations
  BY <1>5, <1>6, OpsOfLoop
<1>8. ManifestOK(l, agg[l], OpsOf(l, agg[l])[i], out[l][i], TargetKind)
  BY <1>1, <1>2 DEF OutOK
<1> QED
  BY <1>1, <1>2, <1>3, <1>4, <1>5, <1>6, <1>7, <1>8

\* Aggregates, files and manifests are what they should be at every step of any
\* number of loops and processes: no operation is rendered beyond the last.
THEOREM RenderTypeCorrect == RenderSpec => []TypeOK
<1>1. FullInv => TypeOK
  <2> SUFFICES ASSUME FullInv PROVE TypeOK
    OBVIOUS
  <2>1. HydrationTypeOK
    BY HydrationTyped DEF FullInv, RenderInv
  <2>2. file \in [Replicas -> [Operations -> Scripts]] /\ processed \subseteq Loops /\ kindType \in KindTypes
    BY DEF FullInv, RenderInv, FileInv, ActionInv
  <2>3. ASSUME NEW l \in Loops PROVE Len(out[l]) \in 0 .. Len(RenderedOperations(l))
    <3>1. OutOK(l, pc[l], agg[l], out[l], TargetKind) /\ out[l] \in Seq(Manifests) /\ agg[l] \in Aggregates
      BY DEF FullInv, RenderInv, OutInv, Inv, LoopInv
    <3>2. Len(OpsOf(l, agg[l])) \in {1, 2} /\ Len(out[l]) \in Nat
      <4>1. Len(OpsOf(l, agg[l])) \in {1, 2}
        BY <3>1, OpsOfLoop
      <4> QED
        BY <3>1, <4>1
    <3>3. Len(out[l]) <= Len(OpsOf(l, agg[l]))
      BY <3>1 DEF OutOK
    <3>4. RenderedOperations(l) = OpsOf(l, agg[l])
      BY OpsOfRendering
    <3> QED
      BY <3>2, <3>3, <3>4
  <2>4. \A l \in Loops : \A i \in DOMAIN out[l] : out[l][i] \in Manifests
    BY AboutManifest DEF ManifestOK
  <2> QED
    BY <2>1, <2>2, <2>3, <2>4 DEF TypeOK
<1> QED
  BY <1>1, RenderInvariant, PTL

\* However many loops create, complete and read the Secret while users write it and
\* processes stop: nobody has a Secret that the API server did not hold, but for the
\* empty one that the dropped error of a failed Get leaves to loops without
\* createIfNotExists of a process that is stopping.
THEOREM CustodyOfKeys == RenderSpec => []KeyCustody
<1>1. FullInv => KeyCustody
  BY Custody DEF FullInv, RenderInv
<1> QED
  BY <1>1, RenderInvariant, PTL

\* With createIfNotExists, and no failed key generation, every aggregate whose key
\* has entries of its own has both halves of one identity, also if other keys share
\* the entry of its passphrase.
THEOREM KeysArePairs == RenderSpec => []KeyPair
<1>1. FullInv => KeyPair
  BY Pair DEF FullInv, RenderInv
<1> QED
  BY <1>1, RenderInvariant, PTL

\* hydrateGPGSecret changes the entries of keys that miss a half and are to be
\* created, and no others, whatever the caches of how many processes say, whatever
\* entries the keys share, and even when a failed call took effect.
THEOREM KeysAreKept == RenderSpec => KeyNeverReplaced
<1> DEFINE Kept == \A n \in Names : api'.data[n] # api.data[n] =>
                      \E b \in Backups : /\ n \in Indexes(Ref[b]) /\ ShouldUpdate(api.data, Ref[b])
                                        /\ \E s \in published[b] : s.create
<1>1. FullInv /\ [RenderNext]_allVars => [spent'["user"] = spent["user"] => Kept]_vars
  BY RenderNextHydrates, KeyKept DEF FullInv, RenderInv
<1> QED
  BY <1>1, RenderInvariant, PTL DEF RenderSpec, KeyNeverReplaced


\* However the renderings of both operations share ./templates: a script that is
\* read is that of the operation, or is found truncated.
THEOREM ScriptsOfOperations == RenderSpec => []ScriptOfOperation
<1>1. FullInv => ScriptOfOperation
  <2> SUFFICES ASSUME FullInv, NEW l \in Loops, NEW i \in DOMAIN out[l], out[l][i].script # Empty
               PROVE  out[l][i].script[2] = out[l][i].op
    BY DEF ScriptOfOperation
  <2> DEFINE op == OpsOf(l, agg[l])[i]
             m == out[l][i]
  <2>1. ManifestOK(l, agg[l], op, m, TargetKind)
    BY AboutManifest
  <2> HIDE DEF op, m
  <2>2. m.op = op /\ (m.script = Empty \/ m.script \in (0 .. MaxTemplate) \X {op})
    BY <2>1 DEF ManifestOK, ScriptOK
  <2>3. m.script # Empty => m.script[2] = m.op
    BY <2>2
  <2> QED
    BY <2>3 DEF m
<1> QED
  BY <1>1, RenderInvariant, PTL

\* A token or variable that the Secret had whenever there was one is what a
\* manifest has: the text of .spec.vars is overwritten.
THEOREM SecretsCover == RenderSpec => []SecretsCoverVars
<1>1. FullInv => SecretsCoverVars
  <2> DEFINE always(name) == /\ \A b \in Backups : name \notin Indexes(Ref[b])
                            /\ \A s \in history : s.exists => s.data[name] # Nothing
  <2> SUFFICES ASSUME FullInv, NEW l \in Loops, NEW i \in DOMAIN out[l]
               PROVE  /\ always("token") => out[l][i].definition["Repository.token"] = Token
                      /\ always("Params.password") /\ agg[l].spec.vars =>
                             out[l][i].definition["Params.password"] = Password
    BY DEF SecretsCoverVars
  <2>1. /\ ManifestOK(l, agg[l], OpsOf(l, agg[l])[i], out[l][i], TargetKind)
        /\ RestOK(l, pc[l], agg[l], history, published[Backup(l)])
        /\ pc[l] \notin Before \cup Reading
    BY AboutManifest
  <2>2. \A s \in history : /\ Free("token") => s.data["token"] \in {Nothing, Token}
                           /\ Free("Params.password") => s.data["Params.password"] \in {Nothing, Password}
    BY DEF FullInv, RenderInv, Inv, WorldInv, SecretInv, GoodData
  <2>3. ASSUME always("token") PROVE out[l][i].definition["Repository.token"] = Token
    <3>1. PICK s \in history : s.exists /\ agg[l].token = s.data["token"]
      BY <2>1 DEF RestOK, Before, Reading
    <3>2. agg[l].token = Token /\ Token # Nothing
      BY <2>2, <2>3, <3>1 DEF Free, Token, Nothing
    <3> QED
      BY <2>1, <3>2 DEF ManifestOK
  <2>4. ASSUME always("Params.password"), agg[l].spec.vars
        PROVE  out[l][i].definition["Params.password"] = Password
    <3>1. PICK s \in history : s.exists /\ agg[l].vars = s.data
      BY <2>1, <2>4 DEF RestOK
    <3>2. agg[l].vars["Params.password"] = Password /\ Password # Nothing
      BY <2>2, <2>4, <3>1 DEF Free, Password, Nothing
    <3> QED
      BY <2>1, <3>2 DEF ManifestOK
  <2> QED
    BY <2>3, <2>4
<1> QED
  BY <1>1, RenderInvariant, PTL

\* The cache is never spoilt, a CronJob is rendered for what a user asked for, and a
\* Job for an action only; an action is processed only when one could be applied.
THEOREM KindsArePublished == RenderSpec => []KindsAsPublished
<1>1. FullInv => KindsAsPublished
  <2> SUFFICES ASSUME FullInv PROVE KindsAsPublished
    OBVIOUS
  <2>1. CacheUnspoilt /\ (processed # {} => TargetKind = "Job")
    BY DEF FullInv, RenderInv, Inv, WorldInv, CacheInv, ActionInv
  <2>2. ASSUME NEW l \in Loops, NEW i \in DOMAIN out[l]
        PROVE  /\ "CronJob" \in out[l][i].kinds =>
                    \E s \in published[Backup(l)] : s.cron /\ s.operation = out[l][i].op
               /\ "Job" \in out[l][i].kinds => Request[l].action = out[l][i].op
    <3> DEFINE op == OpsOf(l, agg[l])[i]
    <3>1. /\ ManifestOK(l, agg[l], op, out[l][i], TargetKind)
          /\ RestOK(l, pc[l], agg[l], history, published[Backup(l)])
          /\ pc[l] \notin Before \cup Reading /\ agg[l] \in Aggregates
          /\ i \in 1 .. Len(OpsOf(l, agg[l]))
      BY <2>2, AboutManifest
    <3>2. ASSUME "CronJob" \in out[l][i].kinds
          PROVE  \E s \in published[Backup(l)] : s.cron /\ s.operation = out[l][i].op
      <4>1. /\ Request[l].action = "" /\ agg[l].spec.cron /\ agg[l].spec.operation = out[l][i].op
        BY <3>1, <3>2 DEF ManifestOK
      <4>2. agg[l].spec \in published[Backup(l)]
        BY <3>1, <4>1 DEF RestOK, Before
      <4> QED
        BY <4>1, <4>2
    <3>3. ASSUME "Job" \in out[l][i].kinds PROVE Request[l].action = out[l][i].op
      <4>1. Request[l].action # "" /\ out[l][i].op = op
        BY <3>1, <3>3 DEF ManifestOK
      <4>2. agg[l].spec.operation = Request[l].action
        BY <3>1, <4>1 DEF RestOK, Before
      <4>3. OpsOf(l, agg[l]) = <<agg[l].spec.operation>>
        BY <3>1, <4>1, OpsOfLoop
      <4>4. i = 1
        BY <3>1, <4>3
      <4>5. op = agg[l].spec.operation
        BY <4>3, <4>4
      <4> QED
        BY <4>1, <4>2, <4>5
    <3> QED
      BY <3>2, <3>3
  <2> QED
    BY <2>1, <2>2 DEF KindsAsPublished
<1> QED
  BY <1>1, RenderInvariant, PTL

\* The indexes of the key are spelt out, as in examples/scheduledbackup.yaml: the
\* code generates under the default of an index but reads by the index in the spec.
ExplicitIndexes == \A b \in Backups : Ref[b].publicKey # "" /\ Ref[b].privateKey # ""

\* The key of a manifest is the half for its operation, of the aggregate's Secret.
LEMMA KeyOfManifest ==
  ASSUME ExplicitIndexes, FullInv, NEW l \in Loops, NEW i \in DOMAIN out[l]
  PROVE  /\ out[l][i].key =
              agg[l].secret.data[IF out[l][i].op = "backup" THEN Pub(Backup(l)) ELSE Priv(Backup(l))]
         /\ out[l][i].definition["HelmValues.gpgKeyContent"] = out[l][i].key
         /\ Backup(l) \in Backups /\ GoodData(agg[l].secret.data)
         /\ agg[l].spec.create /\ Calm => ~ShouldUpdate(agg[l].secret.data, Ref[Backup(l)])
<1>1. /\ ManifestOK(l, agg[l], OpsOf(l, agg[l])[i], out[l][i], TargetKind)
      /\ Backup(l) \in Backups /\ Hydrated(l)
  BY AboutManifest
<1>2. /\ out[l][i].key = GPGKey(agg[l], Ref[Backup(l)], out[l][i].op)
      /\ out[l][i].definition["HelmValues.gpgKeyContent"] = out[l][i].key
  BY <1>1 DEF ManifestOK, MyRef
<1>3. /\ Ref[Backup(l)].publicKey = Pub(Backup(l)) /\ Ref[Backup(l)].privateKey = Priv(Backup(l))
  BY <1>1, IndexNames DEF ExplicitIndexes
<1>4. /\ GoodData(agg[l].secret.data)
      /\ agg[l].spec.create /\ Calm => ~ShouldUpdate(agg[l].secret.data, Ref[Backup(l)])
  BY <1>1, HydratedSecret DEF FullInv, RenderInv, MyRef
<1> QED
  BY <1>1, <1>2, <1>3, <1>4 DEF GPGKey

\* Each manifest has one key as the key file and the variable.  If the key has entries
\* of its own, it is the half for the operation, and the manifests of one aggregate
\* are of one identity.
THEOREM KeysOfManifests == ExplicitIndexes => (RenderSpec => []ManifestKeys)
<1> SUFFICES ASSUME ExplicitIndexes PROVE RenderSpec => []ManifestKeys
  OBVIOUS
<1>1. FullInv => ManifestKeys
  <2> SUFFICES ASSUME FullInv, NEW l \in Loops, NEW i \in DOMAIN out[l]
               PROVE  /\ out[l][i].definition["HelmValues.gpgKeyContent"] = out[l][i].key
                      /\ Separate(Backup(l)) =>
                           /\ out[l][i].key # Nothing => out[l][i].key[2] =
                                 IF out[l][i].op = "backup" THEN "public" ELSE "private"
                           /\ agg[l].spec.create /\ Calm =>
                                 out[l][i].key # Nothing /\ out[l][i].key[1] = out[l][1].key[1]
    BY DEF ManifestKeys, Calm
  <2> DEFINE d == agg[l].secret.data
             b == Backup(l)
             key(j) == out[l][j].key
             op(j) == out[l][j].op
  <2>1. \A j \in DOMAIN out[l] : key(j) = d[IF op(j) = "backup" THEN Pub(b) ELSE Priv(b)]
    BY KeyOfManifest
  <2>2. /\ b \in Backups /\ GoodData(d) /\ (agg[l].spec.create /\ Calm => ~ShouldUpdate(d, Ref[b]))
        /\ out[l][i].definition["HelmValues.gpgKeyContent"] = key(i)
    BY KeyOfManifest
  <2>3. 1 \in DOMAIN out[l]
    <3>1. out[l] \in Seq(Manifests) /\ i \in 1 .. Len(out[l])
      BY AboutManifest
    <3> QED
      BY <3>1
  <2> HIDE DEF d, b, key, op
  <2>4. Separate(b) /\ key(i) # Nothing => key(i)[2] = IF op(i) = "backup" THEN "public" ELSE "private"
    <3>1. Separate(b) => Half(d[Pub(b)], "public") /\ Half(d[Priv(b)], "private")
      BY <2>2 DEF GoodData
    <3> QED
      BY <2>1, <3>1 DEF Half
  <2>5. ASSUME Separate(b), agg[l].spec.create, Calm PROVE key(i) # Nothing /\ key(i)[1] = key(1)[1]
    <3>1. PICK k \in Keys : d[Pub(b)] = <<k, "public">> /\ d[Priv(b)] = <<k, "private">>
      BY <2>2, <2>5, WholeKey
    <3>2. \A j \in DOMAIN out[l] : key(j) \in {<<k, "public">>, <<k, "private">>}
      BY <2>1, <3>1
    <3>3. /\ <<k, "public">> # Nothing /\ <<k, "private">> # Nothing
          /\ <<k, "public">>[1] = k /\ <<k, "private">>[1] = k
      BY EntryValues
    <3>4. \A j \in DOMAIN out[l] : key(j) # Nothing /\ key(j)[1] = k
      BY <3>2, <3>3
    <3> QED
      BY <2>3, <3>4
  <2> QED
    BY <2>2, <2>4, <2>5 DEF b, key, op
<1> QED
  BY <1>1, RenderInvariant, PTL
=============================================================================
