----------------------------- MODULE Rendering ------------------------------
(***************************************************************************)
(* Rendering of hydrated aggregates with backup-maker-generator (BMG).     *)
(* Each rendering has a temporary directory of its own for key, variables  *)
(* and output, but writes the script of the template into ./templates of   *)
(* the process, where the reconcilers of ScheduledBackups and of           *)
(* RequestedBackupActions meet.  All ScheduledBackups here refer to        *)
(* templates of one name.                                                  *)
(***************************************************************************)
EXTENDS Hydration, Sequences

CONSTANTS
    Renderers,   \* the loops of the two reconcilers; the rest observe only
    KindTypes    \* what an action may have in .spec.kindType

VARIABLES
    file,      \* the script files of each replica
    out,       \* what each loop has rendered so far, one manifest per operation
    processed, \* loops whose RequestedBackupAction has .status.processed
    kindType   \* the .spec.kindType of the actions

renderVars == <<file, out, processed, kindType>>
allVars == <<vars, renderVars>>

\* A script is a version of the template and the operation it is for; 0 is the
\* version that BMG brings along.  Empty is what a truncated file holds.
Empty == <<0, "">>
Scripts == {Empty} \cup ((0 .. MaxTemplate) \X Operations)

Helpers == {"Secret", "ConfigMap", "SealedSecret", "ExternalSecret"}
Kinds == Helpers \cup {"CronJob", "Job"} \cup KindTypes

\* The variables of a template that secrets cover; Text is what .spec.vars says.
Variables == {"HelmValues.gpgKeyContent", "Repository.token", "Params.password"}
ImportOnlyKeys == {"Params.password"}
Text == <<0, "text">>

Manifests == [op : Operations, script : Scripts, image : 0 .. MaxTemplate, key : Values,
              definition : [Variables -> Values \cup {Text}], kinds : SUBSET Kinds]

RenderInit ==
    /\ Init
    /\ file = [p \in Replicas |-> [op \in Operations |-> Empty]]
    /\ out = [l \in Loops |-> <<>>]
    /\ processed = {}
    /\ kindType \in KindTypes

-----------------------------------------------------------------------------
(* What the aggregates answer to the renderer                              *)

ShouldRenderDependentObjectsForAllOperationTypes(l) == Request[l].action = ""
GetOperation(l) == agg[l].spec.operation
ShouldCreateCronJob(l) == agg[l].spec.cron
ProvidesScript(l) == ~agg[l].spec.internal

\* RenderKubernetesResourcesFor: the operations, in this order.
RenderedOperations(l) ==
    IF ShouldRenderDependentObjectsForAllOperationTypes(l)
    THEN <<"backup", "restore">>
    ELSE <<GetOperation(l)>>

Op(l) == RenderedOperations(l)[Len(out[l]) + 1]

NewResourceTypesFilterForScheduledBackup(l, op) ==
    Helpers
    \cup (IF GetOperation(l) = op /\ ShouldCreateCronJob(l) THEN {"CronJob"} ELSE {})
NewResourceTypesFilterForRequestedBackupAction == {"Job"}

\* HelmValues.kindType of an action.
TargetKind == IF kindType = "" THEN "Job" ELSE kindType

\* BMG renders all helpers, and a CronJob unless it is told another kind.
Documents(l) == Helpers \cup {IF Request[l].action = "" THEN "CronJob" ELSE TargetKind}

\* The filter keeps the kinds that are the object's own.
parseRenderedManifests(l, op) ==
    Documents(l) \cap (IF ShouldRenderDependentObjectsForAllOperationTypes(l)
                       THEN NewResourceTypesFilterForScheduledBackup(l, op)
                       ELSE NewResourceTypesFilterForRequestedBackupAction)

\* Mutant of TemplateDir: the scripts of both operations in one directory.
TemplateDirShared(op) == "backup"

\* Mutant of writeDefinition: what .spec.vars has is not overwritten.
writeDefinitionTextFirst(a) ==
    [v \in Variables |-> IF v = "HelmValues.gpgKeyContent" THEN a.gpgKeyContent ELSE Text]

\* The variables in definition.yaml: the AdditionalVarsList is set over .spec.vars,
\* and over both what is imported from the Secret.
writeDefinition(a) ==
    [v \in Variables |->
        IF v \in ImportOnlyKeys /\ a.vars[v] # Nothing THEN a.vars[v]
        ELSE IF v = "HelmValues.gpgKeyContent" THEN a.gpgKeyContent
        ELSE IF v = "Repository.token" /\ a.token # Nothing THEN a.token
        ELSE Text]

\* The directory of an operation's scripts.
TemplateDir(op) == op

-----------------------------------------------------------------------------
(* RenderKubernetesResourcesForOperation                                   *)

\* A loop that has something to render.  An observer has not, and a reconciler
\* finds out that the action was performed only after hydrating it.
MustRender(l) == l \in Renderers \ processed

Return(l) ==
    /\ pc[l] = "hydrated" /\ ~MustRender(l)
    /\ agg' = [agg EXCEPT ![l] = NoAggregate]
    /\ Goto(l, "idle")
    /\ UNCHANGED <<apiVars, cache, stopping, pending, spent, renderVars>>

\* writeTemplate opens the file, which truncates it, and then fills it.
TruncateTemplate(l) ==
    /\ pc[l] = "hydrated" /\ MustRender(l)
    /\ IF ProvidesScript(l)
       THEN file' = [file EXCEPT ![Home(l)][TemplateDir(Op(l))] = Empty] /\ Goto(l, "write")
       ELSE UNCHANGED file /\ Goto(l, "workspace")
    /\ UNCHANGED <<apiVars, cache, stopping, pending, agg, spent, out, processed, kindType>>

WriteTemplate(l) ==
    /\ pc[l] = "write"
    /\ file' = [file EXCEPT ![Home(l)][TemplateDir(Op(l))] = <<agg[l].tpl, Op(l)>>]
    /\ Goto(l, "workspace")
    /\ UNCHANGED <<apiVars, cache, stopping, pending, agg, spent, out, processed, kindType>>

\* Mutant of WriteWorkspace: the key variable is left as hydration set it.
WriteWorkspaceOnce(l) ==
    /\ pc[l] = "workspace" /\ Goto(l, "generate")
    /\ UNCHANGED <<agg, apiVars, cache, stopping, pending, spent, renderVars>>

\* writeGPGKey and writeDefinition: gpg.key and definition.yaml of the temporary
\* directory.  The variable of the key is set anew for each operation.
WriteWorkspace(l) ==
    /\ pc[l] = "workspace"
    /\ agg' = [agg EXCEPT ![l].gpgKeyContent = GPGKey(agg[l], MyRef(l), Op(l))]
    /\ Goto(l, "generate")
    /\ UNCHANGED <<apiVars, cache, stopping, pending, spent, renderVars>>

\* BMG reads the script by the name of the template, and its output is parsed.
Generate(l) ==
    /\ pc[l] = "generate"
    /\ out' = [out EXCEPT ![l] = Append(@,
         [op |-> Op(l), image |-> agg[l].tpl,
          script |-> IF ProvidesScript(l) THEN file[Home(l)][TemplateDir(Op(l))] ELSE <<0, Op(l)>>,
          key |-> GPGKey(agg[l], MyRef(l), Op(l)),
          definition |-> writeDefinition(agg[l]),
          kinds |-> parseRenderedManifests(l, Op(l))])]
    /\ Goto(l, IF Len(out[l]) + 1 = Len(RenderedOperations(l)) THEN "rendered" ELSE "hydrated")
    /\ UNCHANGED <<apiVars, cache, stopping, pending, agg, spent, file, processed, kindType>>

RenderFails(l) ==
    /\ pc[l] \in {"write", "workspace", "generate"} /\ Spend("render")
    /\ Fail(l) /\ out' = [out EXCEPT ![l] = <<>>]
    /\ UNCHANGED <<apiVars, cache, stopping, file, processed, kindType>>

\* ApplyObjects applies nothing if nothing is left to apply, or the context of its
\* calls is cancelled, which are errors; what it does otherwise, and the status
\* updates, are modelled with each controller.
Applicable(l) == \E i \in DOMAIN out[l] : out[l][i].kinds # {}

Rendered(l) ==
    /\ pc[l] = "rendered"
    /\ out' = [out EXCEPT ![l] = <<>>]
    /\ IF Applicable(l) /\ Home(l) \notin stopping
       THEN /\ agg' = [agg EXCEPT ![l] = NoAggregate]
            /\ processed' = processed \cup {k \in {l} : Request[k].action # ""}
            /\ Goto(l, "idle") /\ UNCHANGED pending
       ELSE Fail(l) /\ UNCHANGED processed
    /\ UNCHANGED <<apiVars, cache, stopping, spent, file, kindType>>

RenderStep(l) == \/ Return(l) \/ TruncateTemplate(l) \/ WriteTemplate(l) \/ WriteWorkspace(l)
                 \/ Generate(l) \/ Rendered(l)

\* A process that is run again has neither its files nor its memory.
RunAgain(p) ==
    /\ Run(p)
    /\ file' = [file EXCEPT ![p] = [op \in Operations |-> Empty]]
    /\ out' = [l \in Loops |-> IF l \in p THEN <<>> ELSE out[l]]
    /\ UNCHANGED <<processed, kindType>>

RenderNext ==
    \/ (Environment \/ \E l \in Loops : HydrationStep(l) \/ HydrationFault(l)) /\ UNCHANGED renderVars
    \/ \E l \in Loops : RenderStep(l) \/ RenderFails(l)
    \/ \E p \in Replicas : RunAgain(p)

RenderSpec == RenderInit /\ [][RenderNext]_allVars

\* Loops and informers make progress, and a process that stops is run again;
\* nothing is assumed of users and faults.
RenderFairSpec ==
    /\ RenderSpec
    /\ \A l \in Loops : WF_allVars((HydrationStep(l) /\ UNCHANGED renderVars) \/ RenderStep(l))
    /\ \A p \in Replicas :
         /\ WF_allVars(SyncSecret(p) /\ UNCHANGED renderVars)
         /\ WF_allVars(SyncTemplate(p) /\ UNCHANGED renderVars)
         /\ \A b \in Backups : WF_allVars(SyncBackup(p, b) /\ UNCHANGED renderVars)
         /\ WF_allVars(p \in stopping /\ RunAgain(p))

-----------------------------------------------------------------------------

\* Types of the loops' aggregates, of the files and of what is rendered.
TypeOK ==
    /\ HydrationTypeOK
    /\ file \in [Replicas -> [Operations -> Scripts]] /\ processed \subseteq Loops
    /\ kindType \in KindTypes
    /\ \A l \in Loops : /\ Len(out[l]) \in 0 .. Len(RenderedOperations(l))
                        /\ \A i \in DOMAIN out[l] : out[l][i] \in Manifests

\* No manifest of a backup runs the restore script, or the other way round, when
\* renderings of both operations write and read ./templates at once ("operator
\* writes both scripts under same name, but different subdirectories").
ScriptOfOperation ==
    \A l \in Loops : \A i \in DOMAIN out[l] :
        out[l][i].script # Empty => out[l][i].script[2] = out[l][i].op

\* A backup is encrypted with the public half and a restore decrypts with the
\* private one, in the key file as in HelmValues.gpgKeyContent, which hydration
\* sets for one of the two operations and rendering overwrites for each; and the
\* two manifests of a ScheduledBackup are of one identity.
ManifestKeys ==
    \A l \in Loops : \A i \in DOMAIN out[l] :
        LET m == out[l][i]
        IN  /\ m.definition["HelmValues.gpgKeyContent"] = m.key
            /\ Separate(Backup(l)) =>
                 /\ m.key # Nothing => m.key[2] = IF m.op = "backup" THEN "public" ELSE "private"
                 /\ agg[l].spec.create /\ spent["keygen"] = 0 =>
                        m.key # Nothing /\ m.key[1] = out[l][1].key[1]

\* examples/scheduledbackup.yaml: the token in .spec.vars "is ignored and
\* overwritten", and variables of the Secret "will cover the keys in vars": if the
\* Secret had them whenever there was one, and not in entries of a key, no rendering falls
\* back to the text.
SecretsCoverVars ==
    \A l \in Loops : \A i \in DOMAIN out[l] :
        LET m == out[l][i]
            always(name) == /\ \A b \in Backups : name \notin Indexes(Ref[b])
                            /\ \A s \in history : s.exists => s.data[name] # Nothing
        IN  /\ always("token") => m.definition["Repository.token"] = Token
            /\ always("Params.password") /\ agg[l].spec.vars =>
                   m.definition["Params.password"] = Password

\* A CronJob is rendered only for the operation of a spec that a user wrote with
\* cronJob.enabled, a Job only for a RequestedBackupAction, and no action counts as
\* performed when the filter left nothing of it.
KindsAsPublished ==
    /\ CacheUnspoilt
    /\ processed # {} => TargetKind = "Job"
    /\ \A l \in Loops : \A i \in DOMAIN out[l] :
        LET m == out[l][i]
        IN  /\ "CronJob" \in m.kinds =>
                 \E s \in published[Backup(l)] : s.cron /\ s.operation = m.op
            /\ "Job" \in m.kinds => Request[l].action = m.op

\* While there is a template and createIfNotExists, a request is hydrated, and
\* rendered if its controller renders: loops that lose the race for the Secret, or
\* read it before their cache has it, get there by retrying.
EventuallyServed ==
    \A l \in Loops :
        l \in pending ~> \/ pc[l] = "rendered" \/ (pc[l] = "hydrated" /\ ~MustRender(l))
                         \/ ~sb[Backup(l)].create \/ tpl = 0

\* "Extracts kind: ClusterBackupProcedureTemplate into a local file": the script
\* that is rendered is the one of the template whose image is rendered.
OwnScript ==
    \A l \in Loops : \A i \in DOMAIN out[l] :
        out[l][i].script = <<out[l][i].image, out[l][i].op>>
=============================================================================
