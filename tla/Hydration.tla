----------------------------- MODULE Hydration ------------------------------
(***************************************************************************)
(* Hydration of aggregates: the factory collects the spec of a             *)
(* ScheduledBackup, its GPG key, template and token before an object is    *)
(* rendered or observed.  Every controller loop of every replica does so,  *)
(* each under the lock of its own object; the Secret, which ScheduledBackups*)
(* share and the factory creates or completes, is under none.  As in the   *)
(* example of the README one Secret holds GPG keys, token and vars.        *)
(*                                                                         *)
(* All is read from the informers' caches of the replica, the "fresh" Get  *)
(* before an update too: the manager's client reads Secrets from there.    *)
(***************************************************************************)
EXTENDS Naturals, FiniteSetsExt

CONSTANTS
    Loops,           \* controller loops, each with an object of its own lock
    Replicas,        \* the processes: disjoint sets of loops
    Request,         \* the ScheduledBackup of each loop's object, and the action
                     \* ("" if the object is that ScheduledBackup)
    Ref,             \* .spec.gpgKeySecretRef of each ScheduledBackup: entry names
    FirstSpecs,      \* what users write at first
    LaterSpecs,      \* what they may change a spec to
    Keys,            \* GPG identities
    MaxTemplate,     \* the bound on versions of the template
    Budget,          \* the bound on each fault
    MaxFaults        \* the bound on all faults together

Backups == DOMAIN Ref
Operations == {"backup", "restore"}
Specs == [operation : Operations, cron : BOOLEAN,
          create : BOOLEAN,    \* .gpgKeySecretRef.createIfNotExists
          internal : BOOLEAN,  \* .templateRef.kind is "internal"
          vars : BOOLEAN]      \* there is a .varsSecretRef

Faults == {"user",      \* a user writes or deletes the Secret
           "template",  \* a user writes the template
           "spec",      \* a user edits a ScheduledBackup
           "keygen",    \* no GPG identity can be generated
           "write",     \* Create or Update answers with an error
           "stop",      \* a process is told to stop
           "crash",     \* a process dies
           "render"}    \* a file cannot be written, or the generator fails

-----------------------------------------------------------------------------
(* The Secret.  An entry is one half of an identity, the token, a variable *)
(* or missing.                                                             *)

Nothing == <<0, "none">>
Token == <<0, "token">>
Password == <<0, "password">>
Values == {Nothing, Token, Password} \cup (Keys \X {"public", "private", "passphrase"})

GetPublicKeyIndex(ref) == IF ref.publicKey = "" THEN "key.pub" ELSE ref.publicKey
GetPrivateKeyIndex(ref) == IF ref.privateKey = "" THEN "key" ELSE ref.privateKey
GetPassphraseIndex(ref) == IF ref.passphraseKey = "" THEN "passphrase" ELSE ref.passphraseKey

\* The entries of an identity; the passphrase may be missing.
KeyIndexes(ref) == {GetPublicKeyIndex(ref), GetPrivateKeyIndex(ref)}
Indexes(ref) == KeyIndexes(ref) \cup {GetPassphraseIndex(ref)}

\* "" is what a spec that leaves an index to its default is read with.
Names == {"", "token", "Params.password"} \cup UNION {Indexes(Ref[b]) : b \in Backups}

ASSUME HydrationAssumption ==
    /\ Replicas \subseteq SUBSET Loops
    /\ \A l \in Loops : \E p \in Replicas : l \in p
    /\ \A p, q \in Replicas : p \cap q # {} => p = q
    /\ Request \in [Loops -> [backup : Backups, action : Operations \cup {""}]]
    /\ FirstSpecs \in [Backups -> Specs] /\ LaterSpecs \subseteq Specs
    /\ Keys \subseteq Nat \ {0} /\ MaxTemplate \in Nat \ {0}
    /\ Budget \in [Faults -> Nat] /\ MaxFaults \in Nat

\* The halves of the key of b have entries that no other use of the Secret touches,
\* unless it is the same key.  The passphrase's entry may be shared: it is if specs
\* leave its index to the default, or copy the one of the examples.
Separate(b) ==
    LET own == KeyIndexes(Ref[b])
    IN  /\ GetPublicKeyIndex(Ref[b]) # GetPrivateKeyIndex(Ref[b])
        /\ own \cap {"token", "Params.password"} = {}
        /\ \A c \in Backups :
              \/ own \cap Indexes(Ref[c]) = {}
              \/ /\ GetPublicKeyIndex(Ref[c]) = GetPublicKeyIndex(Ref[b])
                 /\ GetPrivateKeyIndex(Ref[c]) = GetPrivateKeyIndex(Ref[b])
                 /\ GetPassphraseIndex(Ref[c]) \notin own

Secrets == [rv : Nat, exists : BOOLEAN, data : [Names -> Values]]
NoData == [n \in Names |-> Nothing]
NoSecret == [rv |-> 0, exists |-> FALSE, data |-> NoData]

\* Mutant of ShouldUpdate: the public key stands for both.
ShouldUpdateNoPublic(data, ref) == data[GetPublicKeyIndex(ref)] = Nothing

ShouldUpdate(data, ref) == \E n \in KeyIndexes(ref) : data[n] = Nothing

\* Mutant of UpdateGPGSecretWithRecreatedGPGKey: both entries get the whole identity.
UpdateGPGSecretWithKeyring(data, ref, k) ==
    [n \in Names |-> IF n \in KeyIndexes(ref) THEN <<k, "keyring">> ELSE data[n]]

\* Mutant of UpdateGPGSecretWithRecreatedGPGKey: the map is made anew.
UpdateGPGSecretFromScratch(data, ref, k) ==
    [NoData EXCEPT ![GetPublicKeyIndex(ref)] = <<k, "public">>,
                   ![GetPrivateKeyIndex(ref)] = <<k, "private">>]

\* The data with the identity k, which replaces both halves and has no passphrase.
UpdateGPGSecretWithRecreatedGPGKey(data, ref, k) ==
    [data EXCEPT ![GetPassphraseIndex(ref)] = Nothing,
                 ![GetPublicKeyIndex(ref)] = <<k, "public">>,
                 ![GetPrivateKeyIndex(ref)] = <<k, "private">>]

\* What users put into a Secret with data: token and variable alone, with the public
\* half of a key, or with the key; or the key beside what is there.
WithToken == [NoData EXCEPT !["token"] = Token, !["Params.password"] = Password]
WithKey(data, b, k) ==
    [data EXCEPT ![GetPassphraseIndex(Ref[b])] = <<k, "passphrase">>,
                 ![GetPublicKeyIndex(Ref[b])] = <<k, "public">>,
                 ![GetPrivateKeyIndex(Ref[b])] = <<k, "private">>]
Provided(data, k) ==
    UNION {{WithToken, [WithToken EXCEPT ![GetPublicKeyIndex(Ref[b])] = <<k, "public">>],
            WithKey(WithToken, b, k), WithKey(data, b, k)} : b \in Backups}

-----------------------------------------------------------------------------

VARIABLES
    api,        \* the Secret in the API server
    tpl,        \* the version of the template, 0 if there is none
    sb,         \* the spec of each ScheduledBackup
    cache,      \* what the informers of each replica know of them
    stopping,   \* replicas whose context is cancelled
    pending,    \* loops whose queue holds the request
    pc, agg,    \* where each loop is, and the aggregate it builds
    history,    \* every version of the Secret so far
    published,  \* every spec of each ScheduledBackup so far
    spent       \* faults so far

apiVars == <<api, tpl, sb, history, published>>
vars == <<apiVars, cache, stopping, pending, pc, agg, spent>>

\* ScheduledBackupAggregate: GPGSecret, Template, the AdditionalVarsList (key and
\* token) and VarsListSecret.
Aggregates == [spec : Specs, secret : Secrets, tpl : 0 .. MaxTemplate,
               gpgKeyContent : Values, token : Values, vars : [Names -> Values]]
NoAggregate == [spec |-> CHOOSE s \in Specs : TRUE, secret |-> NoSecret, tpl |-> 0,
                gpgKeyContent |-> Nothing, token |-> Nothing, vars |-> NoData]

\* The informers of the controllers' kinds list before a controller starts; the
\* one of Secrets is started by the first Get, which may be another object's.
Listed == [synced |-> FALSE, secret |-> NoSecret, tpl |-> tpl, sb |-> sb]

Init ==
    /\ \E data \in {NoData, WithToken} :
           api = [rv |-> 1, exists |-> data # NoData, data |-> data]
    /\ tpl = 1 /\ sb = FirstSpecs
    /\ cache = [p \in Replicas |-> Listed]
    /\ stopping = {} /\ pending = Loops
    /\ pc = [l \in Loops |-> "idle"]
    /\ agg = [l \in Loops |-> NoAggregate]
    /\ history = {api}
    /\ published = [b \in Backups |-> {sb[b]}]
    /\ spent = [f \in Faults |-> 0]

Home(l) == CHOOSE p \in Replicas : l \in p
Backup(l) == Request[l].backup
MyRef(l) == Ref[Backup(l)]
Goto(l, step) == pc' = [pc EXCEPT ![l] = step]

\* One more fault f, within the bounds.
Spend(f) == /\ spent[f] < Budget[f]
            /\ MapThenSumSet(LAMBDA g : spent[g], Faults) < MaxFaults
            /\ spent' = [spent EXCEPT ![f] = @ + 1]

\* A read of the Secret: from the informer's store; NotFound; or an error of
\* another kind, if the context is cancelled and the informer has not listed.
Readable(l) == cache[Home(l)].synced
Unreadable(l) == ~Readable(l) /\ Home(l) \in stopping
Found(l) == Readable(l) /\ cache[Home(l)].secret.exists
NotFound(l) == Readable(l) /\ ~cache[Home(l)].secret.exists
Cached(l) == cache[Home(l)].secret

\* Mutant of Fail: the request is not queued again.
FailForGood(l) == /\ agg' = [agg EXCEPT ![l] = NoAggregate]
                  /\ Goto(l, "idle") /\ UNCHANGED pending

\* The error goes up to the controller and the request is queued again.
Fail(l) == /\ pending' = pending \cup {l}
           /\ agg' = [agg EXCEPT ![l] = NoAggregate]
           /\ Goto(l, "idle")

\* The factory goes on to step with the Secret s.
Take(l, s, step) == /\ agg' = [agg EXCEPT ![l].secret = s]
                    /\ Goto(l, step)
                    /\ UNCHANGED pending

\* A new identity: one that was never stored and is in nobody's hands.  Keys bounds
\* how often one can be generated.
NewKeys ==
    LET unused == Keys \ {s.data[n][1] : n \in Names,
                          s \in history \cup {agg[l].secret : l \in Loops}}
    IN  {k \in unused : \A j \in unused : k <= j}

StoreSecret(data) == /\ api' = [rv |-> api.rv + 1, exists |-> TRUE, data |-> data]
                     /\ history' = history \cup {api'}
                     /\ UNCHANGED <<tpl, sb, published>>

-----------------------------------------------------------------------------
(* hydrateGPGSecret                                                        *)

\* What a read from the cache gives: a copy, so that changing it leaves the cached
\* object as it is.
DeepCopyObject(p, b) == cache[p].sb[b]

\* FetchScheduledBackup.  A ScheduledBackup that its reconciler finds applied
\* (ScheduledBackup!MustApply) does not get here.
Fetch(l) ==
    /\ pc[l] = "idle" /\ l \in pending /\ Home(l) \notin stopping
    /\ pending' = pending \ {l}
    /\ agg' = [agg EXCEPT ![l].spec = DeepCopyObject(Home(l), Backup(l))]
    /\ Goto(l, "gpg")
    /\ UNCHANGED <<apiVars, cache, stopping, spent>>

\* The Get polls the informer until it has listed.
WaitForCacheSync(l) ==
    /\ pc[l] = "gpg" /\ ~Readable(l)
    /\ Goto(l, "wait")
    /\ UNCHANGED <<apiVars, cache, stopping, pending, agg, spent>>

Getting(l) == pc[l] \in {"gpg", "wait"}

\* Mutant of SecretUnreadable: the error is always dropped.
SecretUnreadableIgnored(l) ==
    /\ pc[l] = "wait" /\ Home(l) \in stopping
    /\ Take(l, NoSecret, "template")
    /\ UNCHANGED <<apiVars, cache, stopping, spent>>

\* The context ends between two polls, whether or not the informer has listed since;
\* it lists even in a process that stops, where caches are the last to go.  An error
\* other than NotFound is not returned.  With createIfNotExists the Get by the empty
\* name fails; without, the factory goes on with an empty Secret.
SecretUnreadable(l) ==
    /\ pc[l] = "wait" /\ Home(l) \in stopping
    /\ IF agg[l].spec.create THEN Fail(l) ELSE Take(l, NoSecret, "template")
    /\ UNCHANGED <<apiVars, cache, stopping, spent>>

SecretMissing(l) ==
    /\ Getting(l) /\ NotFound(l)
    /\ IF agg[l].spec.create
       THEN \E k \in NewKeys : Take(l, [rv |-> 0, exists |-> TRUE, data |->
                 UpdateGPGSecretWithRecreatedGPGKey(NoData, MyRef(l), k)], "create")
       ELSE Fail(l)
    /\ UNCHANGED <<apiVars, cache, stopping, spent>>

\* The error of CreateNewGPGSecret is dropped: the Secret is created without keys.
SecretMissingKeygenFails(l) ==
    /\ Getting(l) /\ NotFound(l) /\ agg[l].spec.create
    /\ Spend("keygen")
    /\ Take(l, [NoSecret EXCEPT !.exists = TRUE], "create")
    /\ UNCHANGED <<apiVars, cache, stopping>>

SecretFound(l) ==
    /\ Getting(l) /\ Found(l)
    /\ IF agg[l].spec.create /\ ShouldUpdate(Cached(l).data, MyRef(l))
       THEN Goto(l, "get") /\ UNCHANGED <<agg, pending>>
       ELSE Take(l, Cached(l), "template")
    /\ UNCHANGED <<apiVars, cache, stopping, spent>>

\* Mutant of CreateSecret: AlreadyExists counts as created.
CreateSecretIfAbsent(l) ==
    /\ pc[l] = "create"
    /\ IF api.exists
       THEN Take(l, agg[l].secret, "template") /\ UNCHANGED apiVars
       ELSE StoreSecret(agg[l].secret.data) /\ Take(l, api', "template")
    /\ UNCHANGED <<cache, stopping, spent>>

CreateSecret(l) ==
    /\ pc[l] = "create"
    /\ IF api.exists
       THEN Fail(l) /\ UNCHANGED apiVars
       ELSE StoreSecret(agg[l].secret.data) /\ Take(l, api', "template")
    /\ UNCHANGED <<cache, stopping, spent>>

\* The Secret is read again and may meanwhile have both keys.
GetSecret(l) ==
    /\ pc[l] = "get"
    /\ \/ NotFound(l) /\ Fail(l)
       \/ /\ Found(l)
          /\ IF ShouldUpdate(Cached(l).data, MyRef(l))
             THEN \E k \in NewKeys : Take(l, [Cached(l) EXCEPT !.data =
                       UpdateGPGSecretWithRecreatedGPGKey(@, MyRef(l), k)], "update")
             ELSE Take(l, Cached(l), "template")
    /\ UNCHANGED <<apiVars, cache, stopping, spent>>

GetSecretKeygenFails(l) ==
    /\ pc[l] = "get" /\ Found(l) /\ ShouldUpdate(Cached(l).data, MyRef(l))
    /\ Spend("keygen") /\ Fail(l)
    /\ UNCHANGED <<apiVars, cache, stopping>>

\* Mutant of Current: the update is forced.
CurrentAnyVersion(l) == api.exists

\* The update carries the resourceVersion that was read.
Current(l) == api.exists /\ api.rv = agg[l].secret.rv

UpdateSecret(l) ==
    /\ pc[l] = "update"
    /\ IF Current(l)
       THEN StoreSecret(agg[l].secret.data) /\ Take(l, api', "template")
       ELSE Fail(l) /\ UNCHANGED apiVars
    /\ UNCHANGED <<cache, stopping, spent>>

\* The call answers with an error, whether it took effect or not: a fault, or the
\* context was cancelled.
WriteFails(l) ==
    /\ pc[l] \in {"create", "update"} /\ Fail(l)
    /\ IF Home(l) \in stopping THEN UNCHANGED spent ELSE Spend("write")
    /\ \/ UNCHANGED apiVars
       \/ (IF pc[l] = "create" THEN ~api.exists ELSE Current(l)) /\ StoreSecret(agg[l].secret.data)
    /\ UNCHANGED <<cache, stopping>>

-----------------------------------------------------------------------------
(* The other dependencies                                                  *)

fetchTemplate(l) == cache[Home(l)].tpl

hydrateTemplate(l) ==
    /\ pc[l] = "template"
    /\ IF ~agg[l].spec.internal /\ fetchTemplate(l) = 0
       THEN Fail(l)
       ELSE /\ agg' = [agg EXCEPT ![l].tpl = IF agg[l].spec.internal THEN 0 ELSE fetchTemplate(l)]
            /\ Goto(l, "token") /\ UNCHANGED pending
    /\ UNCHANGED <<apiVars, cache, stopping, spent>>

\* A Secret without the token is not an error.  Who did not get the Secret before
\* may get it now: a synced cache answers whatever the context is.
hydrateAccessToken(l) ==
    /\ pc[l] = "token"
    /\ \/ (Unreadable(l) \/ NotFound(l)) /\ Fail(l)
       \/ /\ Found(l)
          /\ agg' = [agg EXCEPT ![l].token = Cached(l).data["token"]]
          /\ Goto(l, "vars") /\ UNCHANGED pending
    /\ UNCHANGED <<apiVars, cache, stopping, spent>>

\* The key for operation op is read by the name in the spec, without its default.
GPGKey(a, ref, op) == a.secret.data[IF op = "backup" THEN ref.publicKey ELSE ref.privateKey]

\* A RequestedBackupAction has its action performed, and no CronJob.
ForAction(spec, action) ==
    IF action = "" THEN spec ELSE [spec EXCEPT !.operation = action, !.cron = FALSE]

\* Mutant of hydrateVarsSecret: the aggregate shares the cached object's spec.
hydrateVarsSecretShared(l) ==
    /\ pc[l] = "vars"
    /\ IF agg[l].spec.vars /\ ~Found(l)
       THEN Fail(l) /\ UNCHANGED cache
       ELSE LET spec == ForAction(agg[l].spec, Request[l].action)
            IN  /\ agg' = [agg EXCEPT ![l].spec = spec,
                     ![l].gpgKeyContent = GPGKey(agg[l], MyRef(l), spec.operation),
                     ![l].vars = IF agg[l].spec.vars THEN Cached(l).data ELSE NoData]
                /\ cache' = [cache EXCEPT ![Home(l)].sb[Backup(l)] = spec]
                /\ Goto(l, "hydrated") /\ UNCHANGED pending
    /\ UNCHANGED <<apiVars, stopping, spent>>

\* hydrateVarsSecret, and the end of both Create...Aggregate functions.
hydrateVarsSecret(l) ==
    /\ pc[l] = "vars"
    /\ IF agg[l].spec.vars /\ ~Found(l)
       THEN Fail(l)
       ELSE LET spec == ForAction(agg[l].spec, Request[l].action)
            IN  /\ agg' = [agg EXCEPT ![l].spec = spec,
                     ![l].gpgKeyContent = GPGKey(agg[l], MyRef(l), spec.operation),
                     ![l].vars = IF agg[l].spec.vars THEN Cached(l).data ELSE NoData]
                /\ Goto(l, "hydrated") /\ UNCHANGED pending
    /\ UNCHANGED <<apiVars, cache, stopping, spent>>

HydrationStep(l) ==
    \/ Fetch(l) \/ WaitForCacheSync(l) \/ SecretUnreadable(l) \/ SecretMissing(l) \/ SecretFound(l)
    \/ CreateSecret(l) \/ GetSecret(l) \/ UpdateSecret(l)
    \/ hydrateTemplate(l) \/ hydrateAccessToken(l) \/ hydrateVarsSecret(l)

HydrationFault(l) ==
    SecretMissingKeygenFails(l) \/ GetSecretKeygenFails(l) \/ WriteFails(l)

-----------------------------------------------------------------------------
(* Informers, users and the process                                        *)

SyncSecret(p) ==
    /\ cache[p].synced => cache[p].secret # api
    /\ cache' = [cache EXCEPT ![p].synced = TRUE, ![p].secret = api]
    /\ UNCHANGED <<apiVars, stopping, pending, pc, agg, spent>>

SyncTemplate(p) ==
    /\ cache[p].tpl # tpl
    /\ cache' = [cache EXCEPT ![p].tpl = tpl]
    /\ UNCHANGED <<apiVars, stopping, pending, pc, agg, spent>>

\* The event of a changed ScheduledBackup puts it on the queues of its controllers.
SyncBackup(p, b) ==
    /\ cache[p].sb[b] # sb[b]
    /\ cache' = [cache EXCEPT ![p].sb[b] = sb[b]]
    /\ pending' = pending \cup {l \in p : Request[l] = [backup |-> b, action |-> ""]}
    /\ UNCHANGED <<apiVars, stopping, pc, agg, spent>>

EditSecret ==
    /\ Spend("user")
    /\ \E data \in {NoData} \cup UNION {Provided(api.data, k) : k \in NewKeys} :
           api' = [rv |-> api.rv + 1, exists |-> data # NoData, data |-> data]
    /\ history' = history \cup {api'}
    /\ UNCHANGED <<tpl, sb, published, cache, stopping, pending, pc, agg>>

EditTemplate ==
    /\ Spend("template")
    /\ tpl' \in {0} \cup {v \in 1 .. MaxTemplate : v = tpl + 1}
    /\ UNCHANGED <<api, sb, history, published, cache, stopping, pending, pc, agg>>

EditBackup(b) ==
    /\ Spend("spec")
    /\ \E spec \in LaterSpecs \ {sb[b]} :
           /\ sb' = [sb EXCEPT ![b] = spec]
           /\ published' = [published EXCEPT ![b] = @ \cup {spec}]
    /\ UNCHANGED <<api, tpl, history, cache, stopping, pending, pc, agg>>

\* SIGTERM: the context of every Reconcile is cancelled.
Stop(p) ==
    /\ p \notin stopping /\ Spend("stop")
    /\ stopping' = stopping \cup {p}
    /\ UNCHANGED <<apiVars, cache, pending, pc, agg>>

\* The process has ended or crashed and is run again; new informers list.
Run(p) ==
    /\ IF p \in stopping THEN UNCHANGED spent ELSE Spend("crash")
    /\ stopping' = stopping \ {p}
    /\ cache' = [cache EXCEPT ![p] = Listed]
    /\ pending' = pending \cup p
    /\ pc' = [l \in Loops |-> IF l \in p THEN "idle" ELSE pc[l]]
    /\ agg' = [l \in Loops |-> IF l \in p THEN NoAggregate ELSE agg[l]]
    /\ UNCHANGED apiVars

Environment ==
    \/ EditSecret \/ EditTemplate
    \/ \E b \in Backups : EditBackup(b)
    \/ \E p \in Replicas : \/ SyncSecret(p) \/ SyncTemplate(p) \/ Stop(p)
                           \/ \E b \in Backups : SyncBackup(p, b)

-----------------------------------------------------------------------------

HydrationTypeOK ==
    /\ api \in Secrets /\ tpl \in 0 .. MaxTemplate /\ sb \in [Backups -> Specs]
    /\ cache \in [Replicas -> [synced : BOOLEAN, secret : Secrets,
                               tpl : 0 .. MaxTemplate, sb : [Backups -> Specs]]]
    /\ stopping \subseteq Replicas /\ pending \subseteq Loops
    /\ agg \in [Loops -> Aggregates]
    /\ history \subseteq Secrets /\ published \in [Backups -> SUBSET Specs]
    /\ spent \in [Faults -> Nat]

\* The steps of a loop that has the aggregate.
Hydrated(l) == pc[l] \notin {"idle", "gpg", "wait", "create", "get", "update",
                             "template", "token", "vars"}

\* Nobody works with a key that is not stored: not with one whose Create or Update
\* failed, or that lost a race.  hydrateGPGSecret drops the error of a failed Get; the
\* empty Secret that is left of it is found without createIfNotExists only, and only
\* in a process that is stopping, which can apply nothing any more.
KeyCustody ==
    \A l \in Loops : Hydrated(l) =>
        \/ agg[l].secret.exists /\ agg[l].secret \in history
        \/ agg[l].secret = NoSecret /\ ~agg[l].spec.create /\ Home(l) \in stopping

\* With createIfNotExists an aggregate has both halves of one identity, whatever
\* users and other loops do to the Secret meanwhile, also for other keys that it
\* holds (Separate).  A failing key generation breaks this: hydrateGPGSecret drops
\* the error of CreateNewGPGSecret.
KeyPair ==
    \A l \in Loops :
        /\ Hydrated(l) /\ agg[l].spec.create
        /\ Separate(Backup(l)) /\ spent["keygen"] = 0
        =>
        \E k \in Keys :
            /\ agg[l].secret.data[GetPublicKeyIndex(MyRef(l))] = <<k, "public">>
            /\ agg[l].secret.data[GetPrivateKeyIndex(MyRef(l))] = <<k, "private">>

\* The controllers change no entry of the Secret but those of a key that misses a
\* half at that moment and that a user asked to have created, although they may find
\* entries missing in stale caches, several at once: backups that were encrypted with
\* a key that is replaced could not be restored.  A complete key that shares the
\* entry of its passphrase with one that is not loses the passphrase; its halves stay
\* (Separate).
KeyNeverReplaced ==
    [][spent'["user"] = spent["user"] =>
         \A n \in Names : api'.data[n] # api.data[n] =>
             \E b \in Backups : /\ n \in Indexes(Ref[b]) /\ ShouldUpdate(api.data, Ref[b])
                               /\ \E s \in published[b] : s.create]_vars

\* No cached ScheduledBackup is anything but what a user wrote: the factory turns
\* off the CronJob and changes the operation for a RequestedBackupAction, and that
\* is the spec that the ScheduledBackup's own controllers read next.
CacheUnspoilt ==
    \A p \in Replicas : \A b \in Backups : cache[p].sb[b] \in published[b]
=============================================================================
