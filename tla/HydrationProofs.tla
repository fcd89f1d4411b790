-------------------------- MODULE HydrationProofs ---------------------------
(* Proofs about Hydration, for any objects, loops and replicas and any     *)
(* bounds on faults: lemmas about the Secret, type correctness, and what   *)
(* the Secret of an aggregate is.  The theorems of the specification are   *)
(* in RenderingProofs: Rendering has the last steps of every loop.         *)
EXTENDS Hydration, TLAPS

-----------------------------------------------------------------------------
(* The Secret and its entries.                                             *)

Pub(b) == GetPublicKeyIndex(Ref[b])
Priv(b) == GetPrivateKeyIndex(Ref[b])
Pass(b) == GetPassphraseIndex(Ref[b])

Data == [Names -> Values]

\* The names of the entries.
LEMMA IndexNames ==
  ASSUME NEW b \in Backups
  PROVE  /\ Pub(b) \in Names /\ Priv(b) \in Names /\ Pass(b) \in Names
         /\ {"", "token", "Params.password"} \subseteq Names
         /\ Indexes(Ref[b]) = {Pub(b), Priv(b), Pass(b)} /\ KeyIndexes(Ref[b]) = {Pub(b), Priv(b)}
         /\ Ref[b].publicKey \in {"", Pub(b)} /\ Ref[b].privateKey \in {"", Priv(b)}
<1>1. Indexes(Ref[b]) = {Pub(b), Priv(b), Pass(b)} /\ KeyIndexes(Ref[b]) = {Pub(b), Priv(b)}
  BY DEF Indexes, KeyIndexes, Pub, Priv, Pass
<1>2. Indexes(Ref[b]) \subseteq Names /\ {"", "token", "Params.password"} \subseteq Names
  BY DEF Names
<1>3. Ref[b].publicKey \in {"", Pub(b)} /\ Ref[b].privateKey \in {"", Priv(b)}
  BY DEF Pub, Priv, GetPublicKeyIndex, GetPrivateKeyIndex
<1> QED
  BY <1>1, <1>2, <1>3

\* Who writes a key writes both halves of a separate one, or none.
LEMMA SeparateIndexes ==
  ASSUME NEW b \in Backups, Separate(b)
  PROVE  /\ Pub(b) # Priv(b) /\ {Pub(b), Priv(b)} \cap {"token", "Params.password"} = {}
         /\ \A c \in Backups :
               \/ {Pub(b), Priv(b)} \cap {Pub(c), Priv(c), Pass(c)} = {}
               \/ Pub(c) = Pub(b) /\ Priv(c) = Priv(b) /\ Pass(c) \notin {Pub(b), Priv(b)}
<1>1. /\ Pub(b) # Priv(b) /\ KeyIndexes(Ref[b]) \cap {"token", "Params.password"} = {}
      /\ \A c \in Backups :
            \/ KeyIndexes(Ref[b]) \cap Indexes(Ref[c]) = {}
            \/ Pub(c) = Pub(b) /\ Priv(c) = Priv(b) /\ Pass(c) \notin KeyIndexes(Ref[b])
  BY DEF Separate, Pub, Priv, Pass
<1>2. /\ KeyIndexes(Ref[b]) = {Pub(b), Priv(b)}
      /\ \A c \in Backups : Indexes(Ref[c]) = {Pub(c), Priv(c), Pass(c)}
  BY IndexNames
<1> QED
  BY <1>1, <1>2

\* A key is missing if its public or its private half is.
LEMMA MissingHalf ==
  ASSUME NEW b \in Backups, NEW d
  PROVE  ShouldUpdate(d, Ref[b]) <=> d[Pub(b)] = Nothing \/ d[Priv(b)] = Nothing
BY IndexNames DEF ShouldUpdate

\* The halves of identities are told apart from other entries, and each other.
LEMMA EntryValues ==
  ASSUME NEW k \in Keys
  PROVE  /\ <<k, "public">> \in Values /\ <<k, "private">> \in Values /\ <<k, "passphrase">> \in Values
         /\ <<k, "public">> # Nothing /\ <<k, "private">> # Nothing
         /\ Nothing \in Values /\ Token \in Values /\ Password \in Values
         /\ Token # Nothing /\ Password # Nothing
BY DEF Values, Nothing, Token, Password

\* UpdateGPGSecretWithRecreatedGPGKey sets the entries of the key, and no others.
LEMMA UpdatedData ==
  ASSUME NEW b \in Backups, NEW d \in Data, NEW k \in Keys, NEW e,
         e = UpdateGPGSecretWithRecreatedGPGKey(d, Ref[b], k)
  PROVE  /\ e \in Data
         /\ Pub(b) # Priv(b) => e[Pub(b)] = <<k, "public">>
         /\ e[Priv(b)] = <<k, "private">>
         /\ \A n \in Names : n \notin Indexes(Ref[b]) => e[n] = d[n]
<1>1. e = [d EXCEPT ![Pass(b)] = Nothing, ![Pub(b)] = <<k, "public">>, ![Priv(b)] = <<k, "private">>]
  BY DEF UpdateGPGSecretWithRecreatedGPGKey, Pub, Priv, Pass
<1>2. /\ <<k, "public">> \in Values /\ <<k, "private">> \in Values /\ Nothing \in Values
  BY EntryValues
<1>3. /\ Pub(b) \in Names /\ Priv(b) \in Names /\ Pass(b) \in Names
      /\ Indexes(Ref[b]) = {Pub(b), Priv(b), Pass(b)}
  BY IndexNames
<1> QED
  BY <1>1, <1>2, <1>3 DEF Data

-----------------------------------------------------------------------------
(* What data a Secret may hold.                                            *)

Half(v, side) == v = Nothing \/ \E k \in Keys : v = <<k, side>>

\* No key uses the entry.
Free(name) == \A b \in Backups : name \notin Indexes(Ref[b])

\* The entries hold what they are for, and two halves are of one identity, where a
\* key has entries of its own.
GoodData(d) ==
    /\ d \in Data
    /\ Free("token") => d["token"] \in {Nothing, Token}
    /\ Free("Params.password") => d["Params.password"] \in {Nothing, Password}
    /\ \A b \in Backups : Separate(b) =>
          /\ Half(d[Pub(b)], "public") /\ Half(d[Priv(b)], "private")
          /\ d[Pub(b)] # Nothing /\ d[Priv(b)] # Nothing => d[Pub(b)][1] = d[Priv(b)][1]

\* No data, and a token and a variable alone, are good.
LEMMA GoodWithoutKeys ==
  /\ GoodData(NoData) /\ GoodData(WithToken)
  /\ \A n \in Names : NoData[n] = Nothing
  /\ \A b \in Backups : Separate(b) => WithToken[Pub(b)] = Nothing /\ WithToken[Priv(b)] = Nothing
<1>1. Nothing \in Values /\ Token \in Values /\ Password \in Values
  BY DEF Values
<1>2. {"token", "Params.password"} \subseteq Names
  BY DEF Names
<1>3. NoData \in Data /\ \A n \in Names : NoData[n] = Nothing
  BY <1>1 DEF NoData, Data
<1>4. GoodData(NoData)
  BY <1>2, <1>3, IndexNames DEF GoodData, Half
<1>5. /\ WithToken \in Data /\ WithToken["token"] = Token /\ WithToken["Params.password"] = Password
      /\ \A n \in Names : n \notin {"token", "Params.password"} => WithToken[n] = Nothing
  BY <1>1, <1>2, <1>3 DEF WithToken, Data
<1>6. \A b \in Backups : Separate(b) => WithToken[Pub(b)] = Nothing /\ WithToken[Priv(b)] = Nothing
  BY <1>5, IndexNames, SeparateIndexes
<1>7. GoodData(WithToken)
  BY <1>5, <1>6 DEF GoodData, Half
<1> QED
  BY <1>3, <1>4, <1>6, <1>7

\* Good data with the halves of one identity, or one half where there was none, is
\* good.
LEMMA GoodKeys ==
  ASSUME NEW c \in Backups, NEW d, GoodData(d), NEW k \in Keys, NEW e \in Data,
         \A n \in Names : n \notin Indexes(Ref[c]) => e[n] = d[n],
         \A b \in Backups : Separate(b) /\ Pub(c) = Pub(b) /\ Priv(c) = Priv(b) =>
             e[Pub(b)] = <<k, "public">> /\ e[Priv(b)] \in {Nothing, <<k, "private">>}
  PROVE  GoodData(e)
<1>1. /\ Free("token") => e["token"] \in {Nothing, Token}
      /\ Free("Params.password") => e["Params.password"] \in {Nothing, Password}
  BY IndexNames DEF GoodData, Free
<1>2. ASSUME NEW b \in Backups, Separate(b)
      PROVE  /\ Half(e[Pub(b)], "public") /\ Half(e[Priv(b)], "private")
             /\ e[Pub(b)] # Nothing /\ e[Priv(b)] # Nothing => e[Pub(b)][1] = e[Priv(b)][1]
  <2>1. CASE Pub(c) = Pub(b) /\ Priv(c) = Priv(b)
    BY <1>2, <2>1 DEF Half
  <2>2. CASE {Pub(b), Priv(b)} \cap {Pub(c), Priv(c), Pass(c)} = {}
    <3>1. e[Pub(b)] = d[Pub(b)] /\ e[Priv(b)] = d[Priv(b)]
      BY <2>2, IndexNames
    <3> QED
      BY <1>2, <3>1 DEF GoodData
  <2> QED
    BY <1>2, <2>1, <2>2, SeparateIndexes
<1> QED
  BY <1>1, <1>2 DEF GoodData

\* What the factory stores is good, and complete.
LEMMA GoodUpdate ==
  ASSUME NEW b \in Backups, NEW d, GoodData(d), NEW k \in Keys, NEW e,
         e = UpdateGPGSecretWithRecreatedGPGKey(d, Ref[b], k)
  PROVE  /\ GoodData(e) /\ ~ShouldUpdate(e, Ref[b])
         /\ \A n \in Names : n \notin Indexes(Ref[b]) => e[n] = d[n]
<1>0. d \in Data
  BY DEF GoodData
<1>1. e \in Data
  BY <1>0, UpdatedData
<1>2. Pub(b) # Priv(b) => e[Pub(b)] = <<k, "public">>
  BY <1>0, UpdatedData, ZenonT(30)
<1>3. e[Priv(b)] = <<k, "private">>
  BY <1>0, UpdatedData, ZenonT(30)
<1>4. \A n \in Names : n \notin Indexes(Ref[b]) => e[n] = d[n]
  BY <1>0, UpdatedData
<1>5. GoodData(e)
  <2>1. ASSUME NEW c \in Backups, Separate(c), Pub(b) = Pub(c), Priv(b) = Priv(c)
        PROVE  e[Pub(c)] = <<k, "public">> /\ e[Priv(c)] \in {Nothing, <<k, "private">>}
    BY <1>2, <1>3, <2>1, SeparateIndexes
  <2> QED
    BY <1>1, <1>4, <2>1, GoodKeys
<1>6. ~ShouldUpdate(e, Ref[b])
  BY <1>2, <1>3, EntryValues, MissingHalf
<1> QED
  BY <1>4, <1>5, <1>6

\* What users write is good.
LEMMA GoodProvided ==
  ASSUME NEW data, GoodData(data), NEW k \in Keys, NEW d \in Provided(data, k)
  PROVE  GoodData(d)
<1>0. GoodData(WithToken) /\ WithToken \in Data
  BY GoodWithoutKeys DEF GoodData
<1>1. PICK b \in Backups :
        d \in {WithToken, [WithToken EXCEPT ![Pub(b)] = <<k, "public">>],
               WithKey(WithToken, b, k), WithKey(data, b, k)}
  BY DEF Provided, Pub
<1>2. /\ <<k, "public">> \in Values /\ <<k, "private">> \in Values /\ <<k, "passphrase">> \in Values
      /\ Pub(b) \in Names /\ Priv(b) \in Names /\ Pass(b) \in Names
      /\ Indexes(Ref[b]) = {Pub(b), Priv(b), Pass(b)}
  BY EntryValues, IndexNames
<1>3. ASSUME NEW e, e = [WithToken EXCEPT ![Pub(b)] = <<k, "public">>] PROVE GoodData(e)
  <2>1. /\ e \in Data /\ e[Pub(b)] = <<k, "public">>
        /\ \A n \in Names : n # Pub(b) => e[n] = WithToken[n]
    BY <1>0, <1>2, <1>3 DEF Data
  <2>2. ASSUME NEW c \in Backups, Separate(c), Pub(b) = Pub(c), Priv(b) = Priv(c)
        PROVE  e[Pub(c)] = <<k, "public">> /\ e[Priv(c)] \in {Nothing, <<k, "private">>}
    <3>1. WithToken[Priv(c)] = Nothing /\ Pub(c) # Priv(c)
      BY <2>2, GoodWithoutKeys, SeparateIndexes
    <3> QED
      BY <1>2, <2>1, <2>2, <3>1
  <2>3. \A n \in Names : n \notin Indexes(Ref[b]) => e[n] = WithToken[n]
    BY <1>2, <2>1
  <2> QED
    BY <1>0, <2>1, <2>2, <2>3, GoodKeys
<1>4. ASSUME NEW f, GoodData(f), NEW e, e = WithKey(f, b, k) PROVE GoodData(e)
  <2>1. f \in Data
    BY <1>4 DEF GoodData
  <2>2. /\ e \in Data /\ (Pub(b) # Priv(b) => e[Pub(b)] = <<k, "public">>)
        /\ e[Priv(b)] = <<k, "private">>
        /\ \A n \in Names : n \notin Indexes(Ref[b]) => e[n] = f[n]
    <3>1. e = [f EXCEPT ![Pass(b)] = <<k, "passphrase">>, ![Pub(b)] = <<k, "public">>,
                        ![Priv(b)] = <<k, "private">>]
      BY <1>4 DEF WithKey, Pub, Priv, Pass
    <3> QED
      BY <1>2, <2>1, <3>1 DEF Data
  <2>3. ASSUME NEW c \in Backups, Separate(c), Pub(b) = Pub(c), Priv(b) = Priv(c)
        PROVE  e[Pub(c)] = <<k, "public">> /\ e[Priv(c)] \in {Nothing, <<k, "private">>}
    BY <2>2, <2>3, SeparateIndexes
  <2> QED
    BY <1>4, <2>2, <2>3, GoodKeys
<1> QED
  BY <1>0, <1>1, <1>3, <1>4

-----------------------------------------------------------------------------
(* The invariant of hydration: the world the loops share.                  *)

Steps == {"idle", "gpg", "wait", "create", "get", "update", "template", "token", "vars",
          "hydrated", "write", "workspace", "generate", "rendered"}

\* The Secret and its versions: one for each resourceVersion.
SecretInv ==
    /\ api \in history /\ history \subseteq Secrets
    /\ \A s \in history : /\ GoodData(s.data) /\ (~s.exists => s.data = NoData)
                          /\ s.rv <= api.rv
    /\ \A s, t \in history : s.rv = t.rv => s = t

Caches == [synced : BOOLEAN, secret : Secrets, tpl : 0 .. MaxTemplate, sb : [Backups -> Specs]]

\* Informers know what there was.
CacheInv ==
    /\ cache \in [Replicas -> Caches]
    /\ \A p \in Replicas : cache[p].synced => cache[p].secret \in history
    /\ CacheUnspoilt

RestInv ==
    /\ tpl \in 0 .. MaxTemplate /\ sb \in [Backups -> Specs]
    /\ published \in [Backups -> SUBSET Specs] /\ \A b \in Backups : sb[b] \in published[b]
    /\ stopping \subseteq Replicas /\ pending \subseteq Loops /\ spent \in [Faults -> Nat]

WorldInv == SecretInv /\ CacheInv /\ RestInv

\* No key generation has failed so far.
Calm == spent["keygen"] = 0

\* The context of the loop is cancelled, until its process is run again.
Dark(l) == Home(l) \in stopping

\* What the renderer does to the aggregate of a loop.
Renders(l) ==
    /\ Hydrated(l)
    /\ \/ agg' = [agg EXCEPT ![l] = NoAggregate] /\ Goto(l, "idle")
       \/ /\ \E step \in {"hydrated", "write", "workspace", "generate", "rendered"} : Goto(l, step)
          /\ UNCHANGED agg \/ \E v \in Values : agg' = [agg EXCEPT ![l].gpgKeyContent = v]
    /\ UNCHANGED spent \/ Spend("render")
    /\ pending' \in {pending, pending \cup {l}}
    /\ UNCHANGED <<apiVars, cache, stopping>>

HydrationNext ==
    \/ Environment
    \/ \E l \in Loops : HydrationStep(l) \/ HydrationFault(l) \/ Renders(l)
    \/ \E p \in Replicas : Run(p)

-----------------------------------------------------------------------------
(* Lemmas about the world.                                                 *)

\* A loop belongs to one replica.
LEMMA HomeOfLoop ==
  ASSUME NEW l \in Loops
  PROVE  Home(l) \in Replicas /\ l \in Home(l) /\ \A p \in Replicas : l \in p => p = Home(l)
<1>1. \E p \in Replicas : l \in p
  BY HydrationAssumption
<1>2. Home(l) \in Replicas /\ l \in Home(l)
  BY <1>1 DEF Home
<1>3. ASSUME NEW p \in Replicas, l \in p PROVE p = Home(l)
  BY <1>2, <1>3, HydrationAssumption
<1> QED
  BY <1>2, <1>3

\* A loop has a ScheduledBackup.
LEMMA BackupOfLoop == \A l \in Loops : Backup(l) \in Backups /\ Request[l].action \in Operations \cup {""}
BY HydrationAssumption DEF Backup

\* A fault is counted.
LEMMA SpendFault ==
  ASSUME NEW f \in Faults, Spend(f), spent \in [Faults -> Nat]
  PROVE  /\ spent' \in [Faults -> Nat] /\ (Calm' => Calm)
         /\ f = "keygen" => ~Calm'
         /\ f # "keygen" => (Calm' <=> Calm)
<1>1. spent' = [spent EXCEPT ![f] = @ + 1] /\ "keygen" \in Faults
  BY DEF Spend, Faults
<1> QED
  BY <1>1 DEF Calm

\* A write is a new version of the Secret.
LEMMA SecretWritten ==
  ASSUME SecretInv, NEW d, GoodData(d), NEW e \in BOOLEAN, ~e => d = NoData,
         api' = [rv |-> api.rv + 1, exists |-> e, data |-> d], history' = history \cup {api'}
  PROVE  SecretInv' /\ history \subseteq history' /\ api' \in Secrets
<1>1. api \in Secrets /\ api.rv \in Nat /\ \A s \in history : s \in Secrets /\ s.rv \in Nat
  BY DEF SecretInv, Secrets
<1>2. api' \in Secrets /\ api'.rv = api.rv + 1 /\ api'.exists = e /\ api'.data = d
  <2>1. d \in [Names -> Values]
    BY Zenon DEF GoodData, Data
  <2>2. api.rv + 1 \in Nat
    BY <1>1
  <2> QED
    BY <2>1, <2>2 DEF Secrets
<1>3. ASSUME NEW s \in history' PROVE GoodData(s.data) /\ (~s.exists => s.data = NoData) /\ s.rv <= api'.rv
  <2>1. CASE s \in history
    BY <1>1, <1>2, <2>1 DEF SecretInv
  <2>2. CASE s = api'
    BY <1>1, <1>2, <2>2
  <2> QED
    BY <1>3, <2>1, <2>2
<1>4. ASSUME NEW s \in history', NEW t \in history', s.rv = t.rv PROVE s = t
  <2>1. \A u \in history : u.rv # api'.rv
    BY <1>1, <1>2 DEF SecretInv
  <2> QED
    BY <1>4, <2>1 DEF SecretInv
<1>5. api' \in history' /\ history' \subseteq Secrets
  BY <1>1, <1>2
<1> QED
  BY <1>2, <1>3, <1>4, <1>5 DEF SecretInv

\* The specs that informers list are those that users wrote.
LEMMA ListedCache ==
  ASSUME RestInv
  PROVE  Listed \in Caches /\ ~Listed.synced /\ \A b \in Backups : Listed.sb[b] \in published[b]
<1>1. NoSecret \in Secrets
  BY GoodWithoutKeys DEF NoSecret, Secrets, GoodData, Data
<1> QED
  BY <1>1 DEF Listed, Caches, RestInv

-----------------------------------------------------------------------------
(* The invariant of hydration: the loops.                                  *)

Before == {"idle", "gpg", "wait", "create", "get", "update"}    \* without a Secret
Reading == {"template", "token", "vars"}                \* with it

\* What loop l has at step in the aggregate a: the Secret it is to create; the one
\* it is to update, which is a version that was read with both halves of the key
\* replaced; or one that was in the API server, unless the context was cancelled
\* while the loop waited for it.
SecretOK(l, step, a, hist, calm, dark) ==
    /\ step \in {"create", "get", "update"} => a.spec.create
    /\ step = "create" =>
          /\ GoodData(a.secret.data)
          /\ \A n \in Names : n \notin Indexes(MyRef(l)) => a.secret.data[n] = Nothing
          /\ calm => ~ShouldUpdate(a.secret.data, MyRef(l))
    /\ step = "update" => \E s \in hist, k \in Keys :
          /\ s.exists /\ s.rv = a.secret.rv /\ ShouldUpdate(s.data, MyRef(l))
          /\ a.secret.data = UpdateGPGSecretWithRecreatedGPGKey(s.data, MyRef(l), k)
    /\ step \notin Before =>
          \/ a.secret.exists /\ a.secret \in hist
          \/ dark /\ ~a.spec.create /\ a.secret = NoSecret
    /\ step \notin Before /\ a.spec.create /\ calm => ~ShouldUpdate(a.secret.data, MyRef(l))

\* The token and the variables were in a Secret, and the spec is what a user wrote
\* or what an action makes of it.
RestOK(l, step, a, hist, pub) ==
    /\ step \notin Before \cup {"template", "token"} =>
          \E s \in hist : s.exists /\ a.token = s.data["token"]
    /\ step \notin Before \cup Reading /\ a.spec.vars =>
          \E s \in hist : s.exists /\ a.vars = s.data
    /\ step # "idle" =>
          IF step \notin Before \cup Reading /\ Request[l].action # ""
          THEN a.spec.operation = Request[l].action
          ELSE a.spec \in pub

Good(l, step, a, hist, calm, dark, pub) ==
    /\ step \in Steps /\ a \in Aggregates
    /\ SecretOK(l, step, a, hist, calm, dark) /\ RestOK(l, step, a, hist, pub)

LoopInv ==
    /\ pc \in [Loops -> Steps] /\ agg \in [Loops -> Aggregates]
    /\ \A l \in Loops : Good(l, pc[l], agg[l], history, Calm, Dark(l), published[Backup(l)])

\* What the others do does not harm a loop.
LEMMA GoodStays ==
  ASSUME NEW l, NEW step, NEW a, NEW hist, NEW calm, NEW dark, NEW pub,
         Good(l, step, a, hist, calm, dark, pub),
         NEW hist2, NEW calm2, NEW dark2, NEW pub2,
         hist \subseteq hist2, calm2 => calm, dark => dark2 \/ step = "idle", pub \subseteq pub2
  PROVE  Good(l, step, a, hist2, calm2, dark2, pub2)
<1>1. SecretOK(l, step, a, hist2, calm2, dark2)
  BY DEF Good, SecretOK, Before
<1>2. RestOK(l, step, a, hist2, pub2)
  BY DEF Good, RestOK
<1> QED
  BY <1>1, <1>2 DEF Good

\* A loop that waits for a request has nothing to be wrong about.
LEMMA GoodIdle ==
  /\ NoAggregate \in Aggregates
  /\ \A l, hist, calm, dark, pub : Good(l, "idle", NoAggregate, hist, calm, dark, pub)
<1>1. NoAggregate \in Aggregates
  <2>1. (CHOOSE s \in Specs : TRUE) \in Specs
    <3>1. [operation |-> "backup", cron |-> TRUE, create |-> TRUE, internal |-> TRUE, vars |-> TRUE] \in Specs
      BY DEF Specs, Operations
    <3> QED
      BY <3>1
  <2>2. NoSecret \in Secrets /\ NoData \in [Names -> Values] /\ Nothing \in Values
    BY GoodWithoutKeys DEF NoSecret, Secrets, GoodData, Data, Values
  <2>3. 0 \in 0 .. MaxTemplate
    <3>1. MaxTemplate \in Nat
      BY HydrationAssumption, Zenon
    <3> QED
      BY <3>1
  <2> HIDE DEF Specs
  <2> QED
    BY <2>1, <2>2, <2>3 DEF NoAggregate, Aggregates
<1>2. "idle" \in Steps
  BY DEF Steps
<1>3. \A l, hist, calm, dark, pub : Good(l, "idle", NoAggregate, hist, calm, dark, pub)
  BY <1>1, <1>2 DEF Good, SecretOK, RestOK, Before
<1> QED
  BY <1>1, <1>3


\* A loop's aggregate as read by the provers.
LEMMA AggregateFields ==
  ASSUME NEW a \in Aggregates
  PROVE  /\ a.spec \in Specs /\ a.secret \in Secrets /\ a.tpl \in 0 .. MaxTemplate
         /\ a.gpgKeyContent \in Values /\ a.token \in Values /\ a.vars \in Data
BY DEF Aggregates, Data

-----------------------------------------------------------------------------
(* Every step keeps the world as the loops rely on it.                     *)

WorldMoves ==
    /\ WorldInv' /\ history \subseteq history'
    /\ \A b \in Backups : published[b] \subseteq published'[b]
    /\ Calm' => Calm

\* A loop changes the Secret or nothing of what all read.
LEMMA LoopKeepsWorld ==
  ASSUME WorldInv, pending' \subseteq Loops, UNCHANGED <<cache, stopping>>,
         UNCHANGED apiVars \/ \E d : GoodData(d) /\ StoreSecret(d),
         UNCHANGED spent \/ \E f \in Faults : Spend(f)
  PROVE  WorldMoves /\ \A l : Dark(l)' <=> Dark(l)
<1>1. SecretInv' /\ history \subseteq history' /\ UNCHANGED <<tpl, sb, published>>
  <2>1. CASE UNCHANGED apiVars
    BY <2>1 DEF apiVars, WorldInv, SecretInv
  <2>2. ASSUME NEW d, GoodData(d), StoreSecret(d)
        PROVE  SecretInv' /\ history \subseteq history' /\ UNCHANGED <<tpl, sb, published>>
    <3>1. /\ api' = [rv |-> api.rv + 1, exists |-> TRUE, data |-> d]
          /\ history' = history \cup {api'} /\ UNCHANGED <<tpl, sb, published>>
      BY <2>2 DEF StoreSecret
    <3> QED
      BY <2>2, <3>1, SecretWritten DEF WorldInv
  <2> QED
    BY <2>1, <2>2
<1>2. spent' \in [Faults -> Nat] /\ (Calm' => Calm)
  BY SpendFault DEF WorldInv, RestInv, Calm
<1>3. CacheInv'
  BY <1>1 DEF WorldInv, CacheInv, CacheUnspoilt
<1>4. RestInv'
  BY <1>1, <1>2 DEF WorldInv, RestInv
<1>5. \A l : Dark(l)' <=> Dark(l)
  BY DEF Dark
<1> QED
  BY <1>1, <1>2, <1>3, <1>4, <1>5 DEF WorldMoves, WorldInv


\* A loop that moves on leaves the other loops as they were.
LEMMA OneLoopMoves ==
  ASSUME LoopInv, WorldMoves, \A m \in Loops : Dark(m) => Dark(m)',
         NEW l \in Loops, NEW step, NEW a,
         pc' = [pc EXCEPT ![l] = step], agg' = [agg EXCEPT ![l] = a],
         Good(l, step, a, history', Calm', Dark(l)', published'[Backup(l)])
  PROVE  LoopInv'
<1>1. step \in Steps /\ a \in Aggregates
  BY DEF Good
<1>2. pc' \in [Loops -> Steps] /\ agg' \in [Loops -> Aggregates]
  BY <1>1 DEF LoopInv
<1>3. ASSUME NEW m \in Loops
      PROVE  Good(m, pc'[m], agg'[m], history', Calm', Dark(m)', published'[Backup(m)])
  <2>1. CASE m = l
    BY <2>1 DEF LoopInv
  <2>2. CASE m # l
    <3>1. pc'[m] = pc[m] /\ agg'[m] = agg[m]
      BY <2>2 DEF LoopInv
    <3>2. /\ Good(m, pc[m], agg[m], history, Calm, Dark(m), published[Backup(m)])
          /\ history \subseteq history' /\ published[Backup(m)] \subseteq published'[Backup(m)]
          /\ (Calm' => Calm) /\ (Dark(m) => Dark(m)')
      BY BackupOfLoop DEF LoopInv, WorldMoves
    <3> HIDE DEF Calm, Dark
    <3> QED
      BY <3>1, <3>2, GoodStays
  <2> QED
    BY <2>1, <2>2
<1> QED
  BY <1>2, <1>3 DEF LoopInv

\* A loop that fails is idle.
LEMMA OneLoopFails ==
  ASSUME LoopInv, WorldMoves, \A m \in Loops : Dark(m) => Dark(m)', NEW l \in Loops,
         pc' = [pc EXCEPT ![l] = "idle"], agg' = [agg EXCEPT ![l] = NoAggregate]
  PROVE  LoopInv'
<1>1. Good(l, "idle", NoAggregate, history', Calm', Dark(l)', published'[Backup(l)])
  BY GoodIdle
<1> QED
  BY <1>1, OneLoopMoves

\* A loop that takes a Secret goes on with it.
LEMMA OneLoopTakes ==
  ASSUME LoopInv, WorldMoves, \A m \in Loops : Dark(m) => Dark(m)',
         NEW l \in Loops, pc[l] \in Before \ {"idle"},
         NEW s \in Secrets, NEW step \in {"create", "update", "template"},
         Take(l, s, step),
         SecretOK(l, step, [agg[l] EXCEPT !.secret = s], history', Calm', Dark(l)')
  PROVE  LoopInv'
<1> DEFINE b == [agg[l] EXCEPT !.secret = s]
<1>1. pc' = [pc EXCEPT ![l] = step] /\ agg' = [agg EXCEPT ![l] = b]
  BY DEF Take, Goto, LoopInv
<1>2. Good(l, pc[l], agg[l], history, Calm, Dark(l), published[Backup(l)])
  BY DEF LoopInv
<1>3. published[Backup(l)] \subseteq published'[Backup(l)]
  BY BackupOfLoop DEF WorldMoves
<1>4. SecretOK(l, step, b, history', Calm', Dark(l)') /\ b = [agg[l] EXCEPT !.secret = s]
  OBVIOUS
<1> HIDE DEF b
<1>5. Good(l, step, b, history', Calm', Dark(l)', published'[Backup(l)])
  <2>1. agg[l] \in Aggregates /\ agg[l].spec \in published[Backup(l)]
    BY <1>2 DEF Good, RestOK, Before
  <2>2. b \in Aggregates /\ b.spec = agg[l].spec
    BY <1>4, <2>1 DEF Aggregates
  <2>3. step \in Steps /\ step \in Before \cup {"template"}
    BY DEF Steps, Before
  <2>4. RestOK(l, step, b, history', published'[Backup(l)])
    BY <1>3, <2>1, <2>2, <2>3 DEF RestOK, Reading, Before
  <2> QED
    BY <1>4, <2>2, <2>3, <2>4 DEF Good
<1> QED
  BY <1>1, <1>5, OneLoopMoves

-----------------------------------------------------------------------------
(* The steps of a loop, one lemma for each place it may be at.             *)

Inv == WorldInv /\ LoopInv

\* What a loop that is at work has, and what it reads.
LEMMA AtWork ==
  ASSUME Inv, NEW l \in Loops
  PROVE  /\ Good(l, pc[l], agg[l], history, Calm, Dark(l), published[Backup(l)])
         /\ agg[l] \in Aggregates /\ Backup(l) \in Backups /\ pending \subseteq Loops
         /\ Readable(l) => /\ Cached(l) \in history /\ Cached(l) \in Secrets
                           /\ GoodData(Cached(l).data)
         /\ NoSecret \in Secrets
<1>1. /\ Good(l, pc[l], agg[l], history, Calm, Dark(l), published[Backup(l)])
      /\ agg[l] \in Aggregates
  BY DEF Inv, LoopInv
<1>2. Backup(l) \in Backups /\ Home(l) \in Replicas
  BY BackupOfLoop, HomeOfLoop
<1>3. Readable(l) => /\ Cached(l) \in history /\ Cached(l) \in Secrets
                     /\ GoodData(Cached(l).data)
  BY <1>2 DEF Inv, WorldInv, CacheInv, SecretInv, Readable, Cached
<1>4. pending \subseteq Loops
  BY DEF Inv, WorldInv, RestInv
<1>5. NoData \in [Names -> Values]
  BY GoodWithoutKeys, Zenon DEF GoodData, Data
<1>6. NoSecret \in Secrets
  BY <1>5 DEF NoSecret, Secrets
<1> QED
  BY <1>1, <1>2, <1>3, <1>4, <1>6

\* The step of a loop that fails, whatever else it did.
LEMMA FailSafe ==
  ASSUME Inv, NEW l \in Loops, Fail(l), UNCHANGED <<cache, stopping>>,
         UNCHANGED apiVars \/ \E d : GoodData(d) /\ StoreSecret(d),
         UNCHANGED spent \/ \E f \in Faults : Spend(f)
  PROVE  WorldMoves /\ LoopInv'
<1>1. pending' \subseteq Loops
  BY AtWork DEF Fail
<1>2. WorldMoves /\ \A m \in Loops : Dark(m) => Dark(m)'
  BY <1>1, LoopKeepsWorld DEF Inv
<1>3. pc' = [pc EXCEPT ![l] = "idle"] /\ agg' = [agg EXCEPT ![l] = NoAggregate]
  BY DEF Fail, Goto
<1> QED
  BY <1>2, <1>3, OneLoopFails DEF Inv

\* The step of a loop that goes on and writes nothing.
LEMMA StepSafe ==
  ASSUME Inv, NEW l \in Loops, NEW step, NEW a,
         pc' = [pc EXCEPT ![l] = step], agg' = [agg EXCEPT ![l] = a],
         Good(l, step, a, history, Calm, Dark(l), published[Backup(l)]),
         pending' \subseteq Loops, UNCHANGED <<apiVars, cache, stopping>>,
         UNCHANGED spent \/ \E f \in Faults : Spend(f)
  PROVE  WorldMoves /\ LoopInv'
<1>1. WorldMoves /\ \A m \in Loops : Dark(m) => Dark(m)'
  BY LoopKeepsWorld DEF Inv
<1>2. Good(l, step, a, history', Calm', Dark(l)', published'[Backup(l)])
  <2>1. /\ history \subseteq history' /\ published[Backup(l)] \subseteq published'[Backup(l)]
        /\ (Calm' => Calm) /\ (Dark(l) => Dark(l)')
    BY <1>1, BackupOfLoop DEF WorldMoves
  <2> QED
    BY <2>1, GoodStays
<1> QED
  BY <1>1, <1>2, OneLoopMoves DEF Inv

\* The step of a loop that takes a Secret and writes nothing.
LEMMA TakeSafe ==
  ASSUME Inv, NEW l \in Loops, pc[l] \in Before \ {"idle"},
         NEW s \in Secrets, NEW step \in {"create", "update", "template"}, Take(l, s, step),
         SecretOK(l, step, [agg[l] EXCEPT !.secret = s], history, Calm', Dark(l)),
         UNCHANGED <<apiVars, cache, stopping>>,
         UNCHANGED spent \/ \E f \in Faults : Spend(f)
  PROVE  WorldMoves /\ LoopInv'
<1>1. pending' \subseteq Loops
  BY AtWork DEF Take
<1>2. WorldMoves /\ \A m \in Loops : Dark(m)' <=> Dark(m)
  BY <1>1, LoopKeepsWorld DEF Inv
<1>3. SecretOK(l, step, [agg[l] EXCEPT !.secret = s], history', Calm', Dark(l)')
  BY <1>2 DEF SecretOK, apiVars
<1> QED
  BY <1>2, <1>3, OneLoopTakes DEF Inv


\* A loop takes up a request.
LEMMA FetchSafe ==
  ASSUME Inv, NEW l \in Loops, Fetch(l)
  PROVE  WorldMoves /\ LoopInv'
<1> DEFINE a == [agg[l] EXCEPT !.spec = cache[Home(l)].sb[Backup(l)]]
<1>1. agg[l] \in Aggregates /\ Backup(l) \in Backups /\ pending' \subseteq Loops
  BY AtWork DEF Fetch
<1>2. Home(l) \in Replicas
  BY HomeOfLoop
<1>3. /\ cache[Home(l)].sb[Backup(l)] \in Specs
      /\ cache[Home(l)].sb[Backup(l)] \in published[Backup(l)]
  BY <1>1, <1>2 DEF Inv, WorldInv, CacheInv, Caches, CacheUnspoilt
<1>4. a \in Aggregates /\ a.spec \in published[Backup(l)]
  BY <1>1, <1>3 DEF Aggregates
<1>5. pc' = [pc EXCEPT ![l] = "gpg"] /\ agg' = [agg EXCEPT ![l] = a]
  BY DEF Fetch, Goto, DeepCopyObject, Inv, LoopInv
<1> HIDE DEF a
<1>6. Good(l, "gpg", a, history, Calm, Dark(l), published[Backup(l)])
  BY <1>4 DEF Good, Steps, SecretOK, RestOK, Before
<1>7. UNCHANGED <<apiVars, cache, stopping, spent>>
  BY DEF Fetch
<1> QED
  BY <1>1, <1>5, <1>6, <1>7, StepSafe

\* A loop waits for the informer.
LEMMA WaitSafe ==
  ASSUME Inv, NEW l \in Loops, WaitForCacheSync(l)
  PROVE  WorldMoves /\ LoopInv'
<1>1. /\ pc[l] = "gpg" /\ pc' = [pc EXCEPT ![l] = "wait"]
      /\ UNCHANGED <<apiVars, cache, stopping, pending, agg, spent>>
  BY DEF WaitForCacheSync, Goto
<1>2. agg' = [agg EXCEPT ![l] = agg[l]]
  BY <1>1 DEF Inv, LoopInv
<1>3. Good(l, "gpg", agg[l], history, Calm, Dark(l), published[Backup(l)]) /\ pending' \subseteq Loops
  BY <1>1, AtWork
<1>4. Good(l, "wait", agg[l], history, Calm, Dark(l), published[Backup(l)])
  BY <1>3 DEF Good, Steps, SecretOK, RestOK, Before
<1> QED
  BY <1>1, <1>2, <1>3, <1>4, StepSafe

\* A loop that cannot read the Secret fails or goes on with none.
LEMMA SecretUnreadableSafe ==
  ASSUME Inv, NEW l \in Loops, SecretUnreadable(l)
  PROVE  WorldMoves /\ LoopInv'
<1>1. UNCHANGED <<apiVars, cache, stopping, spent>>
  BY DEF SecretUnreadable
<1>2. CASE Fail(l)
  BY <1>1, <1>2, FailSafe
<1>3. CASE Take(l, NoSecret, "template") /\ ~agg[l].spec.create
  <2>1. pc[l] \in Before \ {"idle"}
    BY DEF SecretUnreadable, Before
  <2>2. Dark(l)
    BY DEF SecretUnreadable, Dark
  <2>3. SecretOK(l, "template", [agg[l] EXCEPT !.secret = NoSecret], history, Calm', Dark(l))
    <3>1. /\ [agg[l] EXCEPT !.secret = NoSecret].spec = agg[l].spec
          /\ [agg[l] EXCEPT !.secret = NoSecret].secret = NoSecret
      BY AtWork DEF Aggregates
    <3> QED
      BY <1>3, <2>2, <3>1 DEF SecretOK
  <2>4. NoSecret \in Secrets
    BY AtWork
  <2> QED
    BY <1>1, <1>3, <2>1, <2>3, <2>4, TakeSafe
<1> QED
  BY <1>2, <1>3 DEF SecretUnreadable

\* A loop that finds no Secret prepares one, with a whole key if one can be made.
LEMMA SecretMissingSafe ==
  ASSUME Inv, NEW l \in Loops, SecretMissing(l) \/ SecretMissingKeygenFails(l)
  PROVE  WorldMoves /\ LoopInv'
<1>1. UNCHANGED <<apiVars, cache, stopping>> /\ pc[l] \in Before \ {"idle"}
  BY DEF SecretMissing, SecretMissingKeygenFails, Getting, Before
<1>2. Backup(l) \in Backups /\ agg[l] \in Aggregates
  BY AtWork
<1>3. ASSUME NEW k \in Keys, agg[l].spec.create, UNCHANGED spent,
             Take(l, [rv |-> 0, exists |-> TRUE, data |->
                        UpdateGPGSecretWithRecreatedGPGKey(NoData, MyRef(l), k)], "create")
      PROVE  WorldMoves /\ LoopInv'
  <2> DEFINE d == UpdateGPGSecretWithRecreatedGPGKey(NoData, MyRef(l), k)
             s == [rv |-> 0, exists |-> TRUE, data |-> d]
  <2>1. /\ GoodData(d) /\ ~ShouldUpdate(d, MyRef(l))
        /\ \A n \in Names : n \notin Indexes(MyRef(l)) => d[n] = Nothing
    BY <1>2, GoodWithoutKeys, GoodUpdate DEF MyRef
  <2>2. d \in [Names -> Values]
    BY <2>1, Zenon DEF GoodData, Data
  <2> HIDE DEF d
  <2>3. s \in Secrets /\ [agg[l] EXCEPT !.secret = s].secret.data = d
    BY <1>2, <2>2 DEF Secrets, Aggregates
  <2>4. [agg[l] EXCEPT !.secret = s].spec = agg[l].spec
    BY <1>2 DEF Aggregates
  <2>5. Take(l, s, "create")
    BY <1>3 DEF d
  <2> HIDE DEF s
  <2>6. SecretOK(l, "create", [agg[l] EXCEPT !.secret = s], history, Calm', Dark(l))
    BY <1>3, <2>1, <2>3, <2>4 DEF SecretOK, Before
  <2> QED
    BY <1>1, <1>3, <2>3, <2>5, <2>6, TakeSafe
<1>4. ASSUME agg[l].spec.create, Spend("keygen"), Take(l, [NoSecret EXCEPT !.exists = TRUE], "create")
      PROVE  WorldMoves /\ LoopInv'
  <2> DEFINE s == [NoSecret EXCEPT !.exists = TRUE]
  <2>1. ~Calm' /\ "keygen" \in Faults
    BY <1>4, SpendFault DEF Inv, WorldInv, RestInv, Faults
  <2>2. NoSecret \in Secrets /\ GoodData(NoData) /\ \A n \in Names : NoData[n] = Nothing
    BY AtWork, GoodWithoutKeys
  <2>3. s \in Secrets /\ s.data = NoData
    BY <2>2 DEF Secrets, NoSecret
  <2> HIDE DEF s
  <2>4. /\ [agg[l] EXCEPT !.secret = s].spec = agg[l].spec
        /\ [agg[l] EXCEPT !.secret = s].secret = s
    BY <1>2 DEF Aggregates
  <2>5. SecretOK(l, "create", [agg[l] EXCEPT !.secret = s], history, Calm', Dark(l))
    BY <1>4, <2>1, <2>2, <2>3, <2>4 DEF SecretOK, Before
  <2>6. Take(l, s, "create")
    BY <1>4 DEF s
  <2> QED
    BY <1>1, <1>4, <2>1, <2>3, <2>5, <2>6, TakeSafe
<1>5. CASE SecretMissing(l)
  <2>1. UNCHANGED spent
    BY <1>5 DEF SecretMissing
  <2>2. CASE agg[l].spec.create
    <3>1. PICK k \in NewKeys : Take(l, [rv |-> 0, exists |-> TRUE, data |->
                        UpdateGPGSecretWithRecreatedGPGKey(NoData, MyRef(l), k)], "create")
      BY <1>5, <2>2 DEF SecretMissing
    <3>2. k \in Keys
      BY DEF NewKeys
    <3> QED
      BY <1>3, <2>1, <2>2, <3>1, <3>2
  <2>3. CASE ~agg[l].spec.create
    BY <1>1, <1>5, <2>1, <2>3, FailSafe DEF SecretMissing
  <2> QED
    BY <2>2, <2>3
<1>6. CASE SecretMissingKeygenFails(l)
  BY <1>4, <1>6 DEF SecretMissingKeygenFails
<1> QED
  BY <1>5, <1>6


\* A loop takes the Secret as it is in the cache, if the key is complete or is not
\* its to make.
LEMMA TakeCachedSafe ==
  ASSUME Inv, NEW l \in Loops, pc[l] \in {"gpg", "wait", "get"}, Found(l),
         Take(l, Cached(l), "template"),
         agg[l].spec.create => ~ShouldUpdate(Cached(l).data, MyRef(l)),
         UNCHANGED <<apiVars, cache, stopping, spent>>
  PROVE  WorldMoves /\ LoopInv'
<1>1. /\ Cached(l) \in history /\ Cached(l) \in Secrets /\ Cached(l).exists
      /\ agg[l] \in Aggregates
  BY AtWork DEF Found, Cached
<1>2. /\ [agg[l] EXCEPT !.secret = Cached(l)].spec = agg[l].spec
      /\ [agg[l] EXCEPT !.secret = Cached(l)].secret = Cached(l)
  BY <1>1 DEF Aggregates
<1>3. SecretOK(l, "template", [agg[l] EXCEPT !.secret = Cached(l)], history, Calm', Dark(l))
  BY <1>1, <1>2 DEF SecretOK
<1>4. pc[l] \in Before \ {"idle"}
  BY DEF Before
<1> QED
  BY <1>1, <1>3, <1>4, TakeSafe

\* A loop that finds the Secret takes it or reads it again.
LEMMA SecretFoundSafe ==
  ASSUME Inv, NEW l \in Loops, SecretFound(l)
  PROVE  WorldMoves /\ LoopInv'
<1>1. /\ pc[l] \in {"gpg", "wait"} /\ Found(l) /\ UNCHANGED <<apiVars, cache, stopping, spent>>
  BY DEF SecretFound, Getting
<1>2. CASE agg[l].spec.create /\ ShouldUpdate(Cached(l).data, MyRef(l))
  <2>1. pc' = [pc EXCEPT ![l] = "get"] /\ UNCHANGED <<agg, pending>>
    BY <1>2 DEF SecretFound, Goto
  <2>2. agg' = [agg EXCEPT ![l] = agg[l]]
    BY <2>1 DEF Inv, LoopInv
  <2>3. /\ Good(l, pc[l], agg[l], history, Calm, Dark(l), published[Backup(l)])
        /\ pending' \subseteq Loops
    BY <1>1, <2>1, AtWork
  <2>4. Good(l, "get", agg[l], history, Calm, Dark(l), published[Backup(l)])
    BY <1>1, <1>2, <2>3 DEF Good, Steps, SecretOK, RestOK, Before
  <2> QED
    BY <1>1, <2>1, <2>2, <2>3, <2>4, StepSafe
<1>3. CASE ~(agg[l].spec.create /\ ShouldUpdate(Cached(l).data, MyRef(l)))
  BY <1>1, <1>3, TakeCachedSafe DEF SecretFound
<1> QED
  BY <1>2, <1>3

\* A loop that reads the Secret again takes it, makes a key for it, or fails.
LEMMA GetSecretSafe ==
  ASSUME Inv, NEW l \in Loops, GetSecret(l) \/ GetSecretKeygenFails(l)
  PROVE  WorldMoves /\ LoopInv'
<1>1. pc[l] = "get" /\ UNCHANGED <<apiVars, cache, stopping>>
  BY DEF GetSecret, GetSecretKeygenFails
<1>2. agg[l] \in Aggregates /\ agg[l].spec.create /\ Backup(l) \in Backups
  BY <1>1, AtWork DEF Good, SecretOK
<1>3. CASE GetSecret(l) /\ Fail(l)
  BY <1>1, <1>3, FailSafe DEF GetSecret
<1>4. CASE GetSecretKeygenFails(l)
  <2>1. Fail(l) /\ Spend("keygen") /\ "keygen" \in Faults
    BY <1>4 DEF GetSecretKeygenFails, Faults
  <2> QED
    BY <1>1, <2>1, FailSafe
<1>5. CASE GetSecret(l) /\ Found(l) /\ ~ShouldUpdate(Cached(l).data, MyRef(l)) /\ Take(l, Cached(l), "template")
  BY <1>1, <1>5, TakeCachedSafe DEF GetSecret
<1>6. ASSUME GetSecret(l), Found(l), ShouldUpdate(Cached(l).data, MyRef(l)), NEW k \in NewKeys,
             Take(l, [Cached(l) EXCEPT !.data =
                        UpdateGPGSecretWithRecreatedGPGKey(@, MyRef(l), k)], "update")
      PROVE  WorldMoves /\ LoopInv'
  <2> DEFINE d == UpdateGPGSecretWithRecreatedGPGKey(Cached(l).data, MyRef(l), k)
             s == [Cached(l) EXCEPT !.data = d]
  <2>1. /\ Cached(l) \in history /\ Cached(l) \in Secrets /\ Cached(l).exists
        /\ GoodData(Cached(l).data)
    BY <1>6, AtWork DEF Found, Cached
  <2>2. k \in Keys
    BY DEF NewKeys
  <2>3. GoodData(d)
    BY <1>2, <2>1, <2>2, GoodUpdate DEF MyRef
  <2>4. d \in [Names -> Values]
    BY <2>3, Zenon DEF GoodData, Data
  <2>5. Take(l, s, "update")
    BY <1>6
  <2>6. d = UpdateGPGSecretWithRecreatedGPGKey(Cached(l).data, MyRef(l), k)
    OBVIOUS
  <2> HIDE DEF d
  <2>7. s \in Secrets /\ s.data = d /\ s.rv = Cached(l).rv
    BY <2>1, <2>4 DEF Secrets
  <2> HIDE DEF s
  <2>8. /\ [agg[l] EXCEPT !.secret = s].spec = agg[l].spec
        /\ [agg[l] EXCEPT !.secret = s].secret = s
    BY <1>2 DEF Aggregates
  <2>9. SecretOK(l, "update", [agg[l] EXCEPT !.secret = s], history, Calm', Dark(l))
    <3>1. \E t \in history, j \in Keys :
            /\ t.exists /\ t.rv = s.rv /\ ShouldUpdate(t.data, MyRef(l))
            /\ s.data = UpdateGPGSecretWithRecreatedGPGKey(t.data, MyRef(l), j)
      BY <1>6, <2>1, <2>2, <2>6, <2>7
    <3> QED
      BY <1>2, <2>8, <3>1 DEF SecretOK, Before
  <2>10. pc[l] \in Before \ {"idle"} /\ UNCHANGED spent
    BY <1>1, <1>6 DEF Before, GetSecret
  <2> QED
    BY <1>1, <2>5, <2>7, <2>9, <2>10, TakeSafe
<1> QED
  BY <1>3, <1>4, <1>5, <1>6 DEF GetSecret


\* What a loop is about to write is good, and has a whole key unless none could be
\* made.
LEMMA ReadyToWrite ==
  ASSUME Inv, NEW l \in Loops, pc[l] \in {"create", "update"}
  PROVE  /\ GoodData(agg[l].secret.data)
         /\ Calm => ~ShouldUpdate(agg[l].secret.data, MyRef(l))
<1>1. SecretOK(l, pc[l], agg[l], history, Calm, Dark(l)) /\ Backup(l) \in Backups
  BY AtWork DEF Good
<1>2. CASE pc[l] = "create"
  BY <1>1, <1>2 DEF SecretOK
<1>3. CASE pc[l] = "update"
  <2>1. PICK s \in history, k \in Keys :
          agg[l].secret.data = UpdateGPGSecretWithRecreatedGPGKey(s.data, MyRef(l), k)
    BY <1>1, <1>3 DEF SecretOK
  <2>2. GoodData(s.data)
    BY DEF Inv, WorldInv, SecretInv
  <2> QED
    BY <1>1, <2>1, <2>2, GoodUpdate DEF MyRef
<1> QED
  BY <1>2, <1>3

\* A loop that created or updated the Secret goes on with what was stored.
LEMMA StoredSafe ==
  ASSUME Inv, NEW l \in Loops, pc[l] \in {"create", "update"},
         StoreSecret(agg[l].secret.data), Take(l, api', "template"),
         UNCHANGED <<cache, stopping, spent>>
  PROVE  WorldMoves /\ LoopInv'
<1> DEFINE d == agg[l].secret.data
<1>1. GoodData(d) /\ (Calm => ~ShouldUpdate(d, MyRef(l))) /\ agg[l] \in Aggregates
  BY ReadyToWrite, AtWork
<1>2. pending' \subseteq Loops
  BY AtWork DEF Take
<1>3. WorldMoves /\ \A m \in Loops : Dark(m)' <=> Dark(m)
  BY <1>1, <1>2, LoopKeepsWorld DEF Inv
<1>4. api' = [rv |-> api.rv + 1, exists |-> TRUE, data |-> d] /\ history' = history \cup {api'}
  BY DEF StoreSecret
<1>5. api' \in Secrets
  BY <1>1, <1>4, SecretWritten DEF Inv, WorldInv
<1>6. /\ [agg[l] EXCEPT !.secret = api'].spec = agg[l].spec
      /\ [agg[l] EXCEPT !.secret = api'].secret = api'
  BY <1>1 DEF Aggregates
<1>7. Calm' => Calm
  BY <1>3 DEF WorldMoves
<1>8. SecretOK(l, "template", [agg[l] EXCEPT !.secret = api'], history', Calm', Dark(l)')
  BY <1>1, <1>4, <1>6, <1>7 DEF SecretOK
<1>9. pc[l] \in Before \ {"idle"}
  BY DEF Before
<1> QED
  BY <1>3, <1>5, <1>8, <1>9, OneLoopTakes DEF Inv

\* Create, Update and their failures.
LEMMA WriteSafe ==
  ASSUME Inv, NEW l \in Loops, CreateSecret(l) \/ UpdateSecret(l) \/ WriteFails(l)
  PROVE  WorldMoves /\ LoopInv'
<1>1. pc[l] \in {"create", "update"} /\ UNCHANGED <<cache, stopping>>
  BY DEF CreateSecret, UpdateSecret, WriteFails
<1>2. GoodData(agg[l].secret.data)
  BY <1>1, ReadyToWrite
<1>3. CASE CreateSecret(l)
  <2>1. CASE api.exists
    BY <1>1, <1>3, <2>1, FailSafe DEF CreateSecret
  <2>2. CASE ~api.exists
    BY <1>1, <1>3, <2>2, StoredSafe DEF CreateSecret
  <2> QED
    BY <2>1, <2>2
<1>4. CASE UpdateSecret(l)
  <2>1. CASE ~Current(l)
    BY <1>1, <1>4, <2>1, FailSafe DEF UpdateSecret
  <2>2. CASE Current(l)
    BY <1>1, <1>4, <2>2, StoredSafe DEF UpdateSecret
  <2> QED
    BY <2>1, <2>2
<1>5. CASE WriteFails(l)
  <2>1. Fail(l) /\ (UNCHANGED apiVars \/ StoreSecret(agg[l].secret.data))
    BY <1>5 DEF WriteFails
  <2>2. UNCHANGED spent \/ \E f \in Faults : Spend(f)
    BY <1>5 DEF WriteFails, Faults
  <2> QED
    BY <1>1, <1>2, <2>1, <2>2, FailSafe
<1> QED
  BY <1>3, <1>4, <1>5

\* The template is read.
LEMMA TemplateSafe ==
  ASSUME Inv, NEW l \in Loops, hydrateTemplate(l)
  PROVE  WorldMoves /\ LoopInv'
<1>1. pc[l] = "template" /\ UNCHANGED <<apiVars, cache, stopping, spent>>
  BY DEF hydrateTemplate
<1>2. CASE Fail(l)
  BY <1>1, <1>2, FailSafe
<1>3. ASSUME NEW v, v = IF agg[l].spec.internal THEN 0 ELSE fetchTemplate(l),
             agg' = [agg EXCEPT ![l].tpl = v], Goto(l, "token"), UNCHANGED pending
      PROVE  WorldMoves /\ LoopInv'
  <2> DEFINE a == [agg[l] EXCEPT !.tpl = v]
  <2>1. /\ Good(l, "template", agg[l], history, Calm, Dark(l), published[Backup(l)])
        /\ agg[l] \in Aggregates /\ pending' \subseteq Loops
    BY <1>1, <1>3, AtWork
  <2>2. v \in 0 .. MaxTemplate
    <3>1. 0 \in 0 .. MaxTemplate
      BY GoodIdle, AggregateFields DEF NoAggregate
    <3>2. Home(l) \in Replicas
      BY HomeOfLoop
    <3>3. cache[Home(l)].tpl \in 0 .. MaxTemplate
      BY <3>2 DEF Inv, WorldInv, CacheInv, Caches
    <3> QED
      BY <1>3, <3>1, <3>3 DEF fetchTemplate
  <2>3. a \in Aggregates /\ a.spec = agg[l].spec /\ a.secret = agg[l].secret
    BY <2>1, <2>2 DEF Aggregates
  <2>4. pc' = [pc EXCEPT ![l] = "token"] /\ agg' = [agg EXCEPT ![l] = a]
    BY <1>3 DEF Goto, Inv, LoopInv
  <2> HIDE DEF a
  <2>5. Good(l, "token", a, history, Calm, Dark(l), published[Backup(l)])
    <3>1. SecretOK(l, "token", a, history, Calm, Dark(l))
      BY <2>1, <2>3 DEF Good, SecretOK, Before
    <3>2. RestOK(l, "token", a, history, published[Backup(l)])
      BY <2>1, <2>3 DEF Good, RestOK, Before, Reading
    <3> QED
      BY <2>3, <3>1, <3>2 DEF Good, Steps
  <2> QED
    BY <1>1, <2>1, <2>4, <2>5, StepSafe
<1> QED
  BY <1>2, <1>3 DEF hydrateTemplate


\* The token is read.
LEMMA TokenSafe ==
  ASSUME Inv, NEW l \in Loops, hydrateAccessToken(l)
  PROVE  WorldMoves /\ LoopInv'
<1>1. pc[l] = "token" /\ UNCHANGED <<apiVars, cache, stopping, spent>>
  BY DEF hydrateAccessToken
<1>2. CASE Fail(l)
  BY <1>1, <1>2, FailSafe
<1>3. CASE /\ Found(l) /\ agg' = [agg EXCEPT ![l].token = Cached(l).data["token"]]
           /\ Goto(l, "vars") /\ UNCHANGED pending
  <2> DEFINE v == Cached(l).data["token"]
             a == [agg[l] EXCEPT !.token = v]
  <2>1. /\ Good(l, "token", agg[l], history, Calm, Dark(l), published[Backup(l)])
        /\ agg[l] \in Aggregates /\ pending' \subseteq Loops
        /\ Cached(l) \in history /\ Cached(l).exists /\ GoodData(Cached(l).data)
    BY <1>1, <1>3, AtWork DEF Found, Cached
  <2>2. v \in Values
    BY <2>1, IndexNames DEF GoodData, Data, Names
  <2>3. pc' = [pc EXCEPT ![l] = "vars"] /\ agg' = [agg EXCEPT ![l] = a]
    BY <1>3 DEF Goto, Inv, LoopInv
  <2>4. /\ a \in Aggregates /\ a.spec = agg[l].spec /\ a.secret = agg[l].secret
        /\ a.token = Cached(l).data["token"]
    BY <2>1, <2>2 DEF Aggregates
  <2> HIDE DEF a, v
  <2>6. SecretOK(l, "vars", a, history, Calm, Dark(l))
    BY <2>1, <2>4 DEF Good, SecretOK, Before
  <2>7. RestOK(l, "vars", a, history, published[Backup(l)])
    BY <2>1, <2>4 DEF Good, RestOK, Before, Reading
  <2>8. Good(l, "vars", a, history, Calm, Dark(l), published[Backup(l)])
    BY <2>4, <2>6, <2>7 DEF Good, Steps
  <2> QED
    BY <1>1, <2>1, <2>3, <2>8, StepSafe
<1> QED
  BY <1>2, <1>3 DEF hydrateAccessToken

\* The key for an operation is an entry of the Secret.
LEMMA KeyForOperation ==
  ASSUME NEW b \in Backups, NEW a \in Aggregates, NEW op
  PROVE  GPGKey(a, Ref[b], op) \in Values
<1>1. /\ Ref[b].publicKey \in Names /\ Ref[b].privateKey \in Names
  BY IndexNames
<1>2. a.secret.data \in [Names -> Values]
  BY DEF Aggregates, Secrets
<1> QED
  BY <1>1, <1>2 DEF GPGKey

\* The variables are read, and the aggregate is complete.
LEMMA VarsSafe ==
  ASSUME Inv, NEW l \in Loops, hydrateVarsSecret(l)
  PROVE  WorldMoves /\ LoopInv'
<1>1. pc[l] = "vars" /\ UNCHANGED <<apiVars, cache, stopping, spent>>
  BY DEF hydrateVarsSecret
<1>2. CASE Fail(l)
  BY <1>1, <1>2, FailSafe
<1>3. CASE ~(agg[l].spec.vars /\ ~Found(l))
  <2> DEFINE spec == ForAction(agg[l].spec, Request[l].action)
             key == GPGKey(agg[l], MyRef(l), spec.operation)
             data == IF agg[l].spec.vars THEN Cached(l).data ELSE NoData
             a == [agg[l] EXCEPT !.spec = spec, !.gpgKeyContent = key, !.vars = data]
  <2>0. /\ Goto(l, "hydrated") /\ UNCHANGED pending
        /\ agg' = [agg EXCEPT ![l].spec = spec, ![l].gpgKeyContent = key, ![l].vars = data]
    BY <1>3, Zenon DEF hydrateVarsSecret
  <2>1. /\ Good(l, "vars", agg[l], history, Calm, Dark(l), published[Backup(l)])
        /\ agg[l] \in Aggregates /\ pending' \subseteq Loops /\ Backup(l) \in Backups
        /\ agg[l].spec \in Specs
    BY <1>1, <2>0, AtWork, AggregateFields
  <2>2. Request[l].action \in Operations \cup {""}
    BY BackupOfLoop
  <2>3. /\ spec \in Specs /\ spec.create = agg[l].spec.create /\ spec.vars = agg[l].spec.vars
        /\ Request[l].action = "" => spec = agg[l].spec
        /\ Request[l].action # "" => spec.operation = Request[l].action
    <3>1. CASE Request[l].action = ""
      BY <2>1, <3>1 DEF ForAction
    <3>2. CASE Request[l].action # ""
      BY <2>1, <2>2, <3>2 DEF ForAction, Specs
    <3> QED
      BY <3>1, <3>2
  <2> HIDE DEF spec
  <2>4. key \in Values
    BY <2>1, KeyForOperation DEF MyRef
  <2> HIDE DEF key
  <2>5. agg[l].spec.vars => /\ Cached(l) \in history /\ Cached(l).exists
                            /\ GoodData(Cached(l).data) /\ data = Cached(l).data
    BY <1>3, AtWork DEF Found, Cached
  <2>6. data \in [Names -> Values]
    <3>1. CASE agg[l].spec.vars
      BY <2>5, <3>1, Zenon DEF GoodData, Data
    <3>2. CASE ~agg[l].spec.vars
      BY <1>3, <3>2, GoodWithoutKeys, Zenon DEF GoodData, Data
    <3> QED
      BY <3>1, <3>2
  <2> HIDE DEF data
  <2>7. pc' = [pc EXCEPT ![l] = "hydrated"] /\ agg' = [agg EXCEPT ![l] = a]
    BY <2>0 DEF Goto, Inv, LoopInv
  <2>8. /\ a \in Aggregates /\ a.spec = spec /\ a.secret = agg[l].secret
        /\ a.token = agg[l].token /\ a.vars = data
    BY <2>1, <2>3, <2>4, <2>6 DEF Aggregates
  <2> HIDE DEF a
  <2>9. SecretOK(l, "hydrated", a, history, Calm, Dark(l))
    BY <2>1, <2>3, <2>8 DEF Good, SecretOK, Before
  <2>10. RestOK(l, "hydrated", a, history, published[Backup(l)])
    <3>1. \E s \in history : s.exists /\ a.token = s.data["token"]
      BY <2>1, <2>8 DEF Good, RestOK, Before
    <3>2. a.spec.vars => \E s \in history : s.exists /\ a.vars = s.data
      BY <2>3, <2>5, <2>8
    <3>3. agg[l].spec \in published[Backup(l)]
      BY <2>1 DEF Good, RestOK, Before, Reading
    <3>4. "hydrated" \notin Before \cup Reading
      BY DEF Before, Reading
    <3> QED
      BY <2>3, <2>8, <3>1, <3>2, <3>3, <3>4 DEF RestOK
  <2>11. Good(l, "hydrated", a, history, Calm, Dark(l), published[Backup(l)])
    BY <2>8, <2>9, <2>10 DEF Good, Steps
  <2> QED
    BY <1>1, <2>1, <2>7, <2>11, StepSafe
<1> QED
  BY <1>2, <1>3 DEF hydrateVarsSecret

\* Rendering leaves the aggregate as it is, except for the key that it writes.
LEMMA RendersSafe ==
  ASSUME Inv, NEW l \in Loops, Renders(l)
  PROVE  WorldMoves /\ LoopInv'
<1>1. /\ UNCHANGED <<apiVars, cache, stopping>>
      /\ UNCHANGED spent \/ \E f \in Faults : Spend(f)
  BY DEF Renders, Faults
<1>2. /\ Good(l, pc[l], agg[l], history, Calm, Dark(l), published[Backup(l)])
      /\ agg[l] \in Aggregates /\ pending' \subseteq Loops
  BY AtWork DEF Renders
<1>3. CASE agg' = [agg EXCEPT ![l] = NoAggregate] /\ Goto(l, "idle")
  <2>1. Good(l, "idle", NoAggregate, history, Calm, Dark(l), published[Backup(l)])
    BY GoodIdle
  <2> QED
    BY <1>1, <1>2, <1>3, <2>1, StepSafe DEF Goto
<1>4. ASSUME NEW step \in {"hydrated", "write", "workspace", "generate", "rendered"}, Goto(l, step),
             NEW v \in Values, agg' = [agg EXCEPT ![l].gpgKeyContent = v]
      PROVE  WorldMoves /\ LoopInv'
  <2> DEFINE a == [agg[l] EXCEPT !.gpgKeyContent = v]
  <2>1. pc' = [pc EXCEPT ![l] = step] /\ agg' = [agg EXCEPT ![l] = a]
    BY <1>4 DEF Goto, Inv, LoopInv
  <2>2. /\ a \in Aggregates /\ a.spec = agg[l].spec /\ a.secret = agg[l].secret
        /\ a.token = agg[l].token /\ a.vars = agg[l].vars
    BY <1>2 DEF Aggregates
  <2> HIDE DEF a
  <2>3. pc[l] \notin Before \cup Reading /\ step \notin Before \cup Reading /\ step \in Steps
    BY DEF Renders, Hydrated, Before, Reading, Steps
  <2>4. SecretOK(l, step, a, history, Calm, Dark(l))
    BY <1>2, <2>2, <2>3 DEF Good, SecretOK, Before, Reading
  <2>5. RestOK(l, step, a, history, published[Backup(l)])
    BY <1>2, <2>2, <2>3 DEF Good, RestOK, Before, Reading
  <2>6. Good(l, step, a, history, Calm, Dark(l), published[Backup(l)])
    BY <2>2, <2>3, <2>4, <2>5 DEF Good
  <2> QED
    BY <1>1, <1>2, <2>1, <2>6, StepSafe
<1>5. UNCHANGED agg => \E v \in Values : agg' = [agg EXCEPT ![l].gpgKeyContent = v]
  <2>1. agg[l].gpgKeyContent \in Values
    BY <1>2, AggregateFields
  <2>2. ASSUME UNCHANGED agg PROVE agg' = [agg EXCEPT ![l].gpgKeyContent = agg[l].gpgKeyContent]
    BY <1>2, <2>2 DEF Inv, LoopInv, Aggregates
  <2> QED
    BY <2>1, <2>2
<1> QED
  BY <1>3, <1>4, <1>5 DEF Renders

-----------------------------------------------------------------------------
(* The steps of users, informers and processes.                            *)

\* Loops that do nothing are as good as they were.
LEMMA LoopsStay ==
  ASSUME LoopInv, WorldMoves, UNCHANGED <<pc, agg>>, \A m \in Loops : Dark(m) => Dark(m)'
  PROVE  LoopInv'
<1>1. ASSUME NEW m \in Loops
      PROVE  Good(m, pc[m], agg[m], history', Calm', Dark(m)', published'[Backup(m)])
  <2>1. /\ Good(m, pc[m], agg[m], history, Calm, Dark(m), published[Backup(m)])
        /\ history \subseteq history' /\ published[Backup(m)] \subseteq published'[Backup(m)]
        /\ (Calm' => Calm) /\ (Dark(m) => Dark(m)')
    BY BackupOfLoop DEF LoopInv, WorldMoves
  <2> QED
    BY <2>1, GoodStays
<1> QED
  BY <1>1 DEF LoopInv

\* A user writes or deletes the Secret.
LEMMA EditSecretSafe ==
  ASSUME Inv, EditSecret
  PROVE  WorldMoves /\ LoopInv'
<1>1. Spend("user") /\ UNCHANGED <<tpl, sb, published, cache, stopping, pending, pc, agg>>
  BY DEF EditSecret
<1>2. spent' \in [Faults -> Nat] /\ (Calm' => Calm)
  BY <1>1, SpendFault DEF Inv, WorldInv, RestInv, Faults
<1>3. PICK data \in {NoData} \cup UNION {Provided(api.data, k) : k \in NewKeys} :
        api' = [rv |-> api.rv + 1, exists |-> data # NoData, data |-> data]
  BY DEF EditSecret
<1>4. GoodData(data)
  <2>1. ASSUME NEW k \in NewKeys, data \in Provided(api.data, k) PROVE GoodData(data)
    <3>1. k \in Keys /\ GoodData(api.data)
      BY DEF NewKeys, Inv, WorldInv, SecretInv
    <3> QED
      BY <2>1, <3>1, GoodProvided
  <2> QED
    BY <2>1, GoodWithoutKeys
<1>5. SecretInv' /\ history \subseteq history'
  <2> DEFINE e == data # NoData
  <2>1. /\ api' = [rv |-> api.rv + 1, exists |-> e, data |-> data] /\ (~e => data = NoData)
        /\ e \in BOOLEAN
    BY <1>3
  <2>2. history' = history \cup {api'} /\ SecretInv
    BY DEF EditSecret, Inv, WorldInv
  <2> HIDE DEF e
  <2> QED
    BY <1>4, <2>1, <2>2, SecretWritten
<1>6. CacheInv' /\ RestInv'
  BY <1>1, <1>2, <1>5 DEF Inv, WorldInv, CacheInv, CacheUnspoilt, RestInv
<1>7. WorldMoves
  BY <1>1, <1>2, <1>5, <1>6 DEF WorldMoves, WorldInv
<1>8. \A m \in Loops : Dark(m) => Dark(m)'
  BY <1>1 DEF Dark
<1> QED
  BY <1>1, <1>7, <1>8, LoopsStay DEF Inv

\* A user writes the template or a ScheduledBackup.
LEMMA EditSafe ==
  ASSUME Inv, EditTemplate \/ \E b \in Backups : EditBackup(b)
  PROVE  WorldMoves /\ LoopInv'
<1>1. /\ UNCHANGED <<api, history, cache, stopping, pending, pc, agg>>
      /\ \E f \in Faults : Spend(f)
  BY DEF EditTemplate, EditBackup, Faults
<1>2. spent' \in [Faults -> Nat] /\ (Calm' => Calm)
  BY <1>1, SpendFault DEF Inv, WorldInv, RestInv
<1>3. /\ tpl' \in 0 .. MaxTemplate /\ sb' \in [Backups -> Specs]
      /\ published' \in [Backups -> SUBSET Specs]
      /\ \A c \in Backups : sb'[c] \in published'[c] /\ published[c] \subseteq published'[c]
  <2>1. RestInv
    BY DEF Inv, WorldInv
  <2>2. CASE EditTemplate
    <3>1. MaxTemplate \in Nat
      BY HydrationAssumption, Zenon
    <3>2. tpl' \in 0 .. MaxTemplate /\ UNCHANGED <<sb, published>>
      BY <2>2, <3>1 DEF EditTemplate
    <3> QED
      BY <2>1, <3>2 DEF RestInv
  <2>3. ASSUME NEW b \in Backups, EditBackup(b)
        PROVE  /\ tpl' \in 0 .. MaxTemplate /\ sb' \in [Backups -> Specs]
               /\ published' \in [Backups -> SUBSET Specs]
               /\ \A c \in Backups : sb'[c] \in published'[c] /\ published[c] \subseteq published'[c]
    <3>1. PICK spec \in LaterSpecs \ {sb[b]} :
            /\ sb' = [sb EXCEPT ![b] = spec]
            /\ published' = [published EXCEPT ![b] = @ \cup {spec}]
      BY <2>3 DEF EditBackup
    <3>2. spec \in Specs /\ UNCHANGED tpl
      <4>1. LaterSpecs \subseteq Specs
        BY HydrationAssumption, Zenon
      <4> QED
        BY <2>3, <4>1 DEF EditBackup
    <3> QED
      BY <2>1, <3>1, <3>2 DEF RestInv
  <2> QED
    BY <2>2, <2>3
<1>4. SecretInv' /\ CacheInv' /\ RestInv'
  BY <1>1, <1>2, <1>3 DEF Inv, WorldInv, SecretInv, CacheInv, CacheUnspoilt, RestInv
<1>5. WorldMoves
  BY <1>1, <1>2, <1>3, <1>4 DEF WorldMoves, WorldInv
<1>6. \A m \in Loops : Dark(m) => Dark(m)'
  BY <1>1 DEF Dark
<1> QED
  BY <1>1, <1>5, <1>6, LoopsStay DEF Inv

\* An informer sees a change.
LEMMA SyncSafe ==
  ASSUME Inv, NEW p \in Replicas,
         SyncSecret(p) \/ SyncTemplate(p) \/ \E b \in Backups : SyncBackup(p, b)
  PROVE  WorldMoves /\ LoopInv'
<1>1. /\ UNCHANGED <<apiVars, stopping, pc, agg, spent>> /\ pending' \subseteq Loops
      /\ p \subseteq Loops
  <2>1. p \subseteq Loops
    BY HydrationAssumption
  <2> QED
    BY <2>1 DEF SyncSecret, SyncTemplate, SyncBackup, Inv, WorldInv, RestInv
<1>2. api \in history /\ api \in Secrets /\ RestInv /\ CacheInv
  BY DEF Inv, WorldInv, SecretInv
<1>3. PICK c : /\ cache' = [cache EXCEPT ![p] = c] /\ c \in Caches
               /\ c.synced => c.secret \in history
               /\ \A b \in Backups : c.sb[b] \in published[b]
  <2>0. /\ cache[p] \in Caches /\ (cache[p].synced => cache[p].secret \in history)
        /\ \A b \in Backups : cache[p].sb[b] \in published[b]
    BY <1>2 DEF CacheInv, CacheUnspoilt
  <2>1. CASE SyncSecret(p)
    <3> DEFINE c == [cache[p] EXCEPT !.synced = TRUE, !.secret = api]
    <3>1. cache' = [cache EXCEPT ![p] = c]
      BY <1>2, <2>1 DEF SyncSecret, CacheInv
    <3>2. c \in Caches /\ c.secret = api /\ c.sb = cache[p].sb
      BY <1>2, <2>0 DEF Caches
    <3> HIDE DEF c
    <3> QED
      BY <1>2, <2>0, <3>1, <3>2
  <2>2. CASE SyncTemplate(p)
    <3> DEFINE c == [cache[p] EXCEPT !.tpl = tpl]
    <3>1. cache' = [cache EXCEPT ![p] = c]
      BY <1>2, <2>2 DEF SyncTemplate, CacheInv
    <3>2. c \in Caches /\ c.synced = cache[p].synced /\ c.secret = cache[p].secret /\ c.sb = cache[p].sb
      BY <1>2, <2>0 DEF Caches, RestInv
    <3> HIDE DEF c
    <3> QED
      BY <2>0, <3>1, <3>2
  <2>3. ASSUME NEW b \in Backups, SyncBackup(p, b)
        PROVE  \E c : /\ cache' = [cache EXCEPT ![p] = c] /\ c \in Caches
                      /\ c.synced => c.secret \in history
                      /\ \A d \in Backups : c.sb[d] \in published[d]
    <3> DEFINE f == [cache[p].sb EXCEPT ![b] = sb[b]]
               c == [cache[p] EXCEPT !.sb = f]
    <3>1. cache' = [cache EXCEPT ![p] = c]
      BY <1>2, <2>3 DEF SyncBackup, CacheInv
    <3>2. f \in [Backups -> Specs] /\ \A d \in Backups : f[d] \in published[d]
      BY <1>2, <2>0 DEF Caches, RestInv
    <3> HIDE DEF f
    <3>3. c \in Caches /\ c.synced = cache[p].synced /\ c.secret = cache[p].secret /\ c.sb = f
      BY <2>0, <3>2 DEF Caches
    <3> HIDE DEF c
    <3> QED
      BY <2>0, <3>1, <3>2, <3>3
  <2> QED
    BY <2>1, <2>2, <2>3
<1>4. SecretInv' /\ RestInv'
  BY <1>1 DEF Inv, WorldInv, SecretInv, RestInv, apiVars
<1>5. CacheInv'
  BY <1>1, <1>2, <1>3 DEF CacheInv, CacheUnspoilt, apiVars
<1>6. WorldMoves
  BY <1>1, <1>4, <1>5 DEF WorldMoves, WorldInv, Calm, apiVars
<1>7. \A m \in Loops : Dark(m) => Dark(m)'
  BY <1>1 DEF Dark
<1> QED
  BY <1>1, <1>6, <1>7, LoopsStay DEF Inv

\* A process is told to stop.
LEMMA StopSafe ==
  ASSUME Inv, NEW p \in Replicas, Stop(p)
  PROVE  WorldMoves /\ LoopInv'
<1>1. /\ UNCHANGED <<apiVars, cache, pending, pc, agg>> /\ stopping' = stopping \cup {p}
      /\ Spend("stop") /\ "stop" \in Faults
  BY DEF Stop, Faults
<1>2. spent' \in [Faults -> Nat] /\ (Calm' => Calm)
  BY <1>1, SpendFault DEF Inv, WorldInv, RestInv
<1>3. SecretInv' /\ CacheInv' /\ RestInv'
  BY <1>1, <1>2 DEF Inv, WorldInv, SecretInv, CacheInv, CacheUnspoilt, RestInv, apiVars
<1>4. WorldMoves
  BY <1>1, <1>2, <1>3 DEF WorldMoves, WorldInv, apiVars
<1>5. \A m \in Loops : Dark(m) => Dark(m)'
  BY <1>1 DEF Dark
<1> QED
  BY <1>1, <1>4, <1>5, LoopsStay DEF Inv

\* A process is run again: its loops start anew, and those of others go on.
LEMMA RunSafe ==
  ASSUME Inv, NEW p \in Replicas, Run(p)
  PROVE  WorldMoves /\ LoopInv'
<1>1. /\ UNCHANGED apiVars /\ stopping' = stopping \ {p} /\ cache' = [cache EXCEPT ![p] = Listed]
      /\ pending' = pending \cup p
      /\ pc' = [l \in Loops |-> IF l \in p THEN "idle" ELSE pc[l]]
      /\ agg' = [l \in Loops |-> IF l \in p THEN NoAggregate ELSE agg[l]]
      /\ UNCHANGED spent \/ (Spend("crash") /\ "crash" \in Faults)
  BY DEF Run, Faults
<1>2. spent' \in [Faults -> Nat] /\ (Calm' => Calm)
  BY <1>1, SpendFault DEF Inv, WorldInv, RestInv, Calm
<1>3. Listed \in Caches /\ ~Listed.synced /\ \A b \in Backups : Listed.sb[b] \in published[b]
  BY ListedCache DEF Inv, WorldInv
<1>4. p \subseteq Loops
  BY HydrationAssumption
<1>5. SecretInv' /\ RestInv'
  BY <1>1, <1>2, <1>4 DEF Inv, WorldInv, SecretInv, RestInv, apiVars
<1>6. CacheInv'
  BY <1>1, <1>3 DEF Inv, WorldInv, CacheInv, CacheUnspoilt, apiVars
<1>7. WorldMoves
  BY <1>1, <1>2, <1>5, <1>6 DEF WorldMoves, WorldInv, apiVars
<1>8. "idle" \in Steps /\ NoAggregate \in Aggregates
  BY GoodIdle DEF Steps
<1>9. pc' \in [Loops -> Steps] /\ agg' \in [Loops -> Aggregates]
  BY <1>1, <1>8 DEF Inv, LoopInv
<1>10. ASSUME NEW m \in Loops
       PROVE  Good(m, pc'[m], agg'[m], history', Calm', Dark(m)', published'[Backup(m)])
  <2>1. CASE m \in p
    BY <1>1, <2>1, GoodIdle
  <2>2. CASE m \notin p
    <3>1. Home(m) # p /\ Home(m) \in Replicas
      BY <2>2, HomeOfLoop
    <3>3. Dark(m) => Dark(m)'
      BY <1>1, <3>1 DEF Dark
    <3>4. pc'[m] = pc[m] /\ agg'[m] = agg[m]
      BY <1>1, <2>2
    <3>5. /\ Good(m, pc[m], agg[m], history, Calm, Dark(m), published[Backup(m)])
          /\ history \subseteq history' /\ published[Backup(m)] \subseteq published'[Backup(m)]
      BY <1>7, BackupOfLoop DEF Inv, LoopInv, WorldMoves
    <3> QED
      BY <1>2, <3>3, <3>4, <3>5, GoodStays
  <2> QED
    BY <2>1, <2>2
<1> QED
  BY <1>7, <1>9, <1>10 DEF LoopInv

-----------------------------------------------------------------------------
(* The invariant holds, and what it says of the Secret.                    *)

\* Every step keeps the invariant, and nothing that was published or stored is
\* forgotten.
LEMMA HydrationSafe ==
  ASSUME Inv, [HydrationNext]_vars
  PROVE  WorldMoves /\ Inv'
<1> SUFFICES WorldMoves /\ LoopInv'
  BY DEF WorldMoves, Inv
<1>1. CASE UNCHANGED vars
  <2>1. WorldMoves
    BY <1>1 DEF WorldMoves, Inv, WorldInv, SecretInv, CacheInv, CacheUnspoilt, RestInv, Calm, vars, apiVars
  <2>2. UNCHANGED <<pc, agg>> /\ \A m \in Loops : Dark(m) => Dark(m)'
    BY <1>1 DEF Dark, vars
  <2> QED
    BY <2>1, <2>2, LoopsStay DEF Inv
<1>2. CASE Environment
  BY <1>2, EditSecretSafe, EditSafe, SyncSafe, StopSafe DEF Environment
<1>3. ASSUME NEW l \in Loops, HydrationStep(l) PROVE WorldMoves /\ LoopInv'
  BY <1>3, FetchSafe, WaitSafe, SecretUnreadableSafe, SecretMissingSafe, SecretFoundSafe, WriteSafe,
     GetSecretSafe, TemplateSafe, TokenSafe, VarsSafe DEF HydrationStep
<1>4. ASSUME NEW l \in Loops, HydrationFault(l) PROVE WorldMoves /\ LoopInv'
  BY <1>4, SecretMissingSafe, GetSecretSafe, WriteSafe DEF HydrationFault
<1>5. ASSUME NEW l \in Loops, Renders(l) PROVE WorldMoves /\ LoopInv'
  BY <1>5, RendersSafe
<1>6. ASSUME NEW p \in Replicas, Run(p) PROVE WorldMoves /\ LoopInv'
  BY <1>6, RunSafe
<1> QED
  BY <1>1, <1>2, <1>3, <1>4, <1>5, <1>6 DEF HydrationNext

\* The invariant holds at first.
LEMMA HydrationStarts == Init => Inv
<1> SUFFICES ASSUME Init PROVE Inv
  OBVIOUS
<1>1. PICK data \in {NoData, WithToken} :
        api = [rv |-> 1, exists |-> data # NoData, data |-> data]
  BY DEF Init
<1>2. GoodData(data)
  BY GoodWithoutKeys
<1>3. data \in [Names -> Values]
  BY <1>2, Zenon DEF GoodData, Data
<1>4. /\ api \in Secrets /\ api.rv = 1 /\ api.data = data /\ (~api.exists => api.data = NoData)
  BY <1>1, <1>3 DEF Secrets
<1>5. SecretInv
  BY <1>2, <1>4 DEF SecretInv, Init
<1>6. MaxTemplate \in Nat \ {0} /\ FirstSpecs \in [Backups -> Specs]
  BY HydrationAssumption, Zenon
<1>7. RestInv
  BY <1>6 DEF RestInv, Init
<1>8. CacheInv
  BY <1>7, ListedCache DEF CacheInv, CacheUnspoilt, Init
<1>9. LoopInv
  <2>1. "idle" \in Steps
    BY DEF Steps
  <2> QED
    BY <2>1, GoodIdle DEF LoopInv, Init
<1> QED
  BY <1>5, <1>7, <1>8, <1>9 DEF Inv, WorldInv

\* The variables of hydration have their types.
LEMMA HydrationTyped == Inv => HydrationTypeOK
BY DEF Inv, WorldInv, SecretInv, CacheInv, RestInv, LoopInv, Caches, HydrationTypeOK

\* Who is to render has a Secret that the API server held, if its calls are not
\* cancelled.
LEMMA HydratedSecret ==
  ASSUME Inv, NEW l \in Loops, Hydrated(l)
  PROVE  /\ \/ agg[l].secret.exists /\ agg[l].secret \in history
            \/ agg[l].secret = NoSecret /\ ~agg[l].spec.create /\ Home(l) \in stopping
         /\ GoodData(agg[l].secret.data)
         /\ agg[l].spec.create /\ Calm => ~ShouldUpdate(agg[l].secret.data, MyRef(l))
<1>1. pc[l] \notin Before \cup Reading
  BY DEF Hydrated, Before, Reading
<1>2. SecretOK(l, pc[l], agg[l], history, Calm, Dark(l))
  BY AtWork DEF Good
<1>3. \/ agg[l].secret.exists /\ agg[l].secret \in history
      \/ agg[l].secret = NoSecret /\ ~agg[l].spec.create /\ Home(l) \in stopping
  BY <1>1, <1>2 DEF SecretOK, Dark
<1>4. GoodData(agg[l].secret.data)
  BY <1>3, GoodWithoutKeys DEF Inv, WorldInv, SecretInv, NoSecret
<1> QED
  BY <1>1, <1>2, <1>3, <1>4 DEF SecretOK

\* KeyCustody follows from the invariant.
LEMMA Custody == Inv => KeyCustody
BY HydratedSecret DEF KeyCustody

\* Both halves of a complete key are of one identity.
LEMMA WholeKey ==
  ASSUME NEW b \in Backups, Separate(b), NEW d, GoodData(d), ~ShouldUpdate(d, Ref[b])
  PROVE  \E k \in Keys : d[Pub(b)] = <<k, "public">> /\ d[Priv(b)] = <<k, "private">>
<1>1. d[Pub(b)] # Nothing /\ d[Priv(b)] # Nothing
  BY MissingHalf
<1>2. PICK j \in Keys : d[Pub(b)] = <<j, "public">>
  BY <1>1 DEF GoodData, Half
<1>3. PICK k \in Keys : d[Priv(b)] = <<k, "private">>
  BY <1>1 DEF GoodData, Half
<1>4. d[Pub(b)][1] = d[Priv(b)][1]
  BY <1>1 DEF GoodData
<1> QED
  BY <1>2, <1>3, <1>4

\* KeyPair follows from the invariant.
LEMMA Pair == Inv => KeyPair
<1> SUFFICES ASSUME Inv, NEW l \in Loops, Hydrated(l), agg[l].spec.create, Calm,
                    Separate(Backup(l))
             PROVE  \E k \in Keys :
                       /\ agg[l].secret.data[GetPublicKeyIndex(MyRef(l))] = <<k, "public">>
                       /\ agg[l].secret.data[GetPrivateKeyIndex(MyRef(l))] = <<k, "private">>
  BY DEF KeyPair, Calm
<1>1. GoodData(agg[l].secret.data) /\ ~ShouldUpdate(agg[l].secret.data, Ref[Backup(l)])
  BY HydratedSecret DEF MyRef
<1>2. Backup(l) \in Backups
  BY BackupOfLoop
<1>3. PICK k \in Keys : /\ agg[l].secret.data[Pub(Backup(l))] = <<k, "public">>
                        /\ agg[l].secret.data[Priv(Backup(l))] = <<k, "private">>
  BY <1>1, <1>2, WholeKey
<1> QED
  BY <1>3 DEF Pub, Priv, MyRef


\* But for users, the Secret is written by a loop that creates it where there is none
\* or updates the version that it has read.
LEMMA WhoWrites ==
  ASSUME Inv, [HydrationNext]_vars, spent'["user"] = spent["user"]
  PROVE  \/ api' = api
         \/ \E l \in Loops :
               /\ api'.data = agg[l].secret.data
               /\ \/ pc[l] = "create" /\ ~api.exists
                  \/ pc[l] = "update" /\ Current(l)
<1> DEFINE Goal == \/ api' = api
                   \/ \E l \in Loops :
                         /\ api'.data = agg[l].secret.data
                         /\ \/ pc[l] = "create" /\ ~api.exists
                            \/ pc[l] = "update" /\ Current(l)
<1> SUFFICES Goal
  OBVIOUS
<1>0. spent \in [Faults -> Nat] /\ "user" \in Faults
  BY DEF Inv, WorldInv, RestInv, Faults
<1>1. ~EditSecret
  BY <1>0 DEF EditSecret, Spend
<1>2. CASE UNCHANGED vars
  BY <1>2 DEF vars, apiVars
<1>3. CASE Environment
  BY <1>1, <1>3 DEF Environment, EditTemplate, EditBackup, SyncSecret, SyncTemplate, SyncBackup, Stop, apiVars
<1>4. ASSUME NEW l \in Loops, HydrationStep(l) \/ HydrationFault(l) \/ Renders(l) PROVE Goal
  <2>1. CASE CreateSecret(l)
    BY <2>1 DEF CreateSecret, StoreSecret, apiVars
  <2>2. CASE UpdateSecret(l)
    BY <2>2 DEF UpdateSecret, StoreSecret, apiVars
  <2>3. CASE WriteFails(l)
    <3>1. CASE UNCHANGED apiVars
      BY <3>1 DEF apiVars
    <3>2. CASE StoreSecret(agg[l].secret.data) /\ IF pc[l] = "create" THEN ~api.exists ELSE Current(l)
      <4>1. api'.data = agg[l].secret.data
        BY <3>2 DEF StoreSecret
      <4>2. \/ pc[l] = "create" /\ ~api.exists
            \/ pc[l] = "update" /\ Current(l)
        BY <2>3, <3>2 DEF WriteFails
      <4> QED
        BY <4>1, <4>2
    <3> QED
      BY <2>3, <3>1, <3>2 DEF WriteFails
  <2>4. CASE UNCHANGED apiVars
    BY <2>4 DEF apiVars
  <2> QED
    BY <1>4, <2>1, <2>2, <2>3, <2>4
       DEF HydrationStep, HydrationFault, Renders, Fetch, WaitForCacheSync, SecretUnreadable,
           SecretMissing, SecretFound, GetSecret, hydrateTemplate, hydrateAccessToken, hydrateVarsSecret,
           SecretMissingKeygenFails, GetSecretKeygenFails
<1>5. ASSUME NEW p \in Replicas, Run(p) PROVE Goal
  BY <1>5 DEF Run, apiVars
<1> QED
  BY <1>2, <1>3, <1>4, <1>5 DEF HydrationNext

\* What a loop creates or updates changes the entries of its own key: one that is
\* created is in no Secret's place; one that is updated was read incomplete, and is
\* still as it was read.
LEMMA KeyKept ==
  ASSUME Inv, [HydrationNext]_vars, spent'["user"] = spent["user"],
         NEW n \in Names, api'.data[n] # api.data[n]
  PROVE  \E b \in Backups : /\ n \in Indexes(Ref[b]) /\ ShouldUpdate(api.data, Ref[b])
                            /\ \E s \in published[b] : s.create
<1>1. PICK l \in Loops : /\ api'.data = agg[l].secret.data
                         /\ \/ pc[l] = "create" /\ ~api.exists
                            \/ pc[l] = "update" /\ Current(l)
  BY WhoWrites
<1> DEFINE c == Backup(l)
<1>2. /\ SecretOK(l, pc[l], agg[l], history, Calm, Dark(l)) /\ c \in Backups
      /\ RestOK(l, pc[l], agg[l], history, published[c])
  BY AtWork DEF Good
<1>3. \E s \in published[c] : s.create
  <2>1. agg[l].spec.create /\ agg[l].spec \in published[c]
    BY <1>1, <1>2 DEF SecretOK, RestOK, Before
  <2> QED
    BY <2>1
<1> HIDE DEF c
<1>4. CASE pc[l] = "create" /\ ~api.exists
  <2>1. api.data = NoData
    BY <1>4 DEF Inv, WorldInv, SecretInv
  <2>2. n \in Indexes(Ref[c])
    BY <1>1, <1>2, <1>4, <2>1, GoodWithoutKeys DEF SecretOK, MyRef, c
  <2>3. ShouldUpdate(api.data, Ref[c])
    BY <1>2, <2>1, GoodWithoutKeys, IndexNames, MissingHalf
  <2> QED
    BY <1>2, <1>3, <2>2, <2>3
<1>5. CASE pc[l] = "update" /\ Current(l)
  <2>1. PICK s \in history, k \in Keys :
          /\ s.rv = agg[l].secret.rv /\ ShouldUpdate(s.data, Ref[c])
          /\ agg[l].secret.data = UpdateGPGSecretWithRecreatedGPGKey(s.data, Ref[c], k)
    BY <1>2, <1>5 DEF SecretOK, MyRef, c
  <2>2. s = api
    BY <1>5, <2>1, Zenon DEF Current, Inv, WorldInv, SecretInv
  <2>3. GoodData(api.data)
    BY DEF Inv, WorldInv, SecretInv
  <2>4. api'.data = UpdateGPGSecretWithRecreatedGPGKey(api.data, Ref[c], k)
    BY <1>1, <2>1, <2>2
  <2>5. n \in Indexes(Ref[c])
    BY <1>2, <2>3, <2>4, GoodUpdate
  <2> QED
    BY <1>2, <1>3, <2>1, <2>2, <2>5
<1> QED
  BY <1>1, <1>4, <1>5
=============================================================================
