--------------------------- MODULE IdentityProofs ---------------------------
(***************************************************************************)
(* Proofs about the identity broker (OAuthBroker), for every number of     *)
(* sign-ins and all lifetimes that satisfy OAuthBrokerAssumption, and      *)
(* about the settings of its provider (ProviderSettings), for every number *)
(* of administrators, tests and credentials; and that what holds of each   *)
(* part holds of the two that MCIdentity puts beside each other.           *)
(***************************************************************************)
EXTENDS MCIdentity, TLAPS

\* The rows of sign-ins, their lifetimes and their secrets stay in their domains, whatever
\* Callback, Exchange, the janitor and administrators do to them.
THEOREM TypeInvariance == Spec => []TypeOK
  <1>1. Init => TypeOK
    BY OAuthBrokerAssumption DEF Init, TypeOK, Unburdened
  <1>2. TypeOK /\ [Next]_vars => TypeOK'
    <2> SUFFICES ASSUME TypeOK, [Next]_vars
                 PROVE  TypeOK'
      OBVIOUS
    <2> USE DEF TypeOK
    <2>1. ASSUME NEW f \in SignIn, Begin(f) \/ Callback(f) \/ Exchange(f)
          PROVE  TypeOK'
      BY <2>1, OAuthBrokerAssumption DEF Begin, Callback, Exchange, Go, Unburdened, Holding
    <2>2. ASSUME NEW f \in SignIn, ReadProvider(f) \/ Redeem(f) \/ ResolveAccount(f) \/ Crash(f)
          PROVE  TypeOK'
      BY <2>2, OAuthBrokerAssumption
         DEF ReadProvider, Redeem, ResolveAccount, Crash, Abandon, Go, Unburdened, Holding
    <2>3. ASSUME NEW f \in SignIn, Recheck(f)
          PROVE  TypeOK'
      <3>1. AfterRecheck[pc[f]] \in Unburdened \cup Holding
        BY <2>3 DEF Recheck, AfterRecheck, Unburdened, Holding
      <3> QED BY <2>3, <3>1, OAuthBrokerAssumption DEF Recheck, Abandon, Go, Unburdened, Holding
    <2>4. ASSUME NEW f \in SignIn, SaveToken(f) \/ StoreCode(f) \/ IssueToken(f) \/ Cleanup(f)
          PROVE  TypeOK'
      BY <2>4, OAuthBrokerAssumption
         DEF SaveToken, StoreCode, IssueToken, Cleanup, Abandon, Go, Unburdened, Holding
    <2>5. ASSUME Administer
          PROVE  TypeOK'
      <3> DEFINE ProviderRow == [state : {"none", "disabled", "active"}, revision : 0..MaxRevision,
                              issuer : Issuer, life : 0..MaxLife]
      <3>1. ASSUME NEW s \in {"disabled", "active"}, NEW i \in Issuer, Save(s, i)
            PROVE  TypeOK'
        <4>1. provider.revision + 1 \in 0..MaxRevision
          BY <3>1, OAuthBrokerAssumption DEF Save
        <4>2. provider' \in ProviderRow
          BY <3>1, <4>1 DEF Save
        <4> QED BY <3>1, <4>2 DEF Save, signInVars
      <3>2. ASSUME NEW i \in Issuer, Configure(i)
            PROVE  TypeOK'
        <4>1. CASE Save("disabled", i)
          BY <3>1, <4>1
        <4>2. CASE /\ provider.life < MaxLife
                   /\ provider' = [state |-> "disabled", revision |-> 1, issuer |-> i,
                                   life |-> provider.life + 1]
                   /\ UNCHANGED <<account, signInVars>>
          <5>1. provider.life + 1 \in 0..MaxLife /\ 1 \in 0..MaxRevision
            BY <4>2, OAuthBrokerAssumption
          <5>2. provider' \in ProviderRow
            BY <4>2, <5>1
          <5> QED BY <4>2, <5>2 DEF signInVars
        <4> QED BY <3>2, <4>1, <4>2 DEF Configure
      <3>3. provider.issuer \in Issuer
        OBVIOUS
      <3>4. CASE Activate \/ Disable
        BY <3>1, <3>3, <3>4 DEF Activate, Disable
      <3>5. CASE ChangeAccount
        BY <3>5 DEF ChangeAccount, signInVars
      <3>6. CASE Disconnect
        <4>0. 0 \in 0..MaxRevision
          BY OAuthBrokerAssumption
        <4>1. provider' \in ProviderRow
          BY <3>6, <4>0 DEF Disconnect
        <4>2. secrets' \subseteq SignIn /\ crossed' \subseteq SignIn
          BY <3>6 DEF Disconnect
        <4>3. row' \in [SignIn -> {"none", "state", "code", "token"}] /\ left' \in [SignIn -> Nat]
          BY <3>6 DEF Disconnect
        <4> QED BY <3>6, <4>1, <4>2, <4>3 DEF Disconnect
      <3> QED BY <2>5, <3>2, <3>4, <3>5, <3>6 DEF Administer
    <2>6. CASE Sweep
      BY <2>6 DEF Sweep
    <2>7. CASE Tick
      <3>1. \A n \in Nat : Earlier(n) \in Nat /\ Earlier(n) <= n
        BY DEF Earlier
      <3>2. left' \in [SignIn -> Nat] /\ access' \in [SignIn -> 0..AccessTTL]
        BY <2>7, <3>1, OAuthBrokerAssumption DEF Tick
      <3>3. elapsed' \in [SignIn -> 0..RequestLimit] /\ age' \in [SignIn -> 0..Grace]
        BY <2>7, OAuthBrokerAssumption DEF Tick
      <3> QED BY <2>7, <3>2, <3>3 DEF Tick
    <2>8. CASE UNCHANGED vars
      BY <2>8 DEF vars, signInVars
    <2> QED BY <2>1, <2>2, <2>3, <2>4, <2>5, <2>6, <2>7, <2>8 DEF Next, RequestStep
  <1> QED BY <1>1, <1>2, PTL DEF Spec

\* An orphan is older than any secret a request has in hand, so a sweep spares it.
LEMMA SweepSparesYoung ==
  ASSUME TypeOK, SecretAges, NEW f \in SignIn, Sweep
  PROVE  /\ pc[f] \in {"saved", "storing", "redeeming", "issuing"} => f \in secrets'
         /\ row'[f] \in {"code", "token"} => f \in secrets'
  <1> USE DEF TypeOK, SecretAges
  <1>0. f \in secrets' <=> (f \in secrets /\ ~Swept(f))
    BY DEF Sweep
  <1>1. row'[f] = IF Stale(f) THEN "none" ELSE row[f]
    BY DEF Sweep
  <1>2. ASSUME pc[f] \in {"saved", "storing", "redeeming", "issuing"}
        PROVE  f \in secrets /\ row[f] = "none" /\ age[f] < Grace
    BY <1>2, OAuthBrokerAssumption
  <1>3. ASSUME pc[f] \in {"saved", "storing", "redeeming", "issuing"}
        PROVE  f \in secrets'
    BY <1>0, <1>2, <1>3, OAuthBrokerAssumption DEF Swept, Orphan, Stale
  <1>4. ASSUME row'[f] \in {"code", "token"}
        PROVE  f \in secrets'
    BY <1>0, <1>1, <1>4 DEF Swept, Orphan
  <1> QED BY <1>3, <1>4

\* A delegated token without a row is no older than the requests that hold it can be
\* (Callback, Exchange: from the saved token to its row).
THEOREM SecretAgesInvariance == Spec => []SecretAges
  <1>1. Init => SecretAges
    BY OAuthBrokerAssumption DEF Init, SecretAges
  <1>2. TypeOK /\ SecretAges /\ [Next]_vars => SecretAges'
    <2> SUFFICES ASSUME TypeOK, SecretAges, [Next]_vars
                 PROVE  SecretAges'
      OBVIOUS
    <2> USE DEF TypeOK, SecretAges
    <2>1. ASSUME NEW f \in SignIn, Begin(f) \/ Callback(f)
          PROVE  SecretAges'
      BY <2>1, OAuthBrokerAssumption DEF Begin, Callback, Go
    <2>2. ASSUME NEW f \in SignIn, Exchange(f)
          PROVE  SecretAges'
      BY <2>2, OAuthBrokerAssumption DEF Exchange, Go
    <2>3. ASSUME NEW f \in SignIn, ReadProvider(f) \/ Redeem(f) \/ ResolveAccount(f) \/ Crash(f)
          PROVE  SecretAges'
      BY <2>3, OAuthBrokerAssumption
         DEF ReadProvider, Redeem, ResolveAccount, Crash, Abandon, Go, Holding
    <2>4. ASSUME NEW f \in SignIn, Recheck(f)
          PROVE  SecretAges'
      <3>1. CASE pc[f] = "saved" /\ AfterRecheck[pc[f]] = "storing"
        BY <2>4, <3>1, OAuthBrokerAssumption DEF Recheck, Abandon, Go, Holding
      <3>2. ASSUME pc[f] \in {"verifying", "resolved", "evaluating"},
                   NEW step \in {"idle", "resolving", "evaluating", "granted"}, Go(f, step)
            PROVE  SecretAges'
        <4>1. UNCHANGED <<row, left, rev, secrets, age>>
          BY <2>4 DEF Recheck
        <4>2. \A g \in SignIn : g # f => pc'[g] = pc[g] /\ elapsed'[g] = elapsed[g]
          BY <3>2 DEF Go
        <4>3. pc'[f] = step /\ row[f] = "none"
          BY <3>2 DEF Go
        <4> QED BY <4>1, <4>2, <4>3
      <3> QED BY <2>4, <3>1, <3>2 DEF Recheck, AfterRecheck, Abandon, Holding
    <2>5. ASSUME NEW f \in SignIn, SaveToken(f)
          PROVE  SecretAges'
      BY <2>5, OAuthBrokerAssumption DEF SaveToken, Go
    <2>6. ASSUME NEW f \in SignIn, StoreCode(f)
          PROVE  SecretAges'
      BY <2>6, OAuthBrokerAssumption DEF StoreCode, Abandon, Go, Holding
    <2>7. ASSUME NEW f \in SignIn, IssueToken(f)
          PROVE  SecretAges'
      BY <2>7, OAuthBrokerAssumption DEF IssueToken, Abandon, Go, Holding
    <2>8. ASSUME NEW f \in SignIn, Cleanup(f)
          PROVE  SecretAges'
      BY <2>8, OAuthBrokerAssumption DEF Cleanup, Go
    <2>9. ASSUME Administer
          PROVE  SecretAges'
      <3>1. CASE UNCHANGED signInVars
        BY <3>1 DEF signInVars
      <3>2. CASE Disconnect
        BY <3>2, OAuthBrokerAssumption DEF Disconnect
      <3> QED BY <2>9, <3>1, <3>2 DEF Administer, Configure, Activate, Disable, ChangeAccount, Save
    <2>10. CASE Sweep
      <3>1. \A f \in SignIn : /\ row'[f] \in {row[f], "none"}
                              /\ row'[f] = row[f] => left'[f] = left[f] \/ row[f] = "none"
        BY <2>10 DEF Sweep, Stale
      <3>2. UNCHANGED <<pc, age, elapsed>>
        BY <2>10 DEF Sweep
      <3>3. \A f \in SignIn :
               /\ pc[f] \in {"saved", "storing", "redeeming", "issuing"} => f \in secrets'
               /\ row'[f] \in {"code", "token"} => f \in secrets'
        BY <2>10, SweepSparesYoung
      <3> QED BY <3>1, <3>2, <3>3
    <2>11. CASE Tick
      <3>1. \A f \in SignIn : /\ left'[f] = IF left[f] = 0 THEN 0 ELSE left[f] - 1
                              /\ pc[f] # "idle" => elapsed'[f] = elapsed[f] + 1
                              /\ age'[f] <= age[f] + 1
        BY <2>11, OAuthBrokerAssumption DEF Tick, Earlier
      <3>2. UNCHANGED <<pc, row, secrets>>
        BY <2>11 DEF Tick
      <3>3. age' \in [SignIn -> 0..Grace]
        BY <2>11, OAuthBrokerAssumption DEF Tick
      <3> QED BY <3>1, <3>2, <3>3, OAuthBrokerAssumption
    <2>12. CASE UNCHANGED vars
      BY <2>12 DEF vars, signInVars
    <2> QED BY <2>1, <2>2, <2>3, <2>4, <2>5, <2>6, <2>7, <2>8, <2>9, <2>10, <2>11, <2>12
            DEF Next, RequestStep
  <1> QED BY <1>1, <1>2, TypeInvariance, PTL DEF Spec

\* No sweep takes a delegated token away from a request that hands it on, and every
\* code and token has its secret, for all lifetimes whose grace period covers them
\* (identitySecretOrphanGrace).
THEOREM GraceCoversRequests == Spec => []SecretsOutliveRequests
  <1>1. SecretAges => SecretsOutliveRequests
    BY DEF SecretAges, SecretsOutliveRequests, Holding
  <1> QED BY <1>1, SecretAgesInvariance, PTL

\* Disconnecting the provider ends every sign-in that has no request running
\* (DeleteIdentityProvider).
THEOREM DisconnectIsFinal == Spec => []DisconnectEndsSignIns
  <1>1. Init => DisconnectEndsSignIns
    BY DEF Init, DisconnectEndsSignIns
  <1>2. TypeOK /\ DisconnectEndsSignIns /\ [Next]_vars => DisconnectEndsSignIns'
    <2> SUFFICES ASSUME TypeOK, DisconnectEndsSignIns, [Next]_vars
                 PROVE  DisconnectEndsSignIns'
      OBVIOUS
    <2> USE DEF TypeOK, DisconnectEndsSignIns
    <2>1. ASSUME NEW f \in SignIn, Begin(f)
          PROVE  DisconnectEndsSignIns'
      BY <2>1 DEF Begin
    <2>2. ASSUME NEW f \in SignIn, Callback(f) \/ Exchange(f) \/ RequestStep(f) \/ Crash(f)
          PROVE  DisconnectEndsSignIns'
      <3>1. UNCHANGED <<provider, life, crossed>> /\ (row[f] # "none" \/ pc[f] # "idle")
        BY <2>2 DEF Callback, Exchange, Crash, RequestStep, ReadProvider, Recheck, ResolveAccount,
                    SaveToken, StoreCode, Redeem, IssueToken, Cleanup, AfterRecheck
      <3>2. \A g \in SignIn : g # f => row'[g] = row[g] /\ pc'[g] = pc[g]
        BY <2>2 DEF Callback, Exchange, Crash, RequestStep, ReadProvider, Recheck, ResolveAccount,
                    SaveToken, StoreCode, Redeem, IssueToken, Cleanup, Abandon, Go
      <3> QED BY <3>1, <3>2
    <2>3. ASSUME Administer
          PROVE  DisconnectEndsSignIns'
      <3>1. CASE Disconnect
        BY <3>1 DEF Disconnect
      <3>2. ASSUME NEW i \in Issuer, Configure(i)
            PROVE  DisconnectEndsSignIns'
        BY <3>2 DEF Configure, Save, signInVars
      <3>3. CASE Activate \/ Disable \/ ChangeAccount
        BY <3>3 DEF Activate, Disable, ChangeAccount, Save, signInVars
      <3> QED BY <2>3, <3>1, <3>2, <3>3 DEF Administer
    <2>4. CASE Sweep
      BY <2>4 DEF Sweep
    <2>5. CASE Tick
      BY <2>5 DEF Tick
    <2>6. CASE UNCHANGED vars
      BY <2>6 DEF vars, signInVars
    <2> QED BY <2>1, <2>2, <2>3, <2>4, <2>5, <2>6 DEF Next
  <1> QED BY <1>1, <1>2, TypeInvariance, PTL DEF Spec

\* A step that leaves the provider, the account and a sign-in's own row, lifetime and
\* secret alone leaves its token usable.
LEMMA UsableStays ==
  ASSUME NEW f \in SignIn, Usable(f), UNCHANGED <<provider, account>>,
         row'[f] = row[f], left'[f] = left[f], rev'[f] = rev[f], issuer'[f] = issuer[f],
         f \in secrets'
  PROVE  Usable(f)'
  BY DEF Usable, Current

\* Nothing takes a usable token away but its expiry and the provider's or the account's
\* change of state (DeleteStaleOAuthArtifacts, the requests of other sign-ins).
THEOREM TokensPersist == Spec => UsableTokensPersist
  <1>1. ASSUME TypeOK, SecretAges, [Next]_vars, NEW f \in SignIn, Usable(f)
        PROVE  \/ Usable(f)'
               \/ left'[f] = 0 /\ row'[f] = "token" /\ f \in secrets'
               \/ (provider' # provider \/ account' # account) /\ UNCHANGED <<row[f], f \in secrets>>
    <2> USE DEF TypeOK
    <2>0. /\ row[f] = "token" /\ left[f] > 0 /\ Current(f) /\ f \in secrets
          /\ pc[f] = "idle" /\ rev[f] \in Nat /\ left[f] \in Nat
      BY <1>1, OAuthBrokerAssumption DEF Usable, SecretAges
    <2>1. ASSUME NEW g \in SignIn, Begin(g) \/ Callback(g) \/ Exchange(g) \/ RequestStep(g) \/ Crash(g)
          PROVE  Usable(f)'
      <3>1. /\ UNCHANGED <<provider, account>>
            /\ g # f
        BY <2>0, <2>1 DEF Begin, Callback, Exchange, RequestStep, Crash, ReadProvider, Recheck,
                          ResolveAccount, SaveToken, StoreCode, Redeem, IssueToken, Cleanup,
                          AfterRecheck
      <3>2. /\ row'[f] = row[f] /\ left'[f] = left[f] /\ rev'[f] = rev[f] /\ issuer'[f] = issuer[f]
            /\ f \in secrets'
        BY <1>1, <2>0, <2>1, <3>1 DEF Begin, Callback, Exchange, RequestStep, Crash, ReadProvider, Recheck,
                                ResolveAccount, SaveToken, StoreCode, Redeem, IssueToken, Cleanup,
                                Abandon, Go
      <3> QED BY <1>1, <3>1, <3>2, UsableStays
    <2>2. ASSUME UNCHANGED <<row, secrets>>, provider' # provider \/ account' # account
          PROVE  (provider' # provider \/ account' # account) /\ UNCHANGED <<row[f], f \in secrets>>
      BY <2>2
    <2>3. ASSUME Administer
          PROVE  provider' # provider \/ account' # account
      <3>1. ASSUME NEW state, NEW i, Save(state, i)
            PROVE  provider' # provider
        <4>1. provider.revision \in Nat
          BY <1>1, OAuthBrokerAssumption
        <4>2. provider'.revision = provider.revision + 1
          BY <1>1, <3>1 DEF Save
        <4> QED BY <4>1, <4>2
      <3>2. ASSUME NEW i \in Issuer, Configure(i)
            PROVE  provider' # provider
        BY <2>0, <3>1, <3>2 DEF Configure, Current
      <3>3. CASE Disconnect
        BY <2>0, <3>3 DEF Disconnect, Current
      <3>4. CASE ChangeAccount
        BY <3>4 DEF ChangeAccount
      <3> QED BY <2>3, <3>1, <3>2, <3>3, <3>4 DEF Administer, Activate, Disable
    <2>4. ASSUME Administer
          PROVE  UNCHANGED <<row, secrets>>
      \* An active provider cannot be disconnected.
      BY <2>0, <2>4 DEF Administer, Configure, Activate, Disable, Disconnect, ChangeAccount, Save,
                        Current, signInVars
    <2>5. CASE Sweep
      <3>1. ~Stale(f) /\ ~Swept(f)
        BY <2>0 DEF Stale, Swept, Orphan
      <3>2. /\ row'[f] = row[f] /\ left'[f] = left[f] /\ f \in secrets'
            /\ UNCHANGED <<provider, account, rev, issuer>>
        BY <2>0, <2>5, <3>1 DEF Sweep
      <3> QED BY <1>1, <3>2, UsableStays
    <2>6. CASE Tick
      <3>1. UNCHANGED <<provider, account, row, rev, issuer, secrets>> /\ left'[f] \in Nat
        BY <2>0, <2>6 DEF Tick, Earlier
      <3> QED BY <1>1, <2>0, <3>1 DEF Usable, Current
    <2>7. CASE UNCHANGED vars
      BY <1>1, <2>7 DEF vars, signInVars, Usable, Current
    <2> QED BY <1>1, <2>1, <2>2, <2>3, <2>4, <2>5, <2>6, <2>7 DEF Next
  <1>2. TypeOK /\ SecretAges /\ [Next]_vars =>
          [\A f \in SignIn : Usable(f) =>
             \/ Usable(f)'
             \/ left'[f] = 0 /\ row'[f] = "token" /\ f \in secrets'
             \/ (provider' # provider \/ account' # account)
                /\ UNCHANGED <<row[f], f \in secrets>>]_vars
    BY <1>1
  <1> QED BY <1>2, TypeInvariance, SecretAgesInvariance, PTL DEF Spec, UsableTokensPersist

-----------------------------------------------------------------------------
(* The settings of the provider. *)

\* Revisions count from the first configuration of a connection, and no content is of
\* a connection that is yet to come.
ProviderIsSound ==
    /\ idp.revision = 0 <=> idp.state = "none"
    /\ idp.content.life <= connections

\* What a request has read: its step was taken for the state that it read; a request
\* that saw a test pass read a verified content or one of a connection that is gone;
\* and of the present connection it has an older revision or the present content.
ReadsAreSound ==
    \A a \in Admin :
        LET read == admin[a].read IN
        /\ read.revision = 0 <=> read.state = "none"
        /\ read.content.life <= connections
        /\ admin[a].pc \in {"activating", "tested"} => read.state = "disabled"
        /\ admin[a].pc = "disabling" => read.state = "active"
        /\ admin[a].pc = "tested" => read.content \in verified \/ read.content.life < connections
        /\ read.state # "none" /\ idp.state # "none" /\ read.content.life = connections =>
              /\ read.revision <= idp.revision
              /\ read.revision = idp.revision => read.content = idp.content

\* A test that has not ended is of a revision of the present connection; what it
\* verifies is the content of that revision, also for the requests that read it.
TestsAreSound ==
    \A x \in Test :
        /\ test[x].status \notin {"none", "ended"} =>
              idp.state # "none" /\ test[x].revision <= idp.revision
        /\ test[x].status = "passed" => test[x].content \in verified
        /\ test[x].status \in {"verifying", "passed"} =>
              /\ test[x].revision = idp.revision => test[x].content = idp.content
              /\ \A a \in Admin :
                    /\ admin[a].read.state # "none" /\ admin[a].read.content.life = connections
                    /\ admin[a].read.revision = test[x].revision
                    => admin[a].read.content = test[x].content

SettingsInvariant ==
    SettingsTypeOK /\ ProviderIsSound /\ ReadsAreSound /\ TestsAreSound /\ ActiveWasTested

LEMMA SettingsRecords ==
    /\ NoConfiguration \in Configuration /\ NoProvider \in Provider
    /\ NoRequest \in Request /\ NoTest \in ConnectionTest /\ Ended \in ConnectionTest
    /\ NoProvider.state = "none" /\ NoProvider.revision = 0 /\ NoProvider.content.life = 0
    /\ NoRequest.pc = "idle" /\ NoRequest.read = NoProvider
    /\ NoTest.status = "none" /\ Ended.status = "ended"
    /\ \A p \in Provider : /\ p.revision \in Nat /\ p.content \in Configuration
                           /\ p.content.life \in Nat
    /\ \A x \in ConnectionTest : x.revision \in Nat
  BY ProviderSettingsAssumption
     DEF NoConfiguration, Configuration, Revision, NoProvider, Provider, NoRequest, Request,
         NoTest, Ended, ConnectionTest

LEMMA SettingsTypes ==
    ASSUME SettingsTypeOK
    PROVE  /\ idp \in Provider /\ connections \in Nat
           /\ \A a \in Admin : admin[a] \in Request /\ admin[a].read \in Provider
           /\ \A x \in Test : test[x] \in ConnectionTest
  BY ProviderSettingsAssumption DEF SettingsTypeOK, Request

\* What a request may remember.
Remembers(q) ==
    /\ q.pc \in {"activating", "tested"} => q.read.state = "disabled"
    /\ q.pc = "disabling" => q.read.state = "active"
    /\ q.pc = "tested" => q.read.content \in verified \/ q.read.content.life < connections

\* A request goes on with what it has read or with what it reads now, or ends.
LEMMA RequestGoesOn ==
    ASSUME SettingsInvariant, NEW a \in Admin, NEW q \in Request,
           q.read \in {admin[a].read, idp, NoProvider}, Remembers(q),
           admin' = [admin EXCEPT ![a] = q],
           credentials' \subseteq Credential,
           credentialAge' \in [Credential -> 0..CredentialGrace],
           UNCHANGED <<idp, test, connections, verified>>
    PROVE  SettingsInvariant'
  <1> USE DEF SettingsInvariant
  <1>1. /\ admin'[a] = q
        /\ \A b \in Admin : b # a => admin'[b] = admin[b]
    BY DEF SettingsTypeOK
  <1>2. SettingsTypeOK'
    BY DEF SettingsTypeOK
  <1>3. ProviderIsSound' /\ ActiveWasTested'
    BY DEF ProviderIsSound, ActiveWasTested
  <1>4. /\ idp.content.life <= connections /\ (idp.revision = 0 <=> idp.state = "none")
        /\ NoProvider.state = "none" /\ NoProvider.revision = 0 /\ NoProvider.content.life = 0
        /\ connections \in Nat /\ idp.revision \in Nat
    BY SettingsRecords, SettingsTypes DEF ProviderIsSound
  <1>5. ReadsAreSound'
    <2> SUFFICES ASSUME NEW b \in Admin
                 PROVE  LET read == admin'[b].read IN
                        /\ read.revision = 0 <=> read.state = "none"
                        /\ read.content.life <= connections
                        /\ admin'[b].pc \in {"activating", "tested"} => read.state = "disabled"
                        /\ admin'[b].pc = "disabling" => read.state = "active"
                        /\ admin'[b].pc = "tested" =>
                              read.content \in verified \/ read.content.life < connections
                        /\ read.state # "none" /\ idp.state # "none" /\ read.content.life = connections =>
                              /\ read.revision <= idp.revision
                              /\ read.revision = idp.revision => read.content = idp.content
      BY DEF ReadsAreSound
    <2>1. CASE b # a
      BY <1>1, <2>1 DEF ReadsAreSound
    <2>2. CASE b = a
      BY <1>1, <1>4, <2>2 DEF ReadsAreSound, Remembers
    <2> QED BY <2>1, <2>2
  <1>6. TestsAreSound'
    <2> SUFFICES ASSUME NEW x \in Test, test[x].status \in {"verifying", "passed"},
                        NEW b \in Admin,
                        admin'[b].read.state # "none",
                        admin'[b].read.content.life = connections,
                        admin'[b].read.revision = test[x].revision
                 PROVE  admin'[b].read.content = test[x].content
      BY DEF TestsAreSound
    <2>1. CASE admin'[b].read = admin[b].read
      BY <2>1 DEF TestsAreSound
    <2>2. CASE admin'[b].read = idp
      BY <2>2 DEF TestsAreSound
    <2> QED BY <1>1, <1>4, <2>1, <2>2
  <1> QED BY <1>2, <1>3, <1>5, <1>6

\* A request saves the provider and ends, or goes on to remove a credential.
LEMMA SaveStep ==
    ASSUME SettingsInvariant, NEW a \in Admin, NEW q \in Request,
           NEW state \in {"disabled", "active"}, NEW content \in Configuration, NEW c,
           Saves(a, state, content, c),
           content.life <= connections',
           state = "active" => content \in verified \/ content.life < connections,
           q.read \in {admin[a].read, NoProvider}, q.pc \in {"idle", "cleanup", "retire"},
           admin' = [admin EXCEPT ![a] = q],
           UNCHANGED <<credentials, credentialAge, test, verified>>
    PROVE  SettingsInvariant'
  <1> USE DEF SettingsInvariant
  <1> DEFINE read == admin[a].read
  <1>1. /\ admin'[a] = q
        /\ \A b \in Admin : b # a => admin'[b] = admin[b]
    BY DEF SettingsTypeOK
  <1>2. /\ idp.revision = read.revision /\ c \in credentials
        /\ idp' = [state |-> state, revision |-> read.revision + 1, content |-> content,
                   credential |-> c]
        /\ connections' = IF read.state = "none" THEN connections + 1 ELSE connections
        /\ read.state = "none" => connections < MaxConnections
        /\ idp.revision < MaxProvider
    BY DEF Saves, Referable
  <1>3. /\ idp'.state = state /\ idp'.revision = idp.revision + 1 /\ idp'.content = content
        /\ idp'.state # "none"
    BY <1>2
  <1>4. /\ connections \in Nat /\ connections' \in Nat /\ idp.revision \in Nat
        /\ content.life \in Nat
        /\ \A b \in Admin : admin[b].read.content.life \in Nat /\ admin[b].read.revision \in Nat
        /\ \A x \in Test : test[x].revision \in Nat
    <2>1. connections' \in Nat /\ content.life \in Nat
      BY <1>2, SettingsTypes, ProviderSettingsAssumption DEF Configuration
    <2> QED BY <2>1, SettingsRecords, SettingsTypes
  <1>5. SettingsTypeOK'
    <2>1. idp' \in Provider
      <3>1. read.revision + 1 \in Revision /\ c \in Credential
        BY <1>2, <1>4, ProviderSettingsAssumption DEF SettingsTypeOK, Revision
      <3> QED BY <1>2, <3>1 DEF Provider
    <2>2. connections' \in 0..MaxConnections
      BY <1>2, <1>4, ProviderSettingsAssumption DEF SettingsTypeOK
    <2> QED BY <2>1, <2>2 DEF SettingsTypeOK
  <1>6. ProviderIsSound'
    BY <1>3, <1>4 DEF ProviderIsSound
  <1>7. ActiveWasTested'
    BY <1>2, <1>3, <1>4 DEF ActiveWasTested
  \* What is remembered of the provider is older than the new row, or of another life.
  <1>8. /\ \A b \in Admin : /\ admin[b].read.content.life <= connections
                            /\ admin[b].read.revision = 0 <=> admin[b].read.state = "none"
        /\ NoProvider.state = "none" /\ NoProvider.revision = 0 /\ NoProvider.content.life = 0
        /\ idp.revision = 0 <=> idp.state = "none"
        /\ read.revision = 0 <=> read.state = "none"
    BY SettingsRecords DEF ReadsAreSound, ProviderIsSound
  <1> HIDE DEF read
  <1>9. ASSUME NEW b \in Admin, admin[b].read.state # "none",
               admin[b].read.content.life = connections'
        PROVE  admin[b].read.revision < idp'.revision /\ connections' = connections
    <2>1. connections' = connections /\ read.state # "none"
      BY <1>2, <1>4, <1>8, <1>9
    <2>2. admin[b].read.revision <= idp.revision
      BY <1>2, <1>8, <1>9, <2>1 DEF ReadsAreSound
    <2> QED BY <1>3, <1>4, <2>1, <2>2
  <1>10. ASSUME NEW x \in Test, test[x].status \notin {"none", "ended"}
         PROVE  test[x].revision < idp'.revision /\ connections' = connections
    <2>1. idp.state # "none" /\ test[x].revision <= idp.revision
      BY <1>10 DEF TestsAreSound
    <2> QED BY <1>2, <1>3, <1>4, <1>8, <2>1
  <1>11. ReadsAreSound'
    <2> SUFFICES ASSUME NEW b \in Admin
                 PROVE  LET r == admin'[b].read IN
                        /\ r.revision = 0 <=> r.state = "none"
                        /\ r.content.life <= connections'
                        /\ admin'[b].pc \in {"activating", "tested"} => r.state = "disabled"
                        /\ admin'[b].pc = "disabling" => r.state = "active"
                        /\ admin'[b].pc = "tested" =>
                              r.content \in verified \/ r.content.life < connections'
                        /\ r.state # "none" /\ r.content.life = connections' =>
                              r.revision < idp'.revision
      BY <1>3, <1>4, <1>8 DEF ReadsAreSound
    <2>1. connections <= connections'
      BY <1>2, <1>4
    <2>2. CASE b # a
      BY <1>1, <1>4, <1>8, <1>9, <2>1, <2>2 DEF ReadsAreSound
    <2>3. CASE b = a
      BY <1>1, <1>4, <1>8, <1>9, <2>1, <2>3
    <2> QED BY <2>2, <2>3
  <1>12. TestsAreSound'
    <2> SUFFICES ASSUME NEW x \in Test, test[x].status \notin {"none", "ended"}
                 PROVE  /\ idp'.state # "none" /\ test[x].revision < idp'.revision
                        /\ test[x].status = "passed" => test[x].content \in verified
                        /\ test[x].status \in {"verifying", "passed"} =>
                              \A b \in Admin :
                                 /\ admin'[b].read.state # "none"
                                 /\ admin'[b].read.content.life = connections'
                                 /\ admin'[b].read.revision = test[x].revision
                                 => admin'[b].read.content = test[x].content
      BY <1>3, <1>4, <1>10 DEF TestsAreSound
    <2>1. \A b \in Admin : admin'[b].read.state # "none" => admin'[b].read = admin[b].read
      BY <1>1, <1>8
    <2> QED BY <1>3, <1>10, <2>1 DEF TestsAreSound
  <1> QED BY <1>5, <1>6, <1>7, <1>11, <1>12

\* A test goes on, passes or ends.
LEMMA TestStep ==
    ASSUME SettingsInvariant, NEW x \in Test, NEW t \in ConnectionTest,
           test' = [test EXCEPT ![x] = t],
           UNCHANGED <<idp, credentials, credentialAge, admin, connections>>,
           \/ t.status = "ended"
           \/ /\ t.status \in {"pending", "claimed"} /\ idp.state # "none"
              /\ t.revision <= idp.revision
           \/ /\ t.status = "verifying" /\ idp.state # "none"
              /\ t.revision = idp.revision /\ t.content = idp.content
           \/ /\ t.status = "passed" /\ test[x].status = "verifying"
              /\ t.revision = test[x].revision /\ t.content = test[x].content,
           verified' = verified \/ verified' = verified \cup {t.content},
           t.status = "passed" => t.content \in verified'
    PROVE  SettingsInvariant'
  <1> USE DEF SettingsInvariant
  <1>1. /\ test'[x] = t
        /\ \A y \in Test : y # x => test'[y] = test[y]
    BY DEF SettingsTypeOK
  <1>2. idp.revision \in Nat /\ t.revision \in Nat /\ t.content \in Configuration
    BY SettingsRecords, SettingsTypes DEF ConnectionTest
  <1>3. SettingsTypeOK'
    BY <1>2 DEF SettingsTypeOK
  <1>4. ProviderIsSound' /\ ActiveWasTested'
    BY DEF ProviderIsSound, ActiveWasTested
  <1>5. ReadsAreSound'
    BY DEF ReadsAreSound
  <1>6. TestsAreSound'
    <2> SUFFICES ASSUME NEW y \in Test
                 PROVE  /\ test'[y].status \notin {"none", "ended"} =>
                              idp.state # "none" /\ test'[y].revision <= idp.revision
                        /\ test'[y].status = "passed" => test'[y].content \in verified'
                        /\ test'[y].status \in {"verifying", "passed"} =>
                              /\ test'[y].revision = idp.revision => test'[y].content = idp.content
                              /\ \A a \in Admin :
                                    /\ admin[a].read.state # "none"
                                    /\ admin[a].read.content.life = connections
                                    /\ admin[a].read.revision = test'[y].revision
                                    => admin[a].read.content = test'[y].content
      BY DEF TestsAreSound
    <2>1. CASE y # x
      BY <1>1, <2>1 DEF TestsAreSound
    <2>2. CASE y = x /\ t.status = "verifying"
      BY <1>1, <1>2, <2>2 DEF ReadsAreSound
    <2>3. CASE y = x /\ t.status # "verifying"
      BY <1>1, <2>3 DEF TestsAreSound
    <2> QED BY <2>1, <2>2, <2>3
  <1> QED BY <1>3, <1>4, <1>5, <1>6

\* Every step preserves the invariant.
LEMMA SettingsStep ==
    ASSUME SettingsInvariant, [SettingsNext]_settingsVars
    PROVE  SettingsInvariant'
  <1> USE DEF SettingsInvariant
  <1>a. /\ idp \in Provider /\ connections \in Nat
        /\ \A a \in Admin : /\ admin[a] \in Request /\ admin[a].read \in Provider
                            /\ admin[a].new \in Credential \cup {NoCredential}
        /\ \A x \in Test : test[x] \in ConnectionTest
        /\ credentials \subseteq Credential
        /\ credentialAge \in [Credential -> 0..CredentialGrace]
        /\ idp.revision \in Nat /\ idp.content \in Configuration
    BY SettingsTypes, SettingsRecords DEF SettingsTypeOK, Request
  <1>b. \A a \in Admin : Leave(a) =>
           /\ admin' = [admin EXCEPT ![a] = NoRequest] /\ NoRequest \in Request
           /\ NoRequest.read = NoProvider /\ Remembers(NoRequest)
    BY SettingsRecords DEF Leave, Remembers
  <1>0. CASE UNCHANGED settingsVars
    BY <1>0 DEF settingsVars, SettingsTypeOK, ProviderIsSound, ReadsAreSound, TestsAreSound,
                ActiveWasTested
  <1>1. ASSUME NEW a \in Admin, ReadSettings(a)
        PROVE  SettingsInvariant'
    <2>1. PICK step \in {"entered", "activating", "disabling"} :
             /\ step = "activating" => idp.state = "disabled"
             /\ step = "disabling" => idp.state = "active"
             /\ admin' = [admin EXCEPT ![a] = [pc |-> step, read |-> idp, new |-> NoCredential]]
      BY <1>1 DEF ReadSettings
    <2> DEFINE q == [pc |-> step, read |-> idp, new |-> NoCredential]
    <2>2. q \in Request /\ q.read = idp /\ Remembers(q)
      BY <1>a, <2>1 DEF Request, Remembers
    <2> HIDE DEF q
    <2>3. admin' = [admin EXCEPT ![a] = q]
      BY <2>1 DEF q
    <2> QED BY <1>1, <1>a, <2>2, <2>3, RequestGoesOn DEF ReadSettings
  <1>2. ASSUME NEW a \in Admin, CreateCredential(a)
        PROVE  SettingsInvariant'
    <2>1. PICK c \in Credential \cup {NoCredential} :
             admin' = [admin EXCEPT ![a] = [pc |-> "created", read |-> admin[a].read, new |-> c]]
      <3>1. CASE \E c \in Fresh :
                    admin' = [admin EXCEPT ![a] = [pc |-> "created", read |-> @.read, new |-> c]]
        BY <3>1 DEF Fresh
      <3>2. CASE Proceed(a, "created")
        <4>1. [admin[a] EXCEPT !.pc = "created"]
                 = [pc |-> "created", read |-> admin[a].read, new |-> admin[a].new]
          BY <1>a DEF Request
        <4> QED BY <1>a, <3>2, <4>1 DEF Proceed
      <3> QED BY <1>2, <3>1, <3>2 DEF CreateCredential
    <2> DEFINE q == [pc |-> "created", read |-> admin[a].read, new |-> c]
    <2>2. q \in Request /\ q.read = admin[a].read /\ Remembers(q)
      BY <1>a DEF Request, Remembers
    <2>3. credentials' \subseteq Credential /\ credentialAge' \in [Credential -> 0..CredentialGrace]
      BY <1>2, <1>a, ProviderSettingsAssumption DEF CreateCredential, Fresh
    <2> HIDE DEF q
    <2>4. admin' = [admin EXCEPT ![a] = q]
      BY <2>1 DEF q
    <2> QED BY <1>2, <2>2, <2>3, <2>4, RequestGoesOn DEF CreateCredential
  <1>3. ASSUME NEW a \in Admin, CheckTest(a)
        PROVE  SettingsInvariant'
    <2> DEFINE q == [pc |-> "tested", read |-> admin[a].read, new |-> admin[a].new]
    <2>1. admin' = [admin EXCEPT ![a] = q]
      <3>1. [admin[a] EXCEPT !.pc = "tested"] = q
        BY <1>a DEF Request
      <3> QED BY <1>3, <3>1 DEF CheckTest, Proceed
    <2>2. q \in Request /\ q.read = admin[a].read /\ q.pc = "tested"
      BY <1>a DEF Request
    <2>3. admin[a].read.content \in verified \/ admin[a].read.content.life < connections
      <3>1. PICK x \in Test : test[x].status = "passed" /\ test[x].revision = admin[a].read.revision
        BY <1>3 DEF CheckTest
      <3>2. admin[a].read.state = "disabled" /\ admin[a].read.content.life <= connections
        BY <1>3 DEF CheckTest, ReadsAreSound
      <3>3. admin[a].read.content.life \in Nat
        BY <1>a, SettingsRecords
      <3> QED BY <1>a, <3>1, <3>2, <3>3 DEF TestsAreSound
    <2>4. admin[a].read.state = "disabled"
      BY <1>3 DEF CheckTest, ReadsAreSound
    <2>5. Remembers(q)
      BY <2>2, <2>3, <2>4 DEF Remembers
    <2> HIDE DEF q
    <2> QED BY <1>3, <1>a, <2>1, <2>2, <2>5, RequestGoesOn DEF CheckTest
  \* A request that has nothing left to save, or loses its answer.
  <1>4. ASSUME NEW a \in Admin, Leave(a) \/ Proceed(a, "cleanup") \/ Proceed(a, "retire"),
               credentials' \subseteq credentials,
               UNCHANGED <<idp, credentialAge, test, connections, verified>>
        PROVE  SettingsInvariant'
    <2>1. PICK q \in Request : /\ admin' = [admin EXCEPT ![a] = q]
                               /\ q.read \in {admin[a].read, NoProvider}
                               /\ Remembers(q)
      <3>1. CASE Leave(a)
        BY <1>b, <3>1
      <3>2. ASSUME NEW step \in {"cleanup", "retire"}, Proceed(a, step)
            PROVE  \E q \in Request : /\ admin' = [admin EXCEPT ![a] = q]
                                      /\ q.read = admin[a].read
                                      /\ Remembers(q)
        <4> DEFINE q == [admin[a] EXCEPT !.pc = step]
        <4>1. q \in Request /\ q.read = admin[a].read /\ Remembers(q)
          BY <1>a DEF Request, Remembers
        <4>2. admin' = [admin EXCEPT ![a] = q]
          BY <3>2 DEF Proceed
        <4> HIDE DEF q
        <4> QED BY <4>1, <4>2
      <3> QED BY <1>4, <3>1, <3>2
    <2> QED BY <1>4, <1>a, <2>1, RequestGoesOn
  <1>5. ASSUME NEW a \in Admin, SaveConfiguration(a)
        PROVE  SettingsInvariant'
    <2> DEFINE read == admin[a].read
               new == admin[a].new
               begun == IF read.state = "none" THEN connections + 1 ELSE connections
               content == [life |-> begun, revision |-> read.revision + 1]
               c == IF new = NoCredential THEN read.credential ELSE new
    <2>1. Leave(a) \/ Proceed(a, "cleanup") \/ Proceed(a, "retire")
      BY <1>5 DEF SaveConfiguration
    <2>2. UNCHANGED <<credentials, credentialAge, test, verified>>
      BY <1>5 DEF SaveConfiguration
    <2>3. CASE UNCHANGED <<idp, connections>>
      BY <1>4, <2>1, <2>2, <2>3
    <2>4. CASE Saves(a, "disabled", content, c)
      <3>1. /\ content \in Configuration /\ content.life = begun /\ begun = connections'
            /\ connections' \in Nat
        <4>1. /\ idp.revision = read.revision /\ idp.revision < MaxProvider
              /\ read.state = "none" => connections < MaxConnections
              /\ connections' = begun
          BY <2>4 DEF Saves
        <4>2. begun \in 0..MaxConnections /\ read.revision + 1 \in 0..MaxProvider
          BY <1>a, <4>1, ProviderSettingsAssumption DEF SettingsTypeOK
        <4> HIDE DEF begun, read
        <4> QED BY <4>1, <4>2, ProviderSettingsAssumption DEF Configuration, Revision
      <3>2. PICK q \in Request : /\ admin' = [admin EXCEPT ![a] = q]
                                 /\ q.read \in {admin[a].read, NoProvider}
                                 /\ q.pc \in {"idle", "cleanup", "retire"}
        <4>1. CASE Leave(a)
          BY <1>b, <4>1, SettingsRecords
        <4>2. ASSUME NEW step \in {"cleanup", "retire"}, Proceed(a, step)
              PROVE  \E q \in Request : /\ admin' = [admin EXCEPT ![a] = q]
                                        /\ q.read = admin[a].read
                                        /\ q.pc = step
          <5> DEFINE q == [admin[a] EXCEPT !.pc = step]
          <5>1. q \in Request /\ q.read = admin[a].read /\ q.pc = step
            BY <1>a DEF Request
          <5>2. admin' = [admin EXCEPT ![a] = q]
            BY <4>2 DEF Proceed
          <5> HIDE DEF q
          <5> QED BY <5>1, <5>2
        <4> QED BY <2>1, <4>1, <4>2
      <3> HIDE DEF content, c, begun
      <3>3. content.life <= connections'
        BY <3>1
      <3> QED BY <2>2, <2>4, <3>1, <3>2, <3>3, SaveStep
    <2> QED BY <1>5, <2>3, <2>4 DEF SaveConfiguration
  <1>6. ASSUME NEW a \in Admin, SaveState(a)
        PROVE  SettingsInvariant'
    <2> DEFINE read == admin[a].read
               state == IF admin[a].pc = "tested" THEN "active" ELSE "disabled"
    <2>1. /\ Leave(a) /\ UNCHANGED <<credentials, credentialAge, test, verified>>
          /\ admin[a].pc \in {"tested", "disabling"}
      BY <1>6 DEF SaveState
    <2>2. CASE UNCHANGED <<idp, connections>>
      BY <1>4, <2>1, <2>2
    <2>3. CASE Saves(a, state, read.content, read.credential)
      <3>1. /\ state \in {"disabled", "active"}
            /\ state = "active" => read.content \in verified \/ read.content.life < connections
            /\ read.content.life <= connections /\ connections' = connections
            /\ read.content \in Configuration
        BY <1>a, <2>1, <2>3, SettingsRecords DEF ReadsAreSound, Saves
      <3>2. /\ admin' = [admin EXCEPT ![a] = NoRequest] /\ NoRequest \in Request
            /\ NoRequest.read = NoProvider /\ NoRequest.pc = "idle"
        BY <1>b, <2>1, SettingsRecords
      <3> HIDE DEF state
      <3> QED BY <2>1, <2>3, <3>1, <3>2, SaveStep
    <2> QED BY <1>6, <2>2, <2>3 DEF SaveState
  <1>7. ASSUME NEW a \in Admin, DropCredential(a) \/ LeaveSettings(a)
        PROVE  SettingsInvariant'
    BY <1>4, <1>7 DEF DropCredential, LeaveSettings
  <1>8. ASSUME NEW x \in Test, BeginTest(x) \/ ClaimTest(x) \/ ReadTested(x) \/ PassTest(x) \/ EndTest(x)
        PROVE  SettingsInvariant'
    <2>1. UNCHANGED <<idp, credentials, credentialAge, admin, connections>>
      BY <1>8 DEF BeginTest, ClaimTest, ReadTested, PassTest, EndTest
    <2>2. CASE BeginTest(x)
      <3> DEFINE t == [status |-> "pending", revision |-> idp.revision, content |-> NoConfiguration]
      <3>1. /\ t \in ConnectionTest /\ t.status = "pending" /\ t.revision = idp.revision
        BY <1>a, SettingsRecords DEF ConnectionTest, Provider
      <3>2. idp.state # "none" /\ test' = [test EXCEPT ![x] = t] /\ verified' = verified
        BY <2>2 DEF BeginTest
      <3> HIDE DEF t
      <3>3. t.revision <= idp.revision
        BY <1>a, <3>1
      <3> QED BY <2>1, <3>1, <3>2, <3>3, TestStep
    <2>3. CASE ClaimTest(x)
      <3> DEFINE t == [test[x] EXCEPT !.status = "claimed"]
      <3>1. t \in ConnectionTest /\ t.status = "claimed" /\ t.revision = test[x].revision
        BY <1>a DEF ConnectionTest
      <3>2. test[x].status = "pending" /\ test' = [test EXCEPT ![x] = t] /\ verified' = verified
        BY <2>3 DEF ClaimTest
      <3> HIDE DEF t
      <3>3. idp.state # "none" /\ test[x].revision <= idp.revision
        BY <3>2 DEF TestsAreSound
      <3> QED BY <2>1, <3>1, <3>2, <3>3, TestStep
    <2>4. ASSUME test' = [test EXCEPT ![x].status = "ended"], verified' = verified
          PROVE  SettingsInvariant'
      <3> DEFINE t == [test[x] EXCEPT !.status = "ended"]
      <3>1. t \in ConnectionTest /\ t.status = "ended"
        BY <1>a DEF ConnectionTest
      <3>2. test' = [test EXCEPT ![x] = t]
        BY <2>4
      <3> HIDE DEF t
      <3> QED BY <2>1, <2>4, <3>1, <3>2, TestStep
    <2>5. CASE ReadTested(x) /\ idp.state # "none" /\ idp.revision = test[x].revision
      <3> DEFINE t == [status |-> "verifying", revision |-> test[x].revision, content |-> idp.content]
      <3>1. /\ t \in ConnectionTest /\ t.status = "verifying" /\ t.revision = test[x].revision
            /\ t.content = idp.content
        BY <1>a DEF ConnectionTest
      <3>2. test' = [test EXCEPT ![x] = t] /\ verified' = verified
        BY <2>5 DEF ReadTested
      <3> HIDE DEF t
      <3> QED BY <2>1, <2>5, <3>1, <3>2, TestStep
    <2>6. CASE PassTest(x)
      <3> DEFINE t == [test[x] EXCEPT !.status = "passed"]
      <3>1. /\ t \in ConnectionTest /\ t.status = "passed" /\ t.revision = test[x].revision
            /\ t.content = test[x].content
        BY <1>a DEF ConnectionTest
      <3>2. /\ test[x].status = "verifying" /\ test' = [test EXCEPT ![x] = t]
            /\ verified' = verified \cup {t.content}
        BY <2>6, <3>1 DEF PassTest
      <3> HIDE DEF t
      <3> QED BY <2>1, <3>1, <3>2, TestStep
    <2> QED BY <1>8, <2>2, <2>3, <2>4, <2>5, <2>6 DEF ReadTested, EndTest
  <1>9. CASE DisconnectProvider
    <2>1. /\ idp' = NoProvider /\ UNCHANGED <<credentialAge, admin, connections, verified>>
          /\ credentials' \subseteq credentials
          /\ test' = [x \in Test |-> IF test[x].status = "none" THEN NoTest ELSE Ended]
      BY <1>9 DEF DisconnectProvider
    <2>2. \A x \in Test : test'[x] \in ConnectionTest /\ test'[x].status \in {"none", "ended"}
      BY <2>1, SettingsRecords
    <2>3. idp' \in Provider /\ idp'.state = "none" /\ idp'.revision = 0 /\ idp'.content.life = 0
      BY <2>1, SettingsRecords
    <2>4. SettingsTypeOK'
      BY <2>1, <2>2, <2>3 DEF SettingsTypeOK
    <2>5. ProviderIsSound' /\ ReadsAreSound' /\ ActiveWasTested'
      BY <1>a, <2>1, <2>3 DEF ProviderIsSound, ReadsAreSound, ActiveWasTested
    <2>6. TestsAreSound'
      BY <2>2 DEF TestsAreSound
    <2> QED BY <2>4, <2>5, <2>6
  <1>10. CASE SweepCredentials \/ AgeCredentials
    <2>1. /\ UNCHANGED <<idp, admin, test, connections, verified>>
          /\ credentials' \subseteq credentials
          /\ credentialAge' \in [Credential -> 0..CredentialGrace]
      BY <1>10, <1>a, ProviderSettingsAssumption DEF SweepCredentials, AgeCredentials
    <2> QED BY <2>1 DEF SettingsTypeOK, ProviderIsSound, ReadsAreSound, TestsAreSound,
                        ActiveWasTested
  <1> QED BY <1>0, <1>1, <1>2, <1>3, <1>5, <1>6, <1>7, <1>8, <1>9, <1>10 DEF SettingsNext

LEMMA SettingsStart == SettingsInit => SettingsInvariant
  BY SettingsRecords, ProviderSettingsAssumption
     DEF SettingsInit, SettingsInvariant, SettingsTypeOK, ProviderIsSound, ReadsAreSound,
         TestsAreSound, ActiveWasTested

\* What ActivateIdentityProvider, ConfigureIdentity and connection tests remember of the
\* provider while they wait is, within one connection, what its revision says.
THEOREM SettingsInvariance == SettingsSpec => []SettingsInvariant
  BY SettingsStart, SettingsStep, PTL DEF SettingsSpec

\* ActivateIdentityProvider activates what a connection test verified, however
\* configurations, tests, activations and disconnections interleave; only what was read
\* before a disconnection escapes (the revision of the next provider may be the same).
THEOREM ActivationsAreTested == SettingsSpec => []ActiveWasTested
  BY SettingsInvariance, PTL DEF SettingsInvariant

-----------------------------------------------------------------------------
(* Both parts. *)

\* Beside the other, each part does what it does alone, so that every theorem above
\* holds of both.
THEOREM PartsAreKept == IdentitySpec => Spec /\ SettingsSpec
  <1>1. IdentityInit => Init /\ SettingsInit
    BY DEF IdentityInit
  <1>2. [IdentityNext]_identityVars => [Next]_vars /\ [SettingsNext]_settingsVars
    BY DEF IdentityNext, identityVars
  <1> QED BY <1>1, <1>2, PTL DEF IdentitySpec, Spec, SettingsSpec

\* Every variable of sign-ins and settings keeps its type when both are at work.
THEOREM IdentityTypeInvariance == IdentitySpec => []IdentityTypeOK
  <1>1. TypeOK /\ SettingsTypeOK => IdentityTypeOK
    BY DEF IdentityTypeOK
  <1>2. SettingsInvariant => SettingsTypeOK
    BY DEF SettingsInvariant
  <1> QED BY <1>1, <1>2, PartsAreKept, TypeInvariance, SettingsInvariance, PTL
=============================================================================
