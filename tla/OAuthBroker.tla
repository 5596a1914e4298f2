----------------------------- MODULE OAuthBroker -----------------------------
(***************************************************************************)
(* The OAuth broker of internal/identity in front of one deployment: a     *)
(* sign-in goes from a state row (Begin) through the callback, which saves *)
(* the vendor's access token as an encrypted secret, to a code row, and    *)
(* through the token request to an access-token row that carries the       *)
(* secret on.  Meanwhile administrators configure, activate, disable and   *)
(* disconnect the provider, and sweeps delete what has become stale.       *)
(*                                                                         *)
(* A sign-in has at most one row at a time and, while a request is working *)
(* for it, none: ConsumeOAuthState and ConsumeOAuthCode delete the row     *)
(* they return, so a second callback or token request for it finds nothing *)
(* and changes nothing.  Requests stop after RequestLimit (their calls     *)
(* have timeouts), with or without their deferred cleanup.                 *)
(***************************************************************************)
EXTENDS Naturals

CONSTANTS SignIn, Issuer,
          StateTTL, CodeTTL, AccessTTL,  \* 10 min, 5 min, 1 hour at most
          Grace,         \* identitySecretOrphanGrace, 15 min
          RequestLimit,  \* the ticks a request may take
          MaxRevision, MaxLife  \* bounds of the model

\* The grace period covers the longest time a secret may be without a row: the
\* callback, and the token request of a code that was used at the last moment.
ASSUME OAuthBrokerAssumption ==
    /\ {StateTTL, CodeTTL, AccessTTL, RequestLimit} \subseteq Nat \ {0}
    /\ {MaxRevision, MaxLife} \subseteq Nat \ {0}
    /\ Grace \in Nat
    /\ Grace >= CodeTTL + 2 * RequestLimit

VARIABLES
    provider,  \* the row of identity_providers
    account,   \* the state of the customer account that signs in
    row,       \* the row of a sign-in: oauth_states, oauth_authorization_codes, oauth_access_tokens
    left,      \* ticks until that row expires
    access,    \* ticks until the access granted expires (AccessExpiresAt)
    rev,       \* the ProviderRevision the rows carry
    issuer,    \* the Issuer the rows carry
    pc,        \* where the request that works for the sign-in is
    elapsed,   \* ticks since that request began
    secrets,   \* the sign-ins whose delegated token is in the table secrets
    age,       \* ticks since it was created there, up to Grace
    life,      \* history: the incarnation of the provider the sign-in began with
    crossed    \* history: sign-ins with a request running when the provider was disconnected

signInVars == <<row, left, access, rev, issuer, pc, elapsed, secrets, age, life, crossed>>
vars == <<provider, account, signInVars>>

\* The steps of a request before it has a delegated token to look after, and after.
Unburdened == {"idle", "consumed", "verifying", "resolving", "resolved", "evaluating", "granted"}
Holding == {"saved", "storing", "redeeming", "issuing", "cleanup"}

TypeOK ==
    /\ provider \in [state : {"none", "disabled", "active"}, revision : 0..MaxRevision,
                     issuer : Issuer, life : 0..MaxLife]
    /\ account \in {"active", "suspended"}
    /\ row \in [SignIn -> {"none", "state", "code", "token"}]
    /\ left \in [SignIn -> Nat] /\ access \in [SignIn -> 0..AccessTTL]
    /\ rev \in [SignIn -> 0..MaxRevision] /\ issuer \in [SignIn -> Issuer]
    /\ pc \in [SignIn -> Unburdened \cup Holding]
    /\ elapsed \in [SignIn -> 0..RequestLimit]
    /\ secrets \subseteq SignIn /\ age \in [SignIn -> 0..Grace]
    /\ life \in [SignIn -> 0..MaxLife] /\ crossed \subseteq SignIn

Init ==
    /\ \E i \in Issuer :
          /\ provider = [state |-> "none", revision |-> 0, issuer |-> i, life |-> 0]
          /\ issuer = [f \in SignIn |-> i]
    /\ account = "active"
    /\ row = [f \in SignIn |-> "none"]
    /\ left = [f \in SignIn |-> 0] /\ access = [f \in SignIn |-> 0]
    /\ rev = [f \in SignIn |-> 0]
    /\ pc = [f \in SignIn |-> "idle"] /\ elapsed = [f \in SignIn |-> 0]
    /\ secrets = {} /\ age = [f \in SignIn |-> 0]
    /\ life = [f \in SignIn |-> 0] /\ crossed = {}

-----------------------------------------------------------------------------
(* Requests. *)

\* config.State = "active" at the revision of the sign-in (activeProviderRevision,
\* and the condition of the INSERTs).
Current(f) == provider.state = "active" /\ rev[f] = provider.revision

Go(f, step) ==
    /\ pc' = [pc EXCEPT ![f] = step]
    /\ elapsed' = [elapsed EXCEPT ![f] = IF step = "idle" THEN 0 ELSE @]

\* Return an error; the deferred call cleans up a delegated token nothing owns.
Abandon(f) == Go(f, IF pc[f] \in Holding THEN "cleanup" ELSE "idle")

\* Begin: CreateOAuthState inserts only for the active provider's revision.
Begin(f) ==
    /\ rev[f] = 0 /\ row[f] = "none" /\ pc[f] = "idle"
    /\ provider.state = "active"
    /\ row' = [row EXCEPT ![f] = "state"]
    /\ left' = [left EXCEPT ![f] = StateTTL]
    /\ rev' = [rev EXCEPT ![f] = provider.revision]
    /\ life' = [life EXCEPT ![f] = provider.life]
    /\ UNCHANGED <<provider, account, access, issuer, pc, elapsed, secrets, age, crossed>>

\* Callback consumes the state; an expired state and a missing code are errors.
Callback(f) ==
    /\ row[f] = "state"
    /\ row' = [row EXCEPT ![f] = "none"]
    /\ left' = [left EXCEPT ![f] = 0]
    /\ Go(f, "idle") \/ (left[f] > 0 /\ Go(f, "consumed"))
    /\ UNCHANGED <<provider, account, access, rev, issuer, secrets, age, life, crossed>>

\* The provider is read, and what was read verifies the upstream's answer: the
\* claims carry its issuer.
ReadProvider(f) ==
    /\ pc[f] = "consumed"
    /\ \/ /\ Current(f)
          /\ issuer' = [issuer EXCEPT ![f] = provider.issuer]
          /\ Go(f, "verifying")
       \/ Abandon(f) /\ UNCHANGED issuer
    /\ UNCHANGED <<provider, account, row, left, access, rev, secrets, age, life, crossed>>

\* The calls of activeProviderRevision in Callback: after the upstream answered,
\* after the account was resolved, after the access evaluation, before the code.
AfterRecheck ==
    [verifying |-> "resolving", resolved |-> "evaluating", evaluating |-> "granted",
     saved |-> "storing"]

\* The outside call before the recheck may fail as well.
Recheck(f) ==
    /\ pc[f] \in DOMAIN AfterRecheck
    /\ Abandon(f) \/ (Current(f) /\ Go(f, AfterRecheck[pc[f]]))
    /\ UNCHANGED <<provider, account, row, left, access, rev, issuer, secrets, age, life, crossed>>

ResolveAccount(f) ==
    /\ pc[f] = "resolving"
    /\ Abandon(f) \/ (account = "active" /\ Go(f, "resolved"))
    /\ UNCHANGED <<provider, account, row, left, access, rev, issuer, secrets, age, life, crossed>>

\* Mutated: the access may last longer than the hour the broker allows.
SaveTokenUncapped(f) ==
    /\ pc[f] = "granted"
    /\ secrets' = secrets \cup {f}
    /\ age' = [age EXCEPT ![f] = 0]
    /\ access' = [access EXCEPT ![f] = AccessTTL + 1]
    /\ Go(f, "saved")
    /\ UNCHANGED <<provider, account, row, left, rev, issuer, life, crossed>>

\* saveDelegatedToken, and the expiry the three parties agree on.
SaveToken(f) ==
    /\ pc[f] = "granted"
    /\ secrets' = secrets \cup {f}
    /\ age' = [age EXCEPT ![f] = 0]
    /\ \E a \in 0..AccessTTL :
          /\ access' = [access EXCEPT ![f] = a]
          /\ Go(f, IF a > 0 THEN "saved" ELSE "cleanup")
    /\ UNCHANGED <<provider, account, row, left, rev, issuer, life, crossed>>

\* CreateOAuthCode: conditional like CreateOAuthState, and the secret must be there
\* (REFERENCES secrets).
StoreCode(f) ==
    /\ pc[f] = "storing"
    /\ IF Current(f) /\ f \in secrets
       THEN /\ row' = [row EXCEPT ![f] = "code"]
            /\ left' = [left EXCEPT ![f] = CodeTTL]
            /\ Go(f, "idle")
       ELSE Abandon(f) /\ UNCHANGED <<row, left>>
    /\ UNCHANGED <<provider, account, access, rev, issuer, secrets, age, life, crossed>>

\* Exchange consumes the code, whatever comes of the request: expiry, client,
\* redirect, resource and verifier are looked at afterwards.
Exchange(f) ==
    /\ row[f] = "code"
    /\ row' = [row EXCEPT ![f] = "none"]
    /\ left' = [left EXCEPT ![f] = 0]
    /\ Go(f, "cleanup") \/ (left[f] > 0 /\ access[f] > 0 /\ Go(f, "redeeming"))
    /\ UNCHANGED <<provider, account, access, rev, issuer, secrets, age, life, crossed>>

Redeem(f) ==
    /\ pc[f] = "redeeming"
    /\ Abandon(f) \/ (Current(f) /\ issuer[f] = provider.issuer /\ Go(f, "issuing"))
    /\ UNCHANGED <<provider, account, row, left, access, rev, issuer, secrets, age, life, crossed>>

\* CreateAccessToken, under the same conditions as the code.
IssueToken(f) ==
    /\ pc[f] = "issuing"
    /\ IF Current(f) /\ f \in secrets
       THEN /\ row' = [row EXCEPT ![f] = "token"]
            /\ left' = [left EXCEPT ![f] = access[f]]
            /\ Go(f, "idle")
       ELSE Abandon(f) /\ UNCHANGED <<row, left>>
    /\ UNCHANGED <<provider, account, access, rev, issuer, secrets, age, life, crossed>>

\* cleanupDelegatedToken: DeleteSecret, which may fail.
Cleanup(f) ==
    /\ pc[f] = "cleanup"
    /\ secrets' \in {secrets, secrets \ {f}}
    /\ Go(f, "idle")
    /\ UNCHANGED <<provider, account, row, left, access, rev, issuer, age, life, crossed>>

\* The process stops, or the store fails, in the middle of a request.
Crash(f) ==
    /\ pc[f] # "idle"
    /\ Go(f, "idle")
    /\ UNCHANGED <<provider, account, row, left, access, rev, issuer, secrets, age, life, crossed>>

-----------------------------------------------------------------------------
(* Administration: ConfigureIdentity, ActivateIdentityProvider,            *)
(* DisableIdentityProvider, DisconnectIdentityProvider and                 *)
(* UpdateCustomerAccountState.  The CAS on the revision makes the read and *)
(* the save of each one step.                                              *)

Save(state, i) ==
    /\ provider.revision < MaxRevision
    /\ provider' = [provider EXCEPT !.state = state, !.issuer = i, !.revision = @ + 1]
    /\ UNCHANGED <<account, signInVars>>

\* A new provider starts at revision 1, as every one before it did.
Configure(i) ==
    \/ /\ provider.state = "none"
       /\ provider.life < MaxLife
       /\ provider' = [state |-> "disabled", revision |-> 1, issuer |-> i,
                       life |-> provider.life + 1]
       /\ UNCHANGED <<account, signInVars>>
    \/ provider.state # "none" /\ Save("disabled", i)

Activate == provider.state = "disabled" /\ Save("active", provider.issuer)

Disable == provider.state = "active" /\ Save("disabled", provider.issuer)

\* Mutated: the states of sign-ins under way are left alone.
DisconnectKeepingStates ==
    /\ provider.state = "disabled"
    /\ provider' = [provider EXCEPT !.state = "none", !.revision = 0]
    /\ row' = [f \in SignIn |-> IF row[f] = "state" THEN "state" ELSE "none"]
    /\ secrets' = {f \in secrets : row[f] \notin {"code", "token"}}
    /\ crossed' = crossed \cup {f \in SignIn : pc[f] # "idle"}
    /\ UNCHANGED <<account, left, access, rev, issuer, pc, elapsed, age, life>>

\* DeleteIdentityProvider: the rows of all sign-ins and the secrets they refer to.
Disconnect ==
    /\ provider.state = "disabled"
    /\ provider' = [provider EXCEPT !.state = "none", !.revision = 0]
    /\ row' = [f \in SignIn |-> "none"]
    /\ left' = [f \in SignIn |-> 0]
    /\ secrets' = {f \in secrets : row[f] \notin {"code", "token"}}
    /\ crossed' = crossed \cup {f \in SignIn : pc[f] # "idle"}
    /\ UNCHANGED <<account, access, rev, issuer, pc, elapsed, age, life>>

ChangeAccount ==
    /\ account' = IF account = "active" THEN "suspended" ELSE "active"
    /\ UNCHANGED <<provider, signInVars>>

-----------------------------------------------------------------------------
(* Retention: DeleteStaleOAuthArtifacts, one transaction, which requests,  *)
(* administrators (best effort) and the janitor (until nothing is left)    *)
(* run at their own times.                                                 *)

\* Mutated: a row is stale one tick before it expires.
StaleTooSoon(f) == row[f] # "none" /\ (left[f] <= 1 \/ ~Current(f))

Stale(f) ==
    /\ row[f] # "none"
    /\ left[f] = 0 \/ (row[f] = "code" /\ access[f] = 0) \/ ~Current(f)

\* Mutated: a secret without a row is an orphan at once.
OrphanAtOnce(f) == row[f] \notin {"code", "token"} \/ Stale(f)

Orphan(f) ==
    /\ row[f] \notin {"code", "token"} \/ Stale(f)
    /\ age[f] >= Grace

\* Mutated: only the secrets of deleted rows are deleted.
SweptWithItsRow(f) == row[f] \in {"code", "token"} /\ Stale(f)

\* The secret of a deleted row goes with it; one without a row when it is old.
Swept(f) == (row[f] \in {"code", "token"} /\ Stale(f)) \/ Orphan(f)

Sweep ==
    /\ \E f \in SignIn : Stale(f) \/ (f \in secrets /\ Orphan(f))
    /\ row' = [f \in SignIn |-> IF Stale(f) THEN "none" ELSE row[f]]
    /\ left' = [f \in SignIn |-> IF Stale(f) THEN 0 ELSE left[f]]
    /\ secrets' = {f \in secrets : ~Swept(f)}
    /\ UNCHANGED <<provider, account, access, rev, issuer, pc, elapsed, age, life, crossed>>

Earlier(n) == IF n = 0 THEN 0 ELSE n - 1

Tick ==
    /\ \A f \in SignIn : elapsed[f] < RequestLimit
    /\ left' = [f \in SignIn |-> Earlier(left[f])]
    /\ access' = [f \in SignIn |-> Earlier(access[f])]
    /\ elapsed' = [f \in SignIn |-> IF pc[f] = "idle" THEN 0 ELSE elapsed[f] + 1]
    /\ age' = [f \in SignIn |-> IF f \in secrets /\ age[f] < Grace THEN age[f] + 1 ELSE age[f]]
    /\ UNCHANGED <<provider, account, row, rev, issuer, pc, secrets, life, crossed>>

-----------------------------------------------------------------------------
RequestStep(f) ==
    \/ ReadProvider(f) \/ Recheck(f) \/ ResolveAccount(f) \/ SaveToken(f)
    \/ StoreCode(f) \/ Redeem(f) \/ IssueToken(f) \/ Cleanup(f)

Administer ==
    \/ \E i \in Issuer : Configure(i)
    \/ Activate \/ Disable \/ Disconnect \/ ChangeAccount

Next ==
    \/ \E f \in SignIn : Begin(f) \/ Callback(f) \/ Exchange(f) \/ RequestStep(f) \/ Crash(f)
    \/ Administer \/ Sweep \/ Tick

Spec == Init /\ [][Next]_vars

\* Requests end (their calls have timeouts), the janitor runs under the supervisor,
\* and time passes.
FairSpec ==
    /\ Spec
    /\ WF_vars(Tick) /\ WF_vars(Sweep)
    /\ \A f \in SignIn : WF_vars(RequestStep(f))

-----------------------------------------------------------------------------
(* Properties.                                                             *)

\* What Authenticate asks for, the time and the content of the token aside.
Usable(f) ==
    /\ row[f] = "token" /\ left[f] > 0
    /\ Current(f) /\ issuer[f] = provider.issuer
    /\ account = "active" /\ f \in secrets

\* No sweep takes the delegated token away from a request that is going to hand it
\* on, although between the code and the token no row refers to it; and every code
\* and token has its secret.
SecretsOutliveRequests ==
    \A f \in SignIn :
        pc[f] \in Holding \ {"cleanup"} \/ row[f] \in {"code", "token"} => f \in secrets

\* Why: a request works for a sign-in without a row, and the age of its secret is
\* bounded by the time of the requests and by what the code has used of its time.
SecretAges ==
    \A f \in SignIn :
        /\ pc[f] # "idle" => row[f] = "none"
        /\ pc[f] \in {"saved", "storing"} => f \in secrets /\ age[f] <= elapsed[f]
        /\ row[f] = "code" =>
              /\ f \in secrets /\ left[f] <= CodeTTL
              /\ left[f] > 0 => age[f] + left[f] <= RequestLimit + CodeTTL
        /\ pc[f] \in {"redeeming", "issuing"} =>
              f \in secrets /\ age[f] < RequestLimit + CodeTTL + elapsed[f]
        /\ row[f] = "token" => f \in secrets

\* Disconnecting the provider ends every sign-in begun with it: what is left of one
\* under a provider connected later can only come from a request that was running
\* when the provider was disconnected.
DisconnectEndsSignIns ==
    \A f \in SignIn :
        row[f] # "none" \/ pc[f] # "idle" =>
            \/ f \in crossed
            \/ provider.state # "none" /\ life[f] = provider.life

\* Nothing takes a usable token away but its expiry and the provider's or the
\* account's change of state: the sweeps and the other sign-ins' requests do not.
UsableTokensPersist ==
    [][\A f \in SignIn : Usable(f) =>
          \/ Usable(f)'
          \/ left'[f] = 0 /\ row'[f] = "token" /\ f \in secrets'
          \/ (provider' # provider \/ account' # account) /\ UNCHANGED <<row[f], f \in secrets>>]_vars

\* Delegated bearer tokens are not retained for ever, whatever crashed: every secret
\* of a sign-in is deleted in the end, and so is its row.
RetentionEnds ==
    \A f \in SignIn : f \in secrets \/ row[f] # "none" ~> f \notin secrets /\ row[f] = "none"
=============================================================================
