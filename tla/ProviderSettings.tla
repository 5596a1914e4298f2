--------------------------- MODULE ProviderSettings ---------------------------
(***************************************************************************)
(* The identity provider of one deployment: administrators configure it    *)
(* with a client credential, test it against the real provider, activate,  *)
(* disable and disconnect it.  What they do is several statements; the row *)
(* is saved whole, on condition that its revision is the one that was      *)
(* read, and the revisions of a provider connected later start at 1 again. *)
(*                                                                         *)
(* A configuration is named by the provider's incarnation and the revision *)
(* it was entered at.                                                      *)
(***************************************************************************)
EXTENDS Naturals

CONSTANTS Admin,       \* the requests of administrators, one at a time each
          Test,        \* the connection tests
          Credential, NoCredential,
          CredentialGrace,            \* identitySecretOrphanGrace
          MaxProvider, MaxConnections \* bounds on revisions and incarnations

ASSUME ProviderSettingsAssumption ==
    /\ NoCredential \notin Credential
    /\ {CredentialGrace, MaxProvider, MaxConnections} \subseteq Nat \ {0}

VARIABLES
    idp,            \* the row of identity_providers
    credentials,    \* the rows of secrets with a client credential
    credentialAge,  \* ticks since each was created, up to CredentialGrace
    admin,          \* the requests at work, with what they read
    test,           \* the rows of identity_provider_tests, with what their callback read
    connections,    \* history: the incarnations of the provider
    verified        \* history: the configurations with which a test passed

settingsVars == <<idp, credentials, credentialAge, admin, test, connections, verified>>

Revision == 0..MaxProvider
Configuration == [life : 0..MaxConnections, revision : Revision]
Provider == [state : {"none", "disabled", "active"}, revision : Revision,
             content : Configuration, credential : Credential \cup {NoCredential}]

Request == [pc : {"idle", "entered", "created", "cleanup", "retire", "activating", "tested",
                  "disabling"},
            read : Provider, new : Credential \cup {NoCredential}]
ConnectionTest == [status : {"none", "pending", "claimed", "verifying", "passed", "ended"},
                   revision : Revision, content : Configuration]

NoConfiguration == [life |-> 0, revision |-> 0]
NoProvider == [state |-> "none", revision |-> 0, content |-> NoConfiguration,
               credential |-> NoCredential]
NoRequest == [pc |-> "idle", read |-> NoProvider, new |-> NoCredential]
NoTest == [status |-> "none", revision |-> 0, content |-> NoConfiguration]
Ended == [status |-> "ended", revision |-> 0, content |-> NoConfiguration]

SettingsTypeOK ==
    /\ idp \in Provider
    /\ credentials \subseteq Credential
    /\ credentialAge \in [Credential -> 0..CredentialGrace]
    /\ admin \in [Admin -> Request]
    /\ test \in [Test -> ConnectionTest]
    /\ connections \in 0..MaxConnections
    /\ verified \subseteq Configuration

SettingsInit ==
    /\ idp = NoProvider
    /\ credentials = {} /\ credentialAge = [c \in Credential |-> 0]
    /\ admin = [a \in Admin |-> NoRequest]
    /\ test = [x \in Test |-> NoTest]
    /\ connections = 0 /\ verified = {}

-----------------------------------------------------------------------------
(* Requests of administrators. *)

Proceed(a, step) == admin' = [admin EXCEPT ![a].pc = step]
Leave(a) == admin' = [admin EXCEPT ![a] = NoRequest]

\* The row refers to its credential (REFERENCES secrets ON DELETE RESTRICT), so it
\* cannot be saved with one that is gone.
Referable(c) == c \in credentials

\* ConfigureIdentity, ActivateIdentityProvider and DisableIdentityProvider read
\* the provider and check its state and revision.
ReadSettings(a) ==
    /\ admin[a].pc = "idle"
    /\ \E step \in {"entered", "activating", "disabling"} :
          /\ step = "activating" => idp.state = "disabled"
          /\ step = "disabling" => idp.state = "active"
          /\ admin' = [admin EXCEPT ![a] = [pc |-> step, read |-> idp, new |-> NoCredential]]
    /\ UNCHANGED <<idp, credentials, credentialAge, test, connections, verified>>

\* Names of credentials that nobody has or remembers.
Fresh ==
    {c \in Credential \ (credentials \cup {idp.credential}) :
        \A a \in Admin : c \notin {admin[a].new, admin[a].read.credential}}

\* A configuration with a new client secret stores it first, under an id of its own;
\* the first one and one of another client must have one.
CreateCredential(a) ==
    /\ admin[a].pc = "entered"
    /\ \/ \E c \in Fresh :
             /\ credentials' = credentials \cup {c}
             /\ credentialAge' = [credentialAge EXCEPT ![c] = 0]
             /\ admin' = [admin EXCEPT ![a] = [pc |-> "created", read |-> @.read, new |-> c]]
       \/ /\ admin[a].read.state # "none"
          /\ Proceed(a, "created")
          /\ UNCHANGED <<credentials, credentialAge>>
    /\ UNCHANGED <<idp, test, connections, verified>>

\* ActivateIdentityProvider looks for a passed test of the revision it read.
CheckTest(a) ==
    /\ admin[a].pc = "activating"
    /\ \E x \in Test : test[x].status = "passed" /\ test[x].revision = admin[a].read.revision
    /\ Proceed(a, "tested")
    /\ UNCHANGED <<idp, credentials, credentialAge, test, connections, verified>>

\* SaveIdentityProvider: an INSERT when nothing was read, or else an UPDATE.
Saves(a, state, content, credential) ==
    LET read == admin[a].read IN
    /\ idp.revision = read.revision /\ Referable(credential)
    /\ read.state = "none" => connections < MaxConnections
    /\ idp.revision < MaxProvider
    /\ idp' = [state |-> state, revision |-> read.revision + 1, content |-> content,
               credential |-> credential]
    /\ connections' = IF read.state = "none" THEN connections + 1 ELSE connections

\* An error, which the request also sees when the answer to a save was lost.
\* cleanupFailedIdentityCredential follows it.
SaveConfiguration(a) ==
    /\ admin[a].pc = "created"
    /\ LET read == admin[a].read
           new == admin[a].new
           life == IF read.state = "none" THEN connections + 1 ELSE connections
           failed == IF new = NoCredential THEN Leave(a) ELSE Proceed(a, "cleanup") IN
       \/ /\ Saves(a, "disabled", [life |-> life, revision |-> read.revision + 1],
                   IF new = NoCredential THEN read.credential ELSE new)
          /\ failed \/ (IF new # NoCredential /\ read.credential # NoCredential
                        THEN Proceed(a, "retire") ELSE Leave(a))
       \/ failed /\ UNCHANGED <<idp, connections>>
    /\ UNCHANGED <<credentials, credentialAge, test, verified>>

\* DeleteSecret of a new credential that was not saved or of the one it replaces: it
\* fails when the row refers to it, and may fail otherwise.
DropCredential(a) ==
    /\ admin[a].pc \in {"cleanup", "retire"}
    /\ LET c == IF admin[a].pc = "cleanup" THEN admin[a].new ELSE admin[a].read.credential IN
       credentials' \in {credentials, IF c = idp.credential THEN credentials ELSE credentials \ {c}}
    /\ Leave(a)
    /\ UNCHANGED <<idp, credentialAge, test, connections, verified>>

\* The row is saved as it was read, but for its state.
SaveState(a) ==
    /\ admin[a].pc \in {"tested", "disabling"}
    /\ \/ Saves(a, IF admin[a].pc = "tested" THEN "active" ELSE "disabled",
                admin[a].read.content, admin[a].read.credential)
       \/ UNCHANGED <<idp, connections>>
    /\ Leave(a)
    /\ UNCHANGED <<credentials, credentialAge, test, verified>>

\* An error return, or the process stops.
LeaveSettings(a) ==
    /\ admin[a].pc # "idle"
    /\ Leave(a)
    /\ UNCHANGED <<idp, credentials, credentialAge, test, connections, verified>>

\* Mutated: the tests of the provider are left for the next one.
DisconnectProviderOnly ==
    /\ idp.state = "disabled"
    /\ idp' = NoProvider
    /\ credentials' = credentials \ {idp.credential}
    /\ UNCHANGED <<credentialAge, admin, test, connections, verified>>

\* DeleteIdentityProvider, one transaction: the tests and the credential go as well.
DisconnectProvider ==
    /\ idp.state = "disabled"
    /\ idp' = NoProvider
    /\ credentials' = credentials \ {idp.credential}
    /\ test' = [x \in Test |-> IF test[x].status = "none" THEN NoTest
                               ELSE Ended]
    /\ UNCHANGED <<credentialAge, admin, connections, verified>>

-----------------------------------------------------------------------------
(* Connection tests. *)

BeginTest(x) ==
    /\ test[x].status = "none" /\ idp.state # "none"
    /\ test' = [test EXCEPT ![x] = [status |-> "pending", revision |-> idp.revision,
                                  content |-> NoConfiguration]]
    /\ UNCHANGED <<idp, credentials, credentialAge, admin, connections, verified>>

ClaimTest(x) ==
    /\ test[x].status = "pending"
    /\ test' = [test EXCEPT ![x].status = "claimed"]
    /\ UNCHANGED <<idp, credentials, credentialAge, admin, connections, verified>>

\* CompleteProviderTest reads what it is going to verify with.
ReadTested(x) ==
    /\ test[x].status = "claimed"
    /\ test' = IF idp.state # "none" /\ idp.revision = test[x].revision
               THEN [test EXCEPT ![x] = [status |-> "verifying", revision |-> @.revision,
                                        content |-> idp.content]]
               ELSE [test EXCEPT ![x].status = "ended"]
    /\ UNCHANGED <<idp, credentials, credentialAge, admin, connections, verified>>

\* CompleteIdentityProviderTest, when the row is still there; it ends here as well
\* when it has failed.
PassTest(x) ==
    /\ test[x].status = "verifying"
    /\ test' = [test EXCEPT ![x].status = "passed"]
    /\ verified' = verified \cup {test[x].content}
    /\ UNCHANGED <<idp, credentials, credentialAge, admin, connections>>

\* A test fails or expires.
EndTest(x) ==
    /\ test[x].status \notin {"none", "ended"}
    /\ test' = [test EXCEPT ![x].status = "ended"]
    /\ UNCHANGED <<idp, credentials, credentialAge, admin, connections, verified>>

-----------------------------------------------------------------------------
(* Time. *)

\* Mutated: the sweep looks for delegated tokens only.
SweepTokens == FALSE /\ UNCHANGED settingsVars

\* DeleteStaleOAuthArtifacts, of client credentials.
SweepCredentials ==
    LET orphans == {c \in credentials \ {idp.credential} : credentialAge[c] >= CredentialGrace} IN
    /\ orphans # {}
    /\ credentials' = credentials \ orphans
    /\ UNCHANGED <<idp, credentialAge, admin, test, connections, verified>>

AgeCredentials ==
    /\ \E c \in credentials : credentialAge[c] < CredentialGrace
    /\ credentialAge' = [c \in Credential |-> IF c \in credentials /\ credentialAge[c] < CredentialGrace
                                             THEN credentialAge[c] + 1 ELSE credentialAge[c]]
    /\ UNCHANGED <<idp, credentials, admin, test, connections, verified>>

SettingsNext ==
    \/ \E a \in Admin : \/ ReadSettings(a) \/ CreateCredential(a) \/ CheckTest(a)
                        \/ SaveConfiguration(a) \/ DropCredential(a) \/ SaveState(a)
                        \/ LeaveSettings(a)
    \/ \E x \in Test : \/ BeginTest(x) \/ ClaimTest(x) \/ ReadTested(x) \/ PassTest(x) \/ EndTest(x)
    \/ DisconnectProvider \/ SweepCredentials \/ AgeCredentials

SettingsSpec == SettingsInit /\ [][SettingsNext]_settingsVars

\* The janitor runs under the supervisor, and time passes.
SettingsFairness == WF_settingsVars(SweepCredentials) /\ WF_settingsVars(AgeCredentials)

-----------------------------------------------------------------------------
\* Users sign in with a configuration that a connection test verified: no test from
\* before the configuration was changed, or the provider disconnected and another one
\* connected, activates it.  Only a request that read the provider before it was
\* disconnected may, with what it read.
ActiveWasTested ==
    idp.state = "active" => idp.content \in verified \/ idp.content.life < connections

\* A client credential that no provider has does not stay, whatever request died.
CredentialsEnd ==
    \A c \in Credential : c \in credentials ~> c \notin credentials \/ idp.credential = c
=============================================================================
