------------------------------ MODULE MCIdentity ------------------------------
(* The two parts of the identity broker, small enough for TLC, one at a time: *)
(* sign-ins, for which the settings change in one step, and these settings in *)
(* the steps they are changed in.                                             *)
EXTENDS OAuthBroker, ProviderSettings

VARIABLE part  \* the part that acts

identityVars == <<part, vars, settingsVars>>

IdentityInit == part \in {"signIns", "settings"} /\ Init /\ SettingsInit

IdentityNext ==
    /\ \/ part = "signIns" /\ Next /\ UNCHANGED settingsVars
       \/ part = "settings" /\ SettingsNext /\ UNCHANGED vars
    /\ UNCHANGED part

\* The fairness of FairSpec, when sign-ins act, and that of the settings.
IdentitySpec ==
    /\ IdentityInit /\ [][IdentityNext]_identityVars
    /\ WF_vars(part = "signIns" /\ Tick) /\ WF_vars(part = "signIns" /\ Sweep)
    /\ \A f \in SignIn : WF_vars(part = "signIns" /\ RequestStep(f))
    /\ SettingsFairness

\* The types of both.
IdentityTypeOK == TypeOK /\ SettingsTypeOK
=============================================================================
