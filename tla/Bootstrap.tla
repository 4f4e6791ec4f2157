----------------------------- MODULE Bootstrap -----------------------------
(***************************************************************************)
(* ensureCredentials of JellyfinAPIReconciler and Client.Bootstrap: how    *)
(* the operator comes to hold an API key of the Jellyfin server.           *)
(*                                                                         *)
(* The pass is split at its HTTP calls and at its write of the generated   *)
(* Secret. A call may fail without effect or after it took effect, the     *)
(* operator may restart at any point, the Secret is read from an informer  *)
(* cache, and the server's administrator may revoke keys. The server side  *)
(* (wizard, account, keys) is external and modelled from how the client    *)
(* uses it.                                                                *)
(***************************************************************************)
EXTENDS Naturals, FiniteSets

CONSTANTS Keys,       \* API keys; a key minted when all are in use is not told apart
          Randoms,    \* values of randomSecret()
          CredPass,   \* the password in credentialsSecret
          NoKey, NoPass,
          MaxFaults,  \* bound: failed calls and restarts
          MaxRevokes  \* bound: keys revoked by the administrator

Passwords == Randoms \cup {CredPass}

\* Three random values suffice: the one in the server, the one in the Secret
\* and the one just drawn.
ASSUME BootstrapAssumption ==
  /\ NoKey \notin Keys /\ NoPass \notin Passwords /\ CredPass \notin Randoms
  /\ \A x, y \in Passwords \cup {NoPass} : \E r \in Randoms : r # x /\ r # y
  /\ MaxFaults \in Nat /\ MaxRevokes \in Nat

VARIABLES
  mode,        \* spec.api.mode; "providedKey" is mode=provided with an apiKey
  creds,       \* the password in spec.api.credentialsSecret, NoPass without one
  server,      \* the Jellyfin server
  secret,      \* the generated Secret at the API server
  secretCache, \* the informer cache's copy of it
  pass,        \* the pass of ensureCredentials under way
  apiReady,    \* the APIReady condition
  faults, revokes

vars == <<mode, creds, server, secret, secretCache, pass, apiReady, faults, revokes>>

----------------------------------------------------------------------------
(* Data *)

\* The server: whether the first-run wizard is open, how far its routing has
\* been advanced, the admin account's password and the valid API keys.
Server == [wizard : BOOLEAN, configured : BOOLEAN, userRead : BOOLEAN,
           pw : Passwords \cup {NoPass}, keys : SUBSET Keys]
Secret == [key : Keys \cup {NoKey}, pw : Passwords \cup {NoPass}]
NoSecret == [key |-> NoKey, pw |-> NoPass]

WizardSteps == {"config", "getUser", "user", "remote", "complete"}
Calls == {"verify", "wizard", "auth", "mint", "readKeys", "provided"} \cup WizardSteps
Pass == [pc : {"idle", "persist"} \cup Calls, pw : Passwords \cup {NoPass},
         key : Keys \cup {NoKey}]
IdlePass == [pc |-> "idle", pw |-> NoPass, key |-> NoKey]

Init ==
  /\ mode \in {"bootstrap", "provided", "providedKey"}
  /\ creds \in {NoPass, CredPass}
  /\ \/ server = [wizard |-> TRUE, configured |-> FALSE, userRead |-> FALSE,
                  pw |-> NoPass, keys |-> {}]
     \/ /\ creds # NoPass
        /\ server = [wizard |-> FALSE, configured |-> TRUE, userRead |-> TRUE,
                     pw |-> creds, keys |-> {}]
  /\ secret = NoSecret /\ secretCache = NoSecret
  /\ pass = IdlePass
  /\ apiReady = FALSE
  /\ faults = 0 /\ revokes = 0

----------------------------------------------------------------------------
(* Outcomes of a pass *)

Fails ==
  /\ pass' = IdlePass
  /\ apiReady' = FALSE

Succeeds ==
  /\ pass' = IdlePass
  /\ apiReady' = TRUE

GoTo(pc) ==
  /\ pass' = [pass EXCEPT !.pc = pc]
  /\ UNCHANGED apiReady

\* A call took effect; its answer arrives or is lost.
Answered(next) ==
  \/ next /\ UNCHANGED faults
  \/ faults < MaxFaults /\ faults' = faults + 1 /\ Fails

----------------------------------------------------------------------------
(* ensureCredentials *)

\* Mutant: credentialsSecret is not consulted.
ChoosePasswordIgnoresCreds(pw) ==
  IF secretCache.pw # NoPass THEN pw = secretCache.pw
  ELSE pw \in Randoms \ {server.pw, secret.pw}

\* The password: credentialsSecret, else the generated Secret, else a random
\* one, which nobody else holds.
ChoosePassword(pw) ==
  IF creds # NoPass THEN pw = creds
  ELSE IF secretCache.pw # NoPass THEN pw = secretCache.pw
  ELSE pw \in Randoms \ {server.pw, secret.pw}

Start ==
  /\ pass.pc = "idle"
  /\ \/ mode = "providedKey" /\ Succeeds
     \/ /\ mode = "provided"
        /\ pass' = [IdlePass EXCEPT !.pc = "provided", !.pw = creds]
        /\ UNCHANGED apiReady
     \/ /\ mode = "bootstrap"
        /\ \E pw \in Passwords :
             /\ ChoosePassword(pw)
             /\ pass' = [pc |-> IF secretCache.key # NoKey THEN "verify" ELSE "wizard",
                         pw |-> pw, key |-> secretCache.key]
        /\ UNCHANGED apiReady
  /\ UNCHANGED <<mode, creds, server, secret, secretCache, faults, revokes>>

\* mode=provided without an apiKey: authenticate with the given password, or fail without one.
Provided ==
  /\ pass.pc = "provided"
  /\ IF pass.pw # NoPass /\ pass.pw = server.pw THEN Succeeds ELSE Fails
  /\ UNCHANGED <<mode, creds, server, secret, secretCache, faults, revokes>>

\* ListVirtualFolders with the key of the Secret: a working key ends the pass.
Verify ==
  /\ pass.pc = "verify"
  /\ IF pass.key \in server.keys THEN Succeeds ELSE GoTo("wizard")
  /\ UNCHANGED <<mode, creds, server, secret, secretCache, faults, revokes>>

\* Any failure of that list counts as a key that does not work.
VerifyFails ==
  /\ pass.pc = "verify"
  /\ faults < MaxFaults /\ faults' = faults + 1
  /\ GoTo("wizard")
  /\ UNCHANGED <<mode, creds, server, secret, secretCache, revokes>>

----------------------------------------------------------------------------
(* Bootstrap *)

\* Mutant: the wizard is gone through whatever the server answers.
WizardAlways ==
  /\ pass.pc = "wizard"
  /\ GoTo("config")
  /\ UNCHANGED <<mode, creds, server, secret, secretCache, faults, revokes>>

\* GetStartupConfiguration: any failure of it counts as a finished wizard.
Wizard ==
  /\ pass.pc = "wizard"
  /\ GoTo(IF server.wizard THEN "config" ELSE "auth")
  /\ UNCHANGED <<mode, creds, server, secret, secretCache, faults, revokes>>

WizardFails ==
  /\ pass.pc = "wizard"
  /\ faults < MaxFaults /\ faults' = faults + 1
  /\ GoTo("auth")
  /\ UNCHANGED <<mode, creds, server, secret, secretCache, revokes>>

\* Mutant: the user is posted without the GET that makes the server route it.
AfterStepSkipsGetUser ==
  [s \in WizardSteps |->
     CASE s = "config" -> "user" [] s = "getUser" -> "user" [] s = "user" -> "remote"
       [] s = "remote" -> "complete" [] s = "complete" -> "auth"]

\* The steps of an open wizard, in their order.
AfterStep ==
  [s \in WizardSteps |->
     CASE s = "config" -> "getUser" [] s = "getUser" -> "user" [] s = "user" -> "remote"
       [] s = "remote" -> "complete" [] s = "complete" -> "auth"]

WizardCall(step, after) ==
  /\ pass.pc = step
  /\ server' = after
  /\ Answered(GoTo(AfterStep[step]))
  /\ UNCHANGED <<mode, creds, secret, secretCache, revokes>>

SetStartupConfiguration == WizardCall("config", [server EXCEPT !.configured = TRUE])
GetStartupUser == WizardCall("getUser", [server EXCEPT !.userRead = TRUE])
SetStartupRemoteAccess == WizardCall("remote", server)
CompleteStartup == WizardCall("complete", [server EXCEPT !.wizard = FALSE])

\* POST /Startup/User is routed only after the two calls before it. A server
\* that already has the user replaces its password or answers 400, which the
\* client ignores.
CreateStartupUser ==
  IF server.configured /\ server.userRead
  THEN \/ WizardCall("user", [server EXCEPT !.pw = pass.pw])
       \/ server.pw # NoPass /\ WizardCall("user", server)
  ELSE /\ pass.pc = "user" /\ Fails
       /\ UNCHANGED <<mode, creds, server, secret, secretCache, faults, revokes>>

\* Mutant: the answer of the authentication is not checked.
AuthenticateUnchecked ==
  /\ pass.pc = "auth"
  /\ GoTo("mint")
  /\ UNCHANGED <<mode, creds, server, secret, secretCache, faults, revokes>>

AuthenticateByName ==
  /\ pass.pc = "auth"
  /\ IF pass.pw = server.pw THEN GoTo("mint") ELSE Fails
  /\ UNCHANGED <<mode, creds, server, secret, secretCache, faults, revokes>>

\* CreateAPIKey: POST /Auth/Keys, then GET /Auth/Keys, of which the first key
\* of this application is taken.
MintKey ==
  /\ pass.pc = "mint"
  /\ IF server.keys = Keys THEN UNCHANGED server
     ELSE \E k \in Keys \ server.keys : server' = [server EXCEPT !.keys = @ \cup {k}]
  /\ Answered(GoTo("readKeys"))
  /\ UNCHANGED <<mode, creds, secret, secretCache, revokes>>

ReadKeys ==
  /\ pass.pc = "readKeys"
  /\ IF server.keys = {} THEN Fails
     ELSE /\ \E k \in server.keys : pass' = [pass EXCEPT !.pc = "persist", !.key = k]
          /\ UNCHANGED apiReady
  /\ UNCHANGED <<mode, creds, server, secret, secretCache, faults, revokes>>

\* Mutant: the two fields of the Secret are swapped.
PersistSwapped ==
  /\ pass.pc = "persist"
  /\ IF secretCache = secret
     THEN secret' = [key |-> pass.pw, pw |-> pass.key] /\ Succeeds
     ELSE UNCHANGED secret /\ Fails
  /\ UNCHANGED <<mode, creds, server, secretCache, faults, revokes>>

\* persistGeneratedSecret: CreateOrUpdate reads the cache, so a stale cache
\* makes the write fail (already exists, or a conflict).
Persist ==
  /\ pass.pc = "persist"
  /\ IF secretCache = secret
     THEN secret' = [key |-> pass.key, pw |-> pass.pw] /\ Succeeds
     ELSE UNCHANGED secret /\ Fails
  /\ UNCHANGED <<mode, creds, server, secretCache, faults, revokes>>

----------------------------------------------------------------------------
(* Faults and the environment *)

\* A call (or the write of the Secret) fails without effect, where that ends
\* the pass.
CallFails ==
  /\ pass.pc \in ({"persist"} \cup Calls) \ {"verify", "wizard"}
  /\ faults < MaxFaults /\ faults' = faults + 1
  /\ Fails
  /\ UNCHANGED <<mode, creds, server, secret, secretCache, revokes>>

\* The operator restarts: the pass and its password are gone.
Restart ==
  /\ pass.pc # "idle"
  /\ faults < MaxFaults /\ faults' = faults + 1
  /\ pass' = IdlePass
  /\ UNCHANGED <<mode, creds, server, secret, secretCache, apiReady, revokes>>

RevokeKey(k) ==
  /\ k \in server.keys
  /\ revokes < MaxRevokes /\ revokes' = revokes + 1
  /\ server' = [server EXCEPT !.keys = @ \ {k}]
  /\ UNCHANGED <<mode, creds, secret, secretCache, pass, apiReady, faults>>

CacheDeliver ==
  /\ secretCache # secret
  /\ secretCache' = secret
  /\ UNCHANGED <<mode, creds, server, secret, pass, apiReady, faults, revokes>>

PassStep ==
  \/ Start \/ Provided \/ Verify
  \/ Wizard \/ SetStartupConfiguration \/ GetStartupUser \/ CreateStartupUser
  \/ SetStartupRemoteAccess \/ CompleteStartup
  \/ AuthenticateByName \/ MintKey \/ ReadKeys \/ Persist

Next ==
  \/ PassStep
  \/ VerifyFails \/ WizardFails \/ CallFails \/ Restart
  \/ CacheDeliver
  \/ \E k \in Keys : RevokeKey(k)

\* A failed pass is requeued and HTTP calls time out; informers deliver.
Fairness == WF_vars(PassStep) /\ WF_vars(CacheDeliver)

Spec == Init /\ [][Next]_vars
FairSpec == Spec /\ Fairness

----------------------------------------------------------------------------
(* Properties *)

\* Every variable keeps its type.
TypeOK ==
  /\ mode \in {"bootstrap", "provided", "providedKey"}
  /\ creds \in {NoPass, CredPass}
  /\ server \in Server
  /\ secret \in Secret /\ secretCache \in Secret
  /\ pass \in Pass
  /\ apiReady \in BOOLEAN
  /\ faults \in 0..MaxFaults /\ revokes \in 0..MaxRevokes

\* Once the generated Secret exists its password is the admin account's, so a
\* revoked key can always be replaced: no stale cache, repeated wizard or
\* restart makes ensureCredentials overwrite either of the two with a password
\* that the other does not have.
SecretOpensServer == secret # NoSecret => secret.pw = server.pw

\* Its inductive strengthening. The three places a password is kept agree; a
\* generated password reaches a Secret only once the wizard, the one thing that
\* could replace it in the server, is closed.
Holding == {"mint", "readKeys", "persist"}
PasswordsAgree ==
  /\ secret # NoSecret => secret.pw = server.pw /\ server.pw # NoPass
  /\ secretCache # NoSecret => secret # NoSecret /\ secretCache.pw = secret.pw
  /\ pass.pc \in Holding => pass.pw = server.pw /\ server.pw # NoPass
  /\ pass.pc \in Calls \ {"provided"} => pass.pw # NoPass
  /\ creds # NoPass =>
       server.pw \in {NoPass, creds} /\ (pass.pc # "idle" => pass.pw = creds)
WizardClosedFirst ==
  /\ pass.pc \in WizardSteps => server.wizard
  /\ creds = NoPass /\ server.wizard =>
       /\ secret = NoSecret
       /\ pass.pc \notin Holding
       /\ pass.pc \in {"verify", "wizard", "auth"} => pass.pw # server.pw

\* The admin account has a password that is in no Secret and in no pass.
PasswordLost ==
  server.pw # NoPass /\ server.pw \notin {creds, secret.pw, pass.pw}

\* In mode=bootstrap the operator ends up authenticated, whatever fails or
\* restarts on the way, unless the generated admin password is lost for good.
AuthenticatesUnlessPasswordLost ==
  mode = "bootstrap" => <>[]apiReady \/ <>[]PasswordLost

\* With a password in credentialsSecret nothing can be lost.
CredentialsAlwaysSuffice ==
  mode = "bootstrap" /\ creds # NoPass => <>[]apiReady

\* Seen from outside, ensureCredentials does no more than Credentials allows: the
\* password in the generated Secret is written once, is the admin account's, and
\* that account's password never changes afterwards, wizard re-runs included.
Abstract == INSTANCE Credentials
  WITH account <- server.pw, kept <- secret.pw, None <- NoPass
ImplementsCredentials == Abstract!Spec

\* docs/specification.md 7.6.1: "the bootstrap is idempotent and survives
\* operator restarts".
BootstrapSurvivesRestarts == mode = "bootstrap" => <>[]apiReady
=============================================================================
