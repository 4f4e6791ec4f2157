-------------------------- MODULE BootstrapProofs --------------------------
(***************************************************************************)
(* Proofs about credential bootstrap, for every set of keys and passwords  *)
(* and any number of faults and revocations.                               *)
(***************************************************************************)
EXTENDS Bootstrap, TLAPS

\* The steps of one HTTP call of the open wizard.
LEMMA WizardOrder ==
  /\ AfterStep["config"] = "getUser" /\ AfterStep["getUser"] = "user"
  /\ AfterStep["user"] = "remote" /\ AfterStep["remote"] = "complete"
  /\ AfterStep["complete"] = "auth"
  BY DEF AfterStep, WizardSteps

\* The initial server, Secret and pass have their types.
LEMMA InitTypeOK == Init => TypeOK
  <1> SUFFICES ASSUME Init PROVE TypeOK
    OBVIOUS
  <1> USE BootstrapAssumption
  <1>1. server \in Server
    <2>1. CASE server = [wizard |-> TRUE, configured |-> FALSE, userRead |-> FALSE,
                         pw |-> NoPass, keys |-> {}]
      BY <2>1 DEF Server
    <2>2. CASE creds # NoPass /\ server = [wizard |-> FALSE, configured |-> TRUE,
                                           userRead |-> TRUE, pw |-> creds, keys |-> {}]
      <3>1. creds \in Passwords
        BY <2>2 DEF Init, Passwords
      <3> QED
        BY <2>2, <3>1 DEF Server
    <2> QED
      BY <2>1, <2>2 DEF Init
  <1>2. NoSecret \in Secret /\ IdlePass \in Pass
    BY DEF NoSecret, Secret, IdlePass, Pass
  <1>3. faults \in 0..MaxFaults /\ revokes \in 0..MaxRevokes
    BY DEF Init
  <1> QED
    BY <1>1, <1>2, <1>3 DEF Init, TypeOK

\* How a pass can go on leaves it well typed.
LEMMA OutcomeTypes ==
  ASSUME TypeOK
  PROVE  /\ Fails => pass' \in Pass /\ apiReady' \in BOOLEAN
         /\ Succeeds => pass' \in Pass /\ apiReady' \in BOOLEAN
         /\ \A pc \in {"persist"} \cup Calls : GoTo(pc) => pass' \in Pass /\ apiReady' \in BOOLEAN
  <1>1. IdlePass \in Pass
    BY DEF IdlePass, Pass
  <1> QED
    BY <1>1 DEF TypeOK, Fails, Succeeds, GoTo, Pass

\* A wizard call leaves a well-typed server and pass.
LEMMA WizardCallType ==
  ASSUME TypeOK, NEW step \in WizardSteps, NEW after \in Server, WizardCall(step, after)
  PROVE  TypeOK'
  <1>1. AfterStep[step] \in Calls
    BY WizardOrder DEF WizardSteps, Calls
  <1>2. pass' \in Pass /\ apiReady' \in BOOLEAN /\ faults' \in 0..MaxFaults
    <2>1. CASE GoTo(AfterStep[step]) /\ UNCHANGED faults
      BY <1>1, <2>1, OutcomeTypes DEF TypeOK
    <2>2. CASE faults < MaxFaults /\ faults' = faults + 1 /\ Fails
      BY <2>2, OutcomeTypes, BootstrapAssumption DEF TypeOK
    <2> QED
      BY <2>1, <2>2 DEF WizardCall, Answered
  <1> QED
    BY <1>2 DEF WizardCall, TypeOK

\* Every step keeps every variable's type.
LEMMA NextTypeOK == TypeOK /\ [Next]_vars => TypeOK'
  <1> SUFFICES ASSUME TypeOK, [Next]_vars PROVE TypeOK'
    OBVIOUS
  <1> USE BootstrapAssumption, OutcomeTypes
  <1>1. CASE Start
    <2>1. pass' \in Pass /\ apiReady' \in BOOLEAN
      <3>1. CASE mode = "providedKey"
        BY <1>1, <3>1 DEF Start
      <3>2. CASE mode = "provided"
        BY <1>1, <3>2 DEF Start, TypeOK, Pass, IdlePass, Calls, Passwords
      <3>3. CASE mode = "bootstrap"
        <4> PICK pw \in Passwords, pc \in {"verify", "wizard"} :
              pass' = [pc |-> pc, pw |-> pw, key |-> secretCache.key]
          BY <1>1, <3>3 DEF Start
        <4> QED
          BY <1>1, <3>3 DEF Start, TypeOK, Pass, Calls, Secret
      <3> QED
        BY <3>1, <3>2, <3>3 DEF TypeOK
    <2> QED
      BY <1>1, <2>1 DEF Start, TypeOK
  <1>2. CASE Provided
    BY <1>2 DEF Provided, TypeOK
  <1>3. CASE Verify \/ VerifyFails
    BY <1>3 DEF Verify, VerifyFails, TypeOK, Calls
  <1>4. CASE Wizard \/ WizardFails
    BY <1>4 DEF Wizard, WizardFails, TypeOK, Calls, WizardSteps
  <1>5. CASE SetStartupConfiguration
    BY <1>5, WizardCallType DEF SetStartupConfiguration, TypeOK, Server, WizardSteps
  <1>6. CASE GetStartupUser
    BY <1>6, WizardCallType DEF GetStartupUser, TypeOK, Server, WizardSteps
  <1>7. CASE SetStartupRemoteAccess
    BY <1>7, WizardCallType DEF SetStartupRemoteAccess, TypeOK, WizardSteps
  <1>8. CASE CompleteStartup
    BY <1>8, WizardCallType DEF CompleteStartup, TypeOK, Server, WizardSteps
  <1>9. CASE CreateStartupUser
    <2>1. [server EXCEPT !.pw = pass.pw] \in Server /\ server \in Server
      BY DEF TypeOK, Server, Pass
    <2>2. "user" \in WizardSteps
      BY DEF WizardSteps
    <2> QED
      BY <1>9, <2>1, <2>2, WizardCallType DEF CreateStartupUser, TypeOK
  <1>10. CASE AuthenticateByName
    BY <1>10 DEF AuthenticateByName, TypeOK, Calls
  <1>11. CASE MintKey
    <2>1. server' \in Server
      BY <1>11 DEF MintKey, TypeOK, Server
    <2>2. pass' \in Pass /\ apiReady' \in BOOLEAN /\ faults' \in 0..MaxFaults
      BY <1>11 DEF MintKey, Answered, TypeOK, Calls
    <2> QED
      BY <1>11, <2>1, <2>2 DEF MintKey, TypeOK
  <1>12. CASE ReadKeys
    <2>1. pass' \in Pass /\ apiReady' \in BOOLEAN
      BY <1>12 DEF ReadKeys, TypeOK, Server, Pass
    <2> QED
      BY <1>12, <2>1 DEF ReadKeys, TypeOK
  <1>13. CASE Persist
    <2>1. secret' \in Secret
      BY <1>13 DEF Persist, TypeOK, Pass, Secret
    <2> QED
      BY <1>13, <2>1 DEF Persist, TypeOK
  <1>14. CASE CallFails
    BY <1>14 DEF CallFails, TypeOK
  <1>15. CASE Restart
    BY <1>15 DEF Restart, Fails, TypeOK, Pass, IdlePass
  <1>16. CASE CacheDeliver
    BY <1>16 DEF CacheDeliver, TypeOK
  <1>17. ASSUME NEW k \in Keys, RevokeKey(k) PROVE TypeOK'
    BY <1>17 DEF RevokeKey, TypeOK, Server
  <1>18. CASE UNCHANGED vars
    BY <1>18 DEF vars, TypeOK
  <1> QED
    BY <1>1, <1>2, <1>3, <1>4, <1>5, <1>6, <1>7, <1>8, <1>9, <1>10, <1>11, <1>12, <1>13,
       <1>14, <1>15, <1>16, <1>17, <1>18 DEF Next, PassStep

\* Server, Secret, cache and pass keep their types.
THEOREM TypeCorrect == Spec => []TypeOK
  BY InitTypeOK, NextTypeOK, PTL DEF Spec

----------------------------------------------------------------------------
(* The passwords *)

PasswordInv == TypeOK /\ PasswordsAgree /\ WizardClosedFirst

\* At first there is no Secret, and the only password is the one of credentialsSecret.
LEMMA InitPasswords == Init => PasswordInv
  <1> SUFFICES ASSUME Init PROVE PasswordInv
    OBVIOUS
  <1>1. TypeOK
    BY InitTypeOK
  <1>2. pass.pc = "idle" /\ secret = NoSecret /\ secretCache = NoSecret
    BY DEF Init, IdlePass
  <1>3. creds # NoPass => server.pw \in {NoPass, creds}
    BY DEF Init
  <1> QED
    BY <1>1, <1>2, <1>3
    DEF PasswordInv, PasswordsAgree, WizardClosedFirst, Holding, Calls, WizardSteps

\* A step that ends the pass, or moves it on, and leaves the passwords and the
\* wizard alone keeps the invariant.
LEMMA PassOver ==
  ASSUME PasswordInv, pass' = IdlePass, server'.pw = server.pw,
         server'.wizard => server.wizard, UNCHANGED <<creds, secret, secretCache>>
  PROVE  PasswordsAgree' /\ WizardClosedFirst'
  BY DEF PasswordInv, PasswordsAgree, WizardClosedFirst, Holding, Calls, WizardSteps, IdlePass

\* Every step keeps the passwords of server, Secret, cache and pass in agreement.
LEMMA NextPasswords == PasswordInv /\ [Next]_vars => PasswordInv'
  <1> SUFFICES ASSUME PasswordInv, [Next]_vars PROVE PasswordInv'
    OBVIOUS
  <1>0. TypeOK'
    BY NextTypeOK DEF PasswordInv
  <1> SUFFICES PasswordsAgree' /\ WizardClosedFirst'
    BY <1>0 DEF PasswordInv
  <1> USE BootstrapAssumption
  <1>1. CASE Start
    <2>1. CASE mode # "bootstrap"
      <3>1. pass' = IdlePass \/ (pass'.pc = "provided" /\ pass'.pw = creds)
        BY <1>1, <2>1 DEF Start, Succeeds, IdlePass
      <3>2. UNCHANGED <<creds, server, secret, secretCache>>
        BY <1>1 DEF Start
      <3>3. CASE pass' = IdlePass
        BY <3>2, <3>3, PassOver
      <3>4. CASE pass'.pc = "provided" /\ pass'.pw = creds
        BY <3>2, <3>4 DEF PasswordInv, PasswordsAgree, WizardClosedFirst, Holding, Calls,
           WizardSteps
      <3> QED
        BY <3>1, <3>3, <3>4
    <2>2. CASE mode = "bootstrap"
      <3> PICK pw \in Passwords, pc \in {"verify", "wizard"} :
            ChoosePassword(pw) /\ pass' = [pc |-> pc, pw |-> pw, key |-> secretCache.key]
        BY <1>1, <2>2 DEF Start
      <3>1. creds # NoPass => pw = creds
        BY DEF ChoosePassword
      <3>2. creds = NoPass /\ server.wizard => pw # server.pw
        BY DEF ChoosePassword, PasswordInv, PasswordsAgree, WizardClosedFirst, NoSecret
      <3>3. pass'.pc = pc /\ pass'.pw = pw
        OBVIOUS
      <3> QED
        BY <1>1, <3>1, <3>2, <3>3 DEF Start, PasswordInv, PasswordsAgree,
           WizardClosedFirst, Holding, Calls, WizardSteps
    <2> QED
      BY <2>1, <2>2
  <1>2. CASE Provided \/ CallFails \/ Restart
    BY <1>2, PassOver DEF Provided, CallFails, Restart, Succeeds, Fails
  <1>3. CASE Verify \/ VerifyFails
    <2>1. CASE pass' = IdlePass
      BY <1>3, <2>1, PassOver DEF Verify, VerifyFails
    <2>2. CASE GoTo("wizard")
      <3>1. pass'.pc = "wizard" /\ pass'.pw = pass.pw
        BY <2>2 DEF GoTo, PasswordInv, TypeOK, Pass
      <3> QED
        BY <1>3, <3>1 DEF Verify, VerifyFails, PasswordInv, PasswordsAgree,
           WizardClosedFirst, Holding, Calls, WizardSteps
    <2> QED
      BY <1>3, <2>1, <2>2 DEF Verify, VerifyFails, Succeeds
  <1>4. CASE Wizard \/ WizardFails
    <2> PICK pc \in {"config", "auth"} : GoTo(pc) /\ (pc = "config" => server.wizard)
      BY <1>4 DEF Wizard, WizardFails
    <2>1. pass'.pc = pc /\ pass'.pw = pass.pw
      BY DEF GoTo, PasswordInv, TypeOK, Pass
    <2> QED
      BY <1>4, <2>1 DEF Wizard, WizardFails, PasswordInv, PasswordsAgree,
         WizardClosedFirst, Holding, Calls, WizardSteps
  <1>5. ASSUME NEW step \in {"config", "getUser", "remote"}, NEW after,
               WizardCall(step, after), after.pw = server.pw, after.wizard = server.wizard
        PROVE  PasswordsAgree' /\ WizardClosedFirst'
    <2>1. CASE Fails
      BY <1>5, <2>1, PassOver DEF WizardCall, Fails
    <2>2. CASE GoTo(AfterStep[step])
      <3>1. pass'.pc \in {"getUser", "user", "complete"} /\ pass'.pw = pass.pw
        BY <2>2, WizardOrder DEF GoTo, PasswordInv, TypeOK, Pass
      <3> QED
        BY <1>5, <3>1 DEF WizardCall, PasswordInv, PasswordsAgree,
           WizardClosedFirst, Holding, Calls, WizardSteps
    <2> QED
      BY <1>5, <2>1, <2>2 DEF WizardCall, Answered
  <1>6. CASE SetStartupConfiguration \/ GetStartupUser \/ SetStartupRemoteAccess
    BY <1>5, <1>6 DEF SetStartupConfiguration, GetStartupUser, SetStartupRemoteAccess,
       PasswordInv, TypeOK, Server
  <1>7. CASE CompleteStartup
    <2>1. server'.pw = server.pw /\ ~server'.wizard
      BY <1>7 DEF CompleteStartup, WizardCall, PasswordInv, TypeOK, Server
    <2>2. CASE Fails
      BY <1>7, <2>1, <2>2, PassOver DEF CompleteStartup, WizardCall, Fails
    <2>3. CASE GoTo("auth")
      <3>1. pass'.pc = "auth" /\ pass'.pw = pass.pw
        BY <2>3 DEF GoTo, PasswordInv, TypeOK, Pass
      <3> QED
        BY <1>7, <2>1, <3>1 DEF CompleteStartup, WizardCall, PasswordInv, PasswordsAgree,
           WizardClosedFirst, Holding, Calls, WizardSteps
    <2> QED
      BY <1>7, <2>2, <2>3, WizardOrder DEF CompleteStartup, WizardCall, Answered
  \* The one step that may change the server's password.
  <1>8. CASE CreateStartupUser
    <2>1. CASE pass' = IdlePass /\ UNCHANGED server
      BY <1>8, <2>1, PassOver DEF CreateStartupUser, WizardCall
    <2>2. ASSUME WizardCall("user", server) \/ WizardCall("user", [server EXCEPT !.pw = pass.pw])
          PROVE  PasswordsAgree' /\ WizardClosedFirst'
      <3>1. /\ server.wizard /\ server'.wizard = server.wizard
            /\ server'.pw \in {server.pw, pass.pw} /\ pass.pw # NoPass
        BY <2>2 DEF WizardCall, PasswordInv, PasswordsAgree, WizardClosedFirst, TypeOK,
           Server, Calls, WizardSteps
      <3>2. /\ UNCHANGED <<creds, secret, secretCache>> /\ pass.pc = "user"
            /\ \/ pass' = IdlePass
               \/ pass'.pc = "remote" /\ pass'.pw = pass.pw
        BY <2>2, WizardOrder
        DEF WizardCall, Answered, Fails, GoTo, PasswordInv, TypeOK, Pass
      <3>3. CASE creds = NoPass
        BY <3>1, <3>2, <3>3 DEF PasswordInv, PasswordsAgree, WizardClosedFirst,
           Holding, Calls, WizardSteps, IdlePass
      <3>4. CASE creds # NoPass
        BY <3>1, <3>2, <3>4 DEF PasswordInv, PasswordsAgree, WizardClosedFirst,
           Holding, Calls, WizardSteps, IdlePass
      <3> QED
        BY <3>3, <3>4
    <2> QED
      BY <1>8, <2>1, <2>2 DEF CreateStartupUser, Fails
  <1>9. CASE AuthenticateByName
    <2>1. CASE pass' = IdlePass
      BY <1>9, <2>1, PassOver DEF AuthenticateByName
    <2>2. CASE pass.pw = server.pw /\ GoTo("mint")
      <3>1. pass'.pc = "mint" /\ pass'.pw = pass.pw /\ pass.pc = "auth"
        BY <1>9, <2>2 DEF AuthenticateByName, GoTo, PasswordInv, TypeOK, Pass
      <3> QED
        BY <1>9, <2>2, <3>1 DEF AuthenticateByName, PasswordInv, PasswordsAgree,
           WizardClosedFirst, Holding, Calls, WizardSteps
    <2> QED
      BY <1>9, <2>1, <2>2 DEF AuthenticateByName, Fails
  <1>10. CASE MintKey
    <2>1. server'.pw = server.pw /\ server'.wizard = server.wizard
      BY <1>10 DEF MintKey, PasswordInv, TypeOK, Server
    <2>2. CASE Fails
      BY <1>10, <2>1, <2>2, PassOver DEF MintKey, Fails
    <2>3. CASE GoTo("readKeys")
      <3>1. pass'.pc = "readKeys" /\ pass'.pw = pass.pw /\ pass.pc = "mint"
        BY <1>10, <2>3 DEF MintKey, GoTo, PasswordInv, TypeOK, Pass
      <3> QED
        BY <1>10, <2>1, <3>1 DEF MintKey, PasswordInv, PasswordsAgree,
           WizardClosedFirst, Holding, Calls, WizardSteps
    <2> QED
      BY <1>10, <2>2, <2>3 DEF MintKey, Answered
  <1>11. CASE ReadKeys
    <2>1. CASE pass' = IdlePass
      BY <1>11, <2>1, PassOver DEF ReadKeys
    <2>2. CASE \E k \in server.keys : pass' = [pass EXCEPT !.pc = "persist", !.key = k]
      <3>1. pass'.pc = "persist" /\ pass'.pw = pass.pw /\ pass.pc = "readKeys"
        BY <1>11, <2>2 DEF ReadKeys, PasswordInv, TypeOK, Pass
      <3> QED
        BY <1>11, <3>1 DEF ReadKeys, PasswordInv, PasswordsAgree,
           WizardClosedFirst, Holding, Calls, WizardSteps
    <2> QED
      BY <1>11, <2>1, <2>2 DEF ReadKeys, Fails
  <1>12. CASE Persist
    <2>1. CASE UNCHANGED secret
      BY <1>12, <2>1, PassOver DEF Persist, Fails, Succeeds
    <2>2. CASE secret' = [key |-> pass.key, pw |-> pass.pw] /\ secretCache = secret
      <3>1. secret'.pw = server.pw /\ secret' # NoSecret /\ pass'.pc = "idle"
        BY <1>12, <2>2 DEF Persist, Succeeds, Fails, IdlePass, PasswordInv, PasswordsAgree,
           Holding, NoSecret
      <3> QED
        BY <1>12, <2>2, <3>1 DEF Persist, PasswordInv, PasswordsAgree,
           WizardClosedFirst, Holding, Calls, WizardSteps
    <2> QED
      BY <1>12, <2>1, <2>2 DEF Persist
  <1>13. CASE CacheDeliver
    BY <1>13 DEF CacheDeliver, PasswordInv, PasswordsAgree, WizardClosedFirst
  <1>14. ASSUME NEW k \in Keys, RevokeKey(k) PROVE PasswordsAgree' /\ WizardClosedFirst'
    <2>1. server'.pw = server.pw /\ server'.wizard = server.wizard
      BY <1>14 DEF RevokeKey, PasswordInv, TypeOK, Server
    <2> QED
      BY <1>14, <2>1 DEF RevokeKey, PasswordInv, PasswordsAgree, WizardClosedFirst
  <1>15. CASE UNCHANGED vars
    BY <1>15 DEF vars, PasswordInv, PasswordsAgree, WizardClosedFirst
  <1> QED
    BY <1>1, <1>2, <1>3, <1>4, <1>6, <1>7, <1>8, <1>9, <1>10, <1>11, <1>12, <1>13, <1>14,
       <1>15 DEF Next, PassStep

\* The password in the generated Secret always opens the server, whatever
\* restarts, lost answers, stale reads and revoked keys came before.
THEOREM SecretAlwaysOpensServer == Spec => []SecretOpensServer
  <1>1. PasswordInv => SecretOpensServer
    BY DEF PasswordInv, PasswordsAgree, SecretOpensServer
  <1> QED
    BY <1>1, InitPasswords, NextPasswords, PTL DEF Spec

----------------------------------------------------------------------------
(* Refinement *)

\* A step that changes neither password is a stutter of the abstract system.
LEMMA SamePasswords ==
  ASSUME server'.pw = server.pw, secret'.pw = secret.pw
  PROVE  [Abstract!Next]_<<server.pw, secret.pw>>
  OBVIOUS

\* Every step of the bootstrap is a step of Credentials or a stutter.
LEMMA NextRefines ==
  PasswordInv /\ [Next]_vars => [Abstract!Next]_<<server.pw, secret.pw>>
  <1> SUFFICES ASSUME PasswordInv, [Next]_vars
               PROVE  [Abstract!Next]_<<server.pw, secret.pw>>
    OBVIOUS
  <1>1. CASE \/ Start \/ Provided \/ Verify \/ VerifyFails \/ Wizard \/ WizardFails
             \/ AuthenticateByName \/ ReadKeys \/ CallFails \/ Restart \/ CacheDeliver
             \/ UNCHANGED vars
    <2>1. UNCHANGED <<server, secret>>
      BY <1>1 DEF Start, Provided, Verify, VerifyFails, Wizard, WizardFails,
         AuthenticateByName, ReadKeys, CallFails, Restart, CacheDeliver, vars
    <2> QED
      BY <2>1, SamePasswords
  <1>2. CASE \/ SetStartupConfiguration \/ GetStartupUser \/ SetStartupRemoteAccess
             \/ CompleteStartup \/ MintKey \/ \E k \in Keys : RevokeKey(k)
    <2>1. server'.pw = server.pw /\ UNCHANGED secret
      BY <1>2 DEF SetStartupConfiguration, GetStartupUser, SetStartupRemoteAccess,
         CompleteStartup, MintKey, RevokeKey, WizardCall, PasswordInv, TypeOK, Server
    <2> QED
      BY <2>1, SamePasswords
  \* The account's password changes only while no Secret holds one, or to the
  \* password of credentialsSecret, which it then already has.
  <1>3. CASE CreateStartupUser
    <2>1. UNCHANGED secret
      BY <1>3 DEF CreateStartupUser, WizardCall
    <2>2. CASE server'.pw = server.pw
      BY <2>1, <2>2, SamePasswords
    <2>3. CASE server'.pw # server.pw
      <3>1. pass.pc = "user" /\ server'.pw = pass.pw
        BY <1>3, <2>3 DEF CreateStartupUser, WizardCall, PasswordInv, TypeOK, Server
      <3>2. pass.pw \in Passwords /\ server.wizard
        BY <3>1 DEF PasswordInv, TypeOK, Pass, PasswordsAgree, WizardClosedFirst, Calls,
           WizardSteps
      <3>3. secret.pw = NoPass
        <4>1. CASE creds = NoPass
          BY <3>2, <4>1 DEF PasswordInv, WizardClosedFirst, NoSecret
        <4>2. CASE creds # NoPass
          <5>1. server.pw = NoPass
            BY <2>3, <3>1, <4>2 DEF PasswordInv, PasswordsAgree
          <5> QED
            BY <5>1 DEF PasswordInv, PasswordsAgree, NoSecret
        <4> QED
          BY <4>1, <4>2
      <3> QED
        BY <2>1, <3>1, <3>2, <3>3 DEF Abstract!Next, Abstract!Establish
    <2> QED
      BY <2>2, <2>3
  <1>4. CASE Persist
    <2>1. CASE secret'.pw = secret.pw
      BY <1>4, <2>1, SamePasswords DEF Persist
    <2>2. CASE secret'.pw # secret.pw
      <3>1. /\ secret'.pw = server.pw /\ server.pw # NoPass
            /\ secret = NoSecret \/ secret.pw = server.pw
        BY <1>4, <2>2 DEF Persist, PasswordInv, PasswordsAgree, Holding
      <3>2. secret.pw = NoPass
        BY <2>2, <3>1 DEF NoSecret
      <3> QED
        BY <1>4, <3>1, <3>2 DEF Persist, Abstract!Next, Abstract!Keep
    <2> QED
      BY <2>1, <2>2
  <1> QED
    BY <1>1, <1>2, <1>3, <1>4 DEF Next, PassStep

\* The bootstrap, with all its faults, implements Credentials: the kept password
\* is written once, is the account's, and fixes it.
THEOREM RefinesCredentials == Spec => ImplementsCredentials
  <1>1. Init => Abstract!Init
    <2> SUFFICES ASSUME Init PROVE Abstract!Init
      OBVIOUS
    <2>1. TypeOK
      BY InitTypeOK
    <2> QED
      BY <2>1 DEF Init, NoSecret, TypeOK, Server, Abstract!Init
  <1> QED
    BY <1>1, InitPasswords, NextPasswords, NextRefines, PTL
    DEF Spec, ImplementsCredentials, Abstract!Spec

----------------------------------------------------------------------------
(* What a lost password means *)

\* The window in which the admin password can be lost: a password of
\* credentialsSecret never is, and a generated one only before the Secret holds it.
THEOREM OnlyUnsavedIsLost == Spec => [](PasswordLost => creds = NoPass /\ secret = NoSecret)
  <1>1. PasswordInv => (PasswordLost => creds = NoPass /\ secret = NoSecret)
    BY DEF PasswordInv, PasswordsAgree, PasswordLost
  <1> QED
    BY <1>1, InitPasswords, NextPasswords, PTL DEF Spec

\* A password lost when the wizard is over is lost for good: every later pass of
\* ensureCredentials draws another one and nothing can set it in the server.
THEOREM LossIsFinal ==
  Spec => [][PasswordLost /\ ~server.wizard => PasswordLost' /\ ~server.wizard']_vars
  <1>1. ASSUME PasswordInv, [Next]_vars, PasswordLost, ~server.wizard
        PROVE  PasswordLost' /\ ~server'.wizard
    <2>1. /\ creds = NoPass /\ secret = NoSecret /\ secretCache = NoSecret
          /\ server.pw # NoPass /\ server \in Server /\ pass \in Pass
      BY <1>1 DEF PasswordInv, PasswordsAgree, PasswordLost, TypeOK
    <2>2. pass.pc \notin Holding \cup WizardSteps
      BY <1>1 DEF PasswordInv, PasswordsAgree, WizardClosedFirst, PasswordLost
    <2>3. /\ server'.pw = server.pw /\ ~server'.wizard /\ UNCHANGED <<creds, secret>>
      <3>1. CASE UNCHANGED <<server, creds, secret>>
        BY <1>1, <3>1
      <3>2. ASSUME NEW k \in Keys, RevokeKey(k)
            PROVE  server'.pw = server.pw /\ ~server'.wizard /\ UNCHANGED <<creds, secret>>
        BY <1>1, <2>1, <3>2 DEF RevokeKey, Server
      <3>3. CASE \/ SetStartupConfiguration \/ GetStartupUser \/ CreateStartupUser
                 \/ SetStartupRemoteAccess \/ CompleteStartup \/ MintKey \/ Persist
        BY <2>2, <3>3
        DEF SetStartupConfiguration, GetStartupUser, CreateStartupUser, SetStartupRemoteAccess,
            CompleteStartup, MintKey, Persist, WizardCall, Holding, WizardSteps
      <3> QED
        BY <1>1, <3>1, <3>2, <3>3
        DEF Next, PassStep, Start, Provided, Verify, VerifyFails, Wizard, WizardFails,
            AuthenticateByName, ReadKeys, CallFails, Restart, CacheDeliver, vars
    <2>4. pass'.pw # server.pw
      <3>1. CASE Start
        <4>1. CASE pass' = IdlePass
          BY <2>1, <4>1 DEF IdlePass
        <4>2. CASE pass' = [IdlePass EXCEPT !.pc = "provided", !.pw = creds]
          BY <2>1, <4>2 DEF IdlePass
        <4>3. ASSUME NEW pw \in Passwords, ChoosePassword(pw),
                     pass' = [pc |-> IF secretCache.key # NoKey THEN "verify" ELSE "wizard",
                              pw |-> pw, key |-> secretCache.key]
              PROVE  pass'.pw # server.pw
          BY <2>1, <4>3 DEF ChoosePassword, NoSecret
        <4> QED
          BY <3>1, <4>1, <4>2, <4>3 DEF Start, Succeeds
      <3>2. CASE pass' = IdlePass
        BY <2>1, <3>2 DEF IdlePass
      <3>3. CASE pass'.pw = pass.pw
        BY <1>1, <3>3 DEF PasswordLost
      <3>4. CASE Provided \/ Verify \/ VerifyFails \/ Wizard \/ WizardFails
                 \/ AuthenticateByName \/ ReadKeys
        BY <2>1, <3>2, <3>3, <3>4
        DEF Provided, Verify, VerifyFails, Wizard, WizardFails, AuthenticateByName, ReadKeys,
            Succeeds, Fails, GoTo, Pass
      <3>5. CASE \/ SetStartupConfiguration \/ GetStartupUser \/ CreateStartupUser
                 \/ SetStartupRemoteAccess \/ CompleteStartup \/ MintKey \/ Persist
        BY <2>2, <3>5
        DEF SetStartupConfiguration, GetStartupUser, CreateStartupUser, SetStartupRemoteAccess,
            CompleteStartup, MintKey, Persist, WizardCall, Holding, WizardSteps
      <3> QED
        BY <1>1, <3>1, <3>2, <3>3, <3>4, <3>5
        DEF Next, PassStep, CallFails, Restart, CacheDeliver, RevokeKey, Fails, vars
    <2> QED
      BY <1>1, <2>1, <2>3, <2>4 DEF PasswordLost
  <1>2. PasswordInv /\ [Next]_vars =>
          [PasswordLost /\ ~server.wizard => PasswordLost' /\ ~server.wizard']_vars
    BY <1>1
  <1> QED
    BY <1>2, InitPasswords, NextPasswords, PTL DEF Spec
=============================================================================
