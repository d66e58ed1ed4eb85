--------------------------- MODULE CredentialsProofs ---------------------------
(***************************************************************************)
(* Proofs about Credentials, for any number of game servers, requests,     *)
(* tokens, sessions and faults.                                            *)
(***************************************************************************)
EXTENDS Credentials, TLAPS

-------------------------------------------------------------------------------
(* Type correctness *)

\* What the operator and the clock do keeps the types.
LEMMA TypeOperator ==
  ASSUME TypeOK,
         \/ \E t \in Tokens : IssueEnrollmentToken(t) \/ ExpireToken(t)
         \/ RevokeCredentials
  PROVE  TypeOK'
<1> USE DEF TypeOK, serverVars, tokenVars, pluginVars
<1>1. ASSUME NEW t \in Tokens, IssueEnrollmentToken(t) PROVE TypeOK'
  BY <1>1 DEF IssueEnrollmentToken
<1>2. ASSUME NEW t \in Tokens, ExpireToken(t) PROVE TypeOK'
  BY <1>2 DEF ExpireToken
<1>3. CASE RevokeCredentials
  BY <1>3, BoundsAssumption DEF RevokeCredentials, EndSessions, Fault, HasSecret
<1>4. QED
  BY <1>1, <1>2, <1>3

\* An enrollment keeps the types.
LEMMA TypeEnroll ==
  ASSUME TypeOK, NEW e \in Enrolls, EnrollStep(e) \/ VanishEnroll(e)
  PROVE  TypeOK'
<1> USE DEF TypeOK, serverVars, tokenVars, pluginVars, ToStage, EnrollStages
<1>1. CASE ReadToken(e)
  BY <1>1 DEF ReadToken
<1>2. CASE Install(e)
  BY <1>2 DEF Install, EndSessions
<1>3. CASE LoseBurn(e)
  BY <1>3 DEF LoseBurn
<1>4. CASE VanishEnroll(e)
  BY <1>4 DEF VanishEnroll
<1>5. QED
  BY <1>1, <1>2, <1>3, <1>4 DEF EnrollStep

\* A session request or a call keeps the types.
LEMMA TypeHub ==
  ASSUME TypeOK, NEW q \in Slots, HubStep(q) \/ Vanish(q)
  PROVE  TypeOK'
<1> DEFINE Rest == <<tokenVars, serverVars, enroll, pluginVars, faults>>
<1>1. ASSUME NEW stage \in Stages, MoveTo(q, stage), UNCHANGED Rest PROVE TypeOK'
  <2>1. request' \in [Slots -> [stage: Stages, secret: Enrolls \cup {Nobody}, sess: 0..used]]
    BY <1>1 DEF TypeOK, MoveTo
  <2>2. QED
    BY <1>1, <2>1 DEF TypeOK, serverVars, tokenVars, pluginVars
<1>2. CASE MatchSecret(q) \/ CheckRevoked(q) \/ FindSession(q) \/ Admit(q) \/ Serve(q)
  <2>1. PICK stage \in {"matched", "refused", "authentic", "found", "invalid", "admitted",
                        "served"} : MoveTo(q, stage)
    BY <1>2 DEF MatchSecret, CheckRevoked, FindSession, Admit, Serve
  <2>2. stage \in Stages
    BY DEF Stages
  <2>3. UNCHANGED Rest
    BY <1>2 DEF MatchSecret, CheckRevoked, FindSession, Admit, Serve
  <2>4. QED
    BY <1>1, <2>1, <2>2, <2>3
<1> USE DEF TypeOK, serverVars, tokenVars, pluginVars, Stages
<1>3. CASE StartSession(q)
  <2>1. used + 1 \in Sessions /\ used + 1 \in 0..MaxSessions
    BY <1>3, BoundsAssumption DEF StartSession, Sessions
  <2>2. 1..used \subseteq 1..(used + 1) /\ 0..used \subseteq 0..(used + 1)
    OBVIOUS
  <2>3. request' \in [Slots -> [stage: Stages, secret: Enrolls \cup {Nobody},
                                sess: 0..used']]
    <3> DEFINE R(n) == [stage: Stages, secret: Enrolls \cup {Nobody}, sess: 0..n]
    <3>1. \A r \in R(used) : r \in R(used + 1)
      BY <2>2
    <3>2. request' = [request EXCEPT ![q] = [stage |-> "started", secret |-> request[q].secret,
                                             sess |-> used + 1]]
      BY <1>3 DEF StartSession
    <3>3. request'[q] \in R(used + 1)
      BY <2>1, <3>2
    <3>4. QED
      BY <1>3, <3>1, <3>2, <3>3 DEF StartSession
  <2>4. origin' \in [Sessions -> Enrolls \cup {Nobody}]
    <3>1. origin' = [origin EXCEPT ![used + 1] = request[q].secret]
      BY <1>3 DEF StartSession
    <3>2. request[q].secret \in Enrolls \cup {Nobody}
      OBVIOUS
    <3>3. QED
      BY <3>1, <3>2
  <2>5. used' \in 0..MaxSessions
    BY <1>3, <2>1 DEF StartSession
  <2>6. ended' \subseteq 1..used'
    BY <1>3, <2>2 DEF StartSession, EndsAll
  <2>7. session' \in [Plugins -> 0..used']
    BY <1>3, <2>2 DEF StartSession
  <2>8. QED
    BY <1>3, <2>3, <2>4, <2>5, <2>6, <2>7 DEF StartSession
<1>4. CASE Vanish(q)
  BY <1>4 DEF Vanish, NoRequest, None
<1>5. QED
  BY <1>2, <1>3, <1>4 DEF HubStep

\* A game server keeps the types.
LEMMA TypePlugin ==
  ASSUME TypeOK, NEW p \in Plugins,
         PluginStep(p) \/ GiveUp(p) \/ \E t \in Tokens : Boot(p, t)
  PROVE  TypeOK'
<1> USE BoundsAssumption
    DEF TypeOK, serverVars, tokenVars, pluginVars, EnrollStages, Stages, Fault
<1>1. ASSUME NEW e \in Enrolls, SendEnroll(p, e) PROVE TypeOK'
  BY <1>1 DEF SendEnroll
<1>2. ASSUME NEW q \in Slots, SendRequest(p, q) PROVE TypeOK'
  BY <1>2 DEF SendRequest
<1>3. CASE TakeEnrolled(p)
  BY <1>3 DEF TakeEnrolled
<1>4. CASE TakeEnrollRefused(p)
  BY <1>4 DEF TakeEnrollRefused, ToStage
<1>5. CASE TakeAnswer(p)
  <2>1. SessionAfter(asked[p]) \in 0..used
    BY <1>5 DEF TakeAnswer, SessionAfter, None
  <2>2. QED
    BY <1>5, <2>1 DEF TakeAnswer, NoRequest, None
<1>6. CASE GiveUp(p)
  BY <1>6 DEF GiveUp
<1>7. ASSUME NEW t \in Tokens, Boot(p, t) PROVE TypeOK'
  BY <1>7 DEF Boot, None
<1>8. QED
  BY <1>1, <1>2, <1>3, <1>4, <1>5, <1>6, <1>7 DEF PluginStep

\* Every variable keeps its type.
THEOREM CredentialTypes == Spec => []TypeOK
<1>1. Init => TypeOK
  <2>1. 0 \in 0..MaxSessions /\ 0 \in 0..MaxFaults
    BY BoundsAssumption
  <2>2. NoRequest \in [stage: Stages, secret: Enrolls \cup {Nobody}, sess: 0..0]
    BY DEF NoRequest, None, Stages
  <2> SUFFICES ASSUME Init PROVE TypeOK
    OBVIOUS
  <2> USE DEF Init
  <2>3. ended \subseteq 1..used /\ used \in 0..MaxSessions /\ faults \in 0..MaxFaults
    BY <2>1
  <2>4. request \in [Slots -> [stage: Stages, secret: Enrolls \cup {Nobody}, sess: 0..used]]
    BY <2>2
  <2>5. enroll \in [Enrolls -> [stage: EnrollStages, token: Tokens \cup {None}]]
    BY DEF EnrollStages
  <2>6. session \in [Plugins -> 0..used]
    BY DEF None
  <2>7. QED
    BY <2>3, <2>4, <2>5, <2>6 DEF TypeOK
<1>2. TypeOK /\ [Next]_vars => TypeOK'
  <2> SUFFICES ASSUME TypeOK, [Next]_vars PROVE TypeOK'
    OBVIOUS
  <2>1. CASE UNCHANGED vars
    BY <2>1 DEF vars, tokenVars, serverVars, pluginVars, TypeOK
  <2>2. QED
    BY <2>1, TypeOperator, TypeEnroll, TypeHub, TypePlugin DEF Next
<1>3. QED
  BY <1>1, <1>2, PTL DEF Spec

-------------------------------------------------------------------------------
(* The inductive invariant *)

\* Tokens are issued in order, and an unused one is the latest.
TokensInOrder ==
  \A t, u \in Tokens :
    t < u /\ token[t] \in {"unissued", "unused"} => token[u] = "unissued"

\* A config file names an issued token, and an enroll request carries one.
TokensAreIssued ==
  /\ \A p \in Plugins : config[p] # None => token[config[p]] # "unissued"
  /\ \A e \in Enrolls : enroll[e].stage # "unsent" =>
       enroll[e].token \in Tokens /\ token[enroll[e].token] # "unissued"

\* An installed secret burned its token, and is the secret or was replaced
\* through a later one.
InstalledBurned ==
  \A e \in Enrolls : enroll[e].stage = "installed" =>
    /\ token[enroll[e].token] = "used"
    /\ \/ e = secret
       \/ \E t \in Tokens : t > enroll[e].token /\ token[t] # "unissued"

\* Secrets that anyone holds were installed.
SecretsInstalled ==
  /\ secret # Nobody => enroll[secret].stage = "installed"
  /\ \A p \in Plugins : \A c \in {creds[p], disk[p]} \ {Nobody} :
       enroll[c].stage = "installed"

TokenInv ==
  TokensInOrder /\ TokensAreIssued /\ InstalledBurned /\ SecretsInstalled
  /\ OneSecretPerToken

\* Only the last session started may be live.
OlderEnded == \A s \in 1..used : s < used => s \in ended

\* A call was admitted before the revocation, which ended its session.
AdmittedQuiet ==
  \A q \in Slots :
    request[q].stage = "admitted" /\ request[q].sess \in LiveSessions => ~revoked

SessionInv == OlderEnded /\ AdmittedQuiet

Inductive == TokenInv /\ SessionInv

\* What an operator does to the tokens and the secret keeps TokenInv.
LEMMA TokensOperator ==
  ASSUME TypeOK, TokenInv,
         \/ \E t \in Tokens : IssueEnrollmentToken(t) \/ ExpireToken(t)
         \/ RevokeCredentials
  PROVE  TokenInv'
<1> USE DEF TokenInv
<1>1. ASSUME NEW t \in Tokens, IssueEnrollmentToken(t) PROVE TokenInv'
  <2> USE <1>1 DEF IssueEnrollmentToken, TypeOK, serverVars, pluginVars, Tokens
  <2>1. TokensInOrder'
    BY DEF TokensInOrder
  <2>2. \A u \in Tokens : /\ token[u] # "unissued" => token'[u] # "unissued"
                          /\ token[u] = "used" => token'[u] = "used"
    OBVIOUS
  <2>3. TokensAreIssued'
    BY <2>2 DEF TokensAreIssued, None
  <2>4. InstalledBurned'
    BY <2>2 DEF InstalledBurned, TokensAreIssued
  <2>5. SecretsInstalled' /\ OneSecretPerToken'
    BY DEF SecretsInstalled, OneSecretPerToken
  <2>6. QED
    BY <2>1, <2>3, <2>4, <2>5
<1>2. ASSUME NEW t \in Tokens, ExpireToken(t) PROVE TokenInv'
  BY <1>2 DEF ExpireToken, TokensInOrder, TokensAreIssued, InstalledBurned,
              SecretsInstalled, OneSecretPerToken, serverVars, pluginVars
<1>3. CASE RevokeCredentials
  BY <1>3 DEF RevokeCredentials, TokensInOrder, TokensAreIssued, InstalledBurned,
              SecretsInstalled, OneSecretPerToken, tokenVars, pluginVars
<1>4. QED
  BY <1>1, <1>2, <1>3

\* A request that changes stage short of "installed" keeps TokenInv.
LEMMA TokensStage ==
  ASSUME TypeOK, TokenInv, NEW e \in Enrolls, NEW stage \in EnrollStages \ {"installed"},
         enroll[e].stage \in {"sent", "read", "refused"}, ToStage(e, stage),
         UNCHANGED <<token, secret, config, creds, disk>>
  PROVE  TokenInv'
<1> USE DEF TypeOK, TokenInv, ToStage, EnrollStages
<1>1. \A f \in Enrolls : /\ enroll'[f].token = enroll[f].token
                         /\ enroll'[f].stage = "installed" <=> enroll[f].stage = "installed"
                         /\ enroll[f].stage = "unsent" => enroll'[f].stage = "unsent"
  OBVIOUS
<1>2. TokensInOrder' /\ TokensAreIssued'
  BY <1>1 DEF TokensInOrder, TokensAreIssued
<1>3. InstalledBurned'
  BY <1>1 DEF InstalledBurned
<1>4. SecretsInstalled' /\ OneSecretPerToken'
  BY <1>1 DEF SecretsInstalled, OneSecretPerToken
<1>5. QED
  BY <1>2, <1>3, <1>4

\* The secret it replaces came from an earlier token: the one that is burned
\* was unused, hence the latest.
LEMMA TokensInstall ==
  ASSUME TypeOK, TokenInv, NEW e \in Enrolls, Install(e)
  PROVE  /\ TokenInv'
         /\ \A t \in Tokens : t > enroll'[secret'].token => token'[t] = "unissued"
<1> DEFINE b == enroll[e].token
<1> USE DEF TypeOK, TokenInv, Install, ToStage, StillUnused
<1>1. b \in Tokens /\ token[b] = "unused" /\ token' = [token EXCEPT ![b] = "used"]
  BY DEF TokensAreIssued
<1>2. \A t \in Tokens : t > b => token'[t] = "unissued"
  BY <1>1 DEF TokensInOrder, Tokens
<1>3. /\ enroll'[e].stage = "installed" /\ secret' = e
      /\ \A f \in Enrolls : /\ enroll'[f].token = enroll[f].token
                            /\ f # e => enroll'[f] = enroll[f]
  OBVIOUS
<1>4. \A f \in Enrolls : f # e /\ enroll[f].stage = "installed" =>
        enroll[f].token \in Tokens /\ enroll[f].token < b
  BY <1>1 DEF InstalledBurned, TokensAreIssued, TokensInOrder, Tokens
<1>5. TokensInOrder'
  BY <1>1, <1>2 DEF TokensInOrder, Tokens
<1>6. TokensAreIssued'
  BY <1>1, <1>3 DEF TokensAreIssued, pluginVars
<1>7. InstalledBurned'
  BY <1>1, <1>3, <1>4 DEF InstalledBurned
<1>8. SecretsInstalled'
  BY <1>3 DEF SecretsInstalled, pluginVars
<1>9. OneSecretPerToken'
  BY <1>1, <1>3, <1>4 DEF OneSecretPerToken, Tokens
<1>10. QED
  BY <1>2, <1>3, <1>5, <1>6, <1>7, <1>8, <1>9

\* A game server asks with an issued token and keeps installed secrets.
LEMMA TokensPlugin ==
  ASSUME TypeOK, TokenInv, NEW p \in Plugins,
         PluginStep(p) \/ GiveUp(p) \/ \E t \in Tokens : Boot(p, t)
  PROVE  TokenInv'
<1> USE DEF TypeOK, TokenInv, tokenVars, serverVars
<1>1. ASSUME NEW e \in Enrolls, SendEnroll(p, e) PROVE TokenInv'
  <2> USE <1>1 DEF SendEnroll, None
  <2>1. \A f \in Enrolls : enroll'[f].stage = "installed" \/ enroll[f].stage = "installed" =>
          enroll'[f] = enroll[f]
    OBVIOUS
  <2>2. TokensInOrder' /\ TokensAreIssued'
    BY DEF TokensInOrder, TokensAreIssued
  <2>3. InstalledBurned'
    BY <2>1 DEF InstalledBurned
  <2>4. SecretsInstalled' /\ OneSecretPerToken'
    BY <2>1 DEF SecretsInstalled, OneSecretPerToken
  <2>5. QED
    BY <2>2, <2>3, <2>4
<1>2. CASE TakeEnrolled(p)
  BY <1>2 DEF TakeEnrolled, TokensInOrder, TokensAreIssued, InstalledBurned, SecretsInstalled,
              OneSecretPerToken
<1>3. CASE TakeEnrollRefused(p)
  BY <1>3, TokensStage DEF TakeEnrollRefused, EnrollStages
<1>4. ASSUME NEW t \in Tokens, Boot(p, t) PROVE TokenInv'
  <2>1. TokensAreIssued'
    BY <1>4 DEF Boot, TokensAreIssued
  <2>2. SecretsInstalled'
    BY <1>4 DEF Boot, SecretsInstalled
  <2>3. QED
    BY <1>4, <2>1, <2>2 DEF Boot, TokensInOrder, InstalledBurned, OneSecretPerToken
<1>5. CASE (\E q \in Slots : SendRequest(p, q)) \/ TakeAnswer(p) \/ GiveUp(p)
  BY <1>5 DEF SendRequest, TakeAnswer, GiveUp, TokensInOrder, TokensAreIssued,
              InstalledBurned, SecretsInstalled, OneSecretPerToken
<1>6. QED
  BY <1>1, <1>2, <1>3, <1>4, <1>5 DEF PluginStep

\* Every step keeps TokenInv.
LEMMA TokensNext ==
  ASSUME TypeOK, TokenInv, [Next]_vars
  PROVE  TokenInv'
<1>1. ASSUME NEW e \in Enrolls, EnrollStep(e) \/ VanishEnroll(e) PROVE TokenInv'
  <2>1. CASE ReadToken(e)
    BY <2>1, TokensStage
       DEF ReadToken, EnrollStages, tokenVars, serverVars, pluginVars
  <2>2. CASE LoseBurn(e) \/ VanishEnroll(e)
    BY <2>2, TokensStage
       DEF LoseBurn, VanishEnroll, EnrollStages, tokenVars, serverVars, pluginVars
  <2>3. QED
    BY <1>1, <2>1, <2>2, TokensInstall DEF EnrollStep
<1>2. CASE UNCHANGED vars \/ \E q \in Slots : HubStep(q) \/ Vanish(q)
  <2>1. UNCHANGED <<token, secret, enroll, config, creds, disk>>
    BY <1>2 DEF vars, HubStep, MatchSecret, CheckRevoked, StartSession, FindSession, Admit,
                Serve, Vanish, tokenVars, serverVars, pluginVars
  <2>2. QED
    BY <2>1 DEF TokenInv, TokensInOrder, TokensAreIssued, InstalledBurned, SecretsInstalled,
                OneSecretPerToken
<1>3. QED
  BY <1>1, <1>2, TokensOperator, TokensPlugin DEF Next

\* Every step keeps SessionInv.
LEMMA SessionsNext ==
  ASSUME TypeOK, SessionInv, [Next]_vars
  PROVE  SessionInv'
<1> USE DEF SessionInv
<1>1. CASE UNCHANGED <<revoked, used, ended, request>>
  BY <1>1 DEF OlderEnded, AdmittedQuiet, LiveSessions
<1>2. CASE RevokeCredentials \/ \E e \in Enrolls : Install(e)
  <2>1. used' = used /\ ended' = 1..used
    BY <1>2 DEF RevokeCredentials, Install, EndSessions
  <2>2. QED
    BY <2>1 DEF OlderEnded, AdmittedQuiet, LiveSessions
<1>3. ASSUME NEW q \in Slots, StartSession(q) PROVE SessionInv'
  <2>1. LiveSessions' \subseteq {used + 1} /\ OlderEnded'
    BY <1>3 DEF StartSession, EndsAll, LiveSessions, OlderEnded, TypeOK
  <2>2. \A r \in Slots : request'[r].stage = "admitted" => request'[r].sess \in 0..used
    BY <1>3 DEF StartSession, TypeOK
  <2>3. used + 1 \notin 0..used
    BY DEF TypeOK
  <2>4. QED
    BY <2>1, <2>2, <2>3 DEF AdmittedQuiet
<1>4. ASSUME NEW q \in Slots, UNCHANGED <<revoked, used, ended>>,
             \A r \in Slots : r # q => request'[r] = request[r],
             request'[q].stage = "admitted" => ~revoked
      PROVE  SessionInv'
  BY <1>4 DEF OlderEnded, AdmittedQuiet, LiveSessions
<1>5. ASSUME NEW q \in Slots,
             \/ MatchSecret(q) \/ CheckRevoked(q) \/ FindSession(q) \/ Admit(q)
             \/ Serve(q) \/ Vanish(q)
      PROVE  SessionInv'
  <2>1. /\ UNCHANGED <<revoked, used, ended>>
        /\ \A r \in Slots : r # q => request'[r] = request[r]
    BY <1>5 DEF MatchSecret, CheckRevoked, FindSession, Admit, Serve, Vanish, MoveTo,
                serverVars, TypeOK
  <2>2. request'[q].stage = "admitted" => ~revoked
    BY <1>5 DEF MatchSecret, CheckRevoked, FindSession, Admit, NotRevoked, Serve, Vanish,
                NoRequest, MoveTo, TypeOK
  <2>3. QED
    BY <1>4, <2>1, <2>2
<1>6. ASSUME NEW p \in Plugins, PluginStep(p) PROVE SessionInv'
  <2>1. ASSUME NEW q \in Slots, SendRequest(p, q) PROVE SessionInv'
    BY <1>4, <2>1 DEF SendRequest, serverVars, TypeOK
  <2>2. CASE TakeAnswer(p)
    BY <1>4, <2>2 DEF TakeAnswer, NoRequest, serverVars, TypeOK
  <2>3. CASE TakeEnrolled(p) \/ TakeEnrollRefused(p) \/ \E e \in Enrolls : SendEnroll(p, e)
    BY <1>1, <2>3 DEF TakeEnrolled, TakeEnrollRefused, SendEnroll, serverVars
  <2>4. QED
    BY <1>6, <2>1, <2>2, <2>3 DEF PluginStep
<1>7. CASE \/ \E t \in Tokens : IssueEnrollmentToken(t) \/ ExpireToken(t)
           \/ \E e \in Enrolls : ReadToken(e) \/ LoseBurn(e) \/ VanishEnroll(e)
           \/ \E p \in Plugins : GiveUp(p) \/ \E t \in Tokens : Boot(p, t)
           \/ UNCHANGED vars
  BY <1>1, <1>7 DEF IssueEnrollmentToken, ExpireToken, ReadToken, LoseBurn, VanishEnroll,
                    GiveUp, Boot, vars, serverVars
<1>8. QED
  BY <1>2, <1>3, <1>5, <1>6, <1>7 DEF Next, EnrollStep, HubStep

\* Everything the other theorems need of a reachable state.
THEOREM CredentialsInductive == Spec => []Inductive
<1>1. Init => Inductive
  <2> SUFFICES ASSUME Init PROVE Inductive
    OBVIOUS
  <2>1. TokenInv
    BY DEF Init, TokenInv, TokensInOrder, TokensAreIssued, InstalledBurned, SecretsInstalled,
           OneSecretPerToken
  <2>2. SessionInv
    BY DEF Init, SessionInv, OlderEnded, AdmittedQuiet, NoRequest
  <2>3. QED
    BY <2>1, <2>2 DEF Inductive
<1>2. TypeOK /\ Inductive /\ [Next]_vars => Inductive'
  BY TokensNext, SessionsNext DEF Inductive
<1>3. QED
  BY <1>1, <1>2, CredentialTypes, PTL DEF Spec

-------------------------------------------------------------------------------
(* What it gives *)

\* However enrollments race or retry, a token installs one secret (the guard
\* of the burn in Enroll).
THEOREM TokensBurnOnce == Spec => []OneSecretPerToken
<1>1. Inductive => OneSecretPerToken
  BY DEF Inductive, TokenInv
<1>2. QED
  BY <1>1, CredentialsInductive, PTL

\* At most one session is live, whatever starts together (StartSession).
THEOREM SessionsSupersede == Spec => []OneLiveSession
<1>1. TypeOK /\ Inductive => OneLiveSession
  BY DEF TypeOK, Inductive, SessionInv, OlderEnded, OneLiveSession, LiveSessions
<1>2. QED
  BY <1>1, CredentialTypes, CredentialsInductive, PTL

\* A stored secret is the installed one unless a later token was issued, so a
\* lost answer or a failed save never leaves a server with a useless secret
\* of the latest token.
THEOREM HeldSecretsFit == Spec => []CredentialsFit
<1>1. TypeOK /\ Inductive => CredentialsFit
  <2> SUFFICES ASSUME TypeOK, Inductive, NEW p \in Plugins,
                      NEW c \in {creds[p], disk[p]} \ {Nobody}
               PROVE  c = secret \/ \E t \in Tokens : t > enroll[c].token /\ token[t] # "unissued"
    BY DEF CredentialsFit
  <2>1. QED
    BY DEF Inductive, TokenInv, SecretsInstalled, InstalledBurned, TypeOK
<1>2. QED
  BY <1>1, CredentialTypes, CredentialsInductive, PTL

\* Only the latest token enrolls, even for an enrollment that read its token
\* before it was replaced (Enroll against IssueEnrollmentToken).
THEOREM LatestTokenEnrolls == Spec => OnlyLatestEnrolls
<1>1. TypeOK /\ Inductive /\ [Next]_vars =>
        [secret' # secret =>
           \A t \in Tokens : t > enroll[secret'].token => token[t] = "unissued"]_vars
  <2> SUFFICES ASSUME TypeOK, Inductive, Next, secret' # secret
               PROVE  \A t \in Tokens : t > enroll[secret'].token => token[t] = "unissued"
    OBVIOUS
  <2>1. PICK e \in Enrolls : Install(e)
    BY DEF Next, EnrollStep, HubStep, PluginStep, IssueEnrollmentToken, ExpireToken,
           RevokeCredentials, ReadToken, LoseBurn, VanishEnroll, MatchSecret, CheckRevoked,
           StartSession, FindSession, Admit, Serve, Vanish, SendEnroll, SendRequest,
           TakeEnrolled, TakeEnrollRefused, TakeAnswer, GiveUp, Boot, serverVars
  <2>2. secret' = e /\ enroll[e].token \in Tokens /\ token[enroll[e].token] = "unused"
    BY <2>1 DEF Install, StillUnused, Inductive, TokenInv, TokensAreIssued
  <2>3. QED
    BY <2>2 DEF Inductive, TokenInv, TokensInOrder, Tokens
<1>2. QED
  BY <1>1, CredentialTypes, CredentialsInductive, PTL DEF Spec, OnlyLatestEnrolls

\* No call changes anything while the credentials are revoked: neither one
\* admitted before nor one on a session that a request authenticated before
\* the revocation started after it (authenticateSession, liveSessionSeq).
THEOREM RevocationSilences == Spec => RevokedMeansSilent
<1>1. TypeOK /\ Inductive /\ [Next]_vars =>
        [\A q \in Slots :
           request[q].stage = "admitted" /\ request'[q].stage = "served" => ~revoked]_vars
  <2> SUFFICES ASSUME TypeOK, Inductive, Next, NEW q \in Slots,
                      request[q].stage = "admitted", request'[q].stage = "served"
               PROVE  ~revoked
    OBVIOUS
  <2>1. ASSUME NEW r \in Slots, HubStep(r) \/ Vanish(r) PROVE Serve(q)
    BY <2>1 DEF HubStep, MatchSecret, CheckRevoked, StartSession, FindSession, Admit, Serve,
                Vanish, NoRequest, MoveTo, TypeOK
  <2>2. ASSUME NEW p \in Plugins, PluginStep(p) PROVE FALSE
    BY <2>2 DEF PluginStep, SendEnroll, SendRequest, TakeEnrolled, TakeEnrollRefused,
                TakeAnswer, NoRequest, TypeOK
  <2>3. Serve(q)
    BY <2>1, <2>2 DEF Next, IssueEnrollmentToken, ExpireToken, RevokeCredentials, EnrollStep,
                      ReadToken, Install, LoseBurn, VanishEnroll, GiveUp, Boot
  <2>4. request[q].sess \in LiveSessions
    BY <2>3 DEF Serve, MoveTo, TypeOK
  <2>5. QED
    BY <2>4 DEF Inductive, SessionInv, AdmittedQuiet
<1>2. QED
  BY <1>1, CredentialTypes, CredentialsInductive, PTL DEF Spec, RevokedMeansSilent

-------------------------------------------------------------------------------
(* Whose secret and whose session *)

Holds(p) == {creds[p], disk[p]} \ {Nobody}

\* A plugin waits for a request that is there, alone, and enrolls only while it
\* has no credentials.
WaitsForSome ==
  \A p \in Plugins :
    /\ asked[p] \in Slots => request[asked[p]].stage # "none" /\ creds[p] # Nobody
    /\ asked[p] \in Enrolls => enroll[asked[p]].stage # "unsent" /\ creds[p] = Nobody
    /\ \A o \in Plugins : asked[o] = asked[p] /\ asked[p] # Nobody => o = p

\* No two plugins hold one secret, or will.
SecretsApart ==
  \A p, o \in Plugins : p # o =>
    \A c \in Holds(p) : c \notin Holds(o) /\ c # asked[o]

\* The session a plugin calls on was started with the secret it holds.
SessionsHeld ==
  \A p \in Plugins : session[p] # None => creds[p] # Nobody /\ origin[session[p]] = creds[p]

\* What a plugin asks carries its own secret or its own session, and a session
\* started for it was started with its secret.
CallsFit ==
  \A p \in Plugins : asked[p] \in Slots =>
    /\ request[asked[p]].stage \in {"asked", "matched", "authentic"} =>
         request[asked[p]].secret = creds[p]
    /\ request[asked[p]].stage = "started" =>
         request[asked[p]].sess # None /\ origin[request[asked[p]].sess] = creds[p]
    /\ request[asked[p]].stage \in {"sent", "found", "admitted", "served"} =>
         request[asked[p]].sess = session[p]

Own == WaitsForSome /\ SecretsApart /\ SessionsHeld /\ CallsFit

\* No two plugins hold one secret or call on one session, and a session is
\* called on with the secret it was started with.
SessionsAreOwn ==
  \A p, o \in Plugins :
    /\ session[p] # None => creds[p] # Nobody /\ origin[session[p]] = creds[p]
    /\ p # o /\ session[p] # None => session[o] # session[p]
    /\ p # o => Holds(p) \cap Holds(o) = {}

\* The operator, and the enrollments the hub runs.
LEMMA OwnEnrollments ==
  ASSUME TypeOK, Own, UNCHANGED <<request, creds, disk, session, asked, origin>>,
         \A p \in Plugins : asked[p] \in Enrolls => enroll'[asked[p]].stage # "unsent"
  PROVE  Own'
<1>1. WaitsForSome'
  BY DEF Own, WaitsForSome
<1>2. SecretsApart' /\ SessionsHeld' /\ CallsFit'
  BY DEF Own, SecretsApart, Holds, SessionsHeld, CallsFit
<1>3. QED
  BY <1>1, <1>2 DEF Own

LEMMA OwnHub ==
  ASSUME TypeOK, Own, NEW q \in Slots, HubStep(q) \/ Vanish(q)
  PROVE  Own'
<1>0. /\ request \in [Slots -> [stage: Stages, secret: Enrolls \cup {Nobody}, sess: 0..used]]
      /\ session \in [Plugins -> 0..used] /\ used \in Nat
      /\ origin \in [Sessions -> Enrolls \cup {Nobody}]
  BY BoundsAssumption DEF TypeOK
<1>1. UNCHANGED <<enroll, creds, disk, session, asked>>
  BY DEF HubStep, Vanish, MatchSecret, CheckRevoked, StartSession, FindSession, Admit, Serve,
         pluginVars
<1>2. \A r \in Slots : r # q => request'[r] = request[r]
  BY <1>0 DEF HubStep, Vanish, MatchSecret, CheckRevoked, StartSession, FindSession, Admit, Serve,
         MoveTo
<1>3. SecretsApart'
  BY <1>1 DEF Own, SecretsApart, Holds
<1>4. ASSUME origin' = origin, request'[q].stage # "none" \/ \A p \in Plugins : asked[p] # q,
             request[q].stage # "none",
             \/ \A p \in Plugins : asked[p] # q
             \/ /\ request'[q].secret = request[q].secret /\ request'[q].sess = request[q].sess
                /\ request'[q].stage \in {"matched", "authentic"} =>
                     request[q].stage \in {"asked", "matched"}
                /\ request'[q].stage \notin {"asked", "started", "sent"}
                /\ request'[q].stage \in {"found", "admitted", "served"} =>
                     request[q].stage \in {"sent", "found", "admitted"}
      PROVE  Own'
  <2>1. WaitsForSome'
    BY <1>1, <1>2, <1>4 DEF Own, WaitsForSome
  <2>2. SessionsHeld'
    BY <1>1, <1>4 DEF Own, SessionsHeld
  <2>3. CallsFit'
    <3> SUFFICES ASSUME NEW p \in Plugins, asked[p] \in Slots
                 PROVE  /\ request'[asked[p]].stage \in {"asked", "matched", "authentic"} =>
                             request'[asked[p]].secret = creds[p]
                        /\ request'[asked[p]].stage = "started" =>
                             /\ request'[asked[p]].sess # None
                             /\ origin[request'[asked[p]].sess] = creds[p]
                        /\ request'[asked[p]].stage \in {"sent", "found", "admitted", "served"} =>
                             request'[asked[p]].sess = session[p]
      BY <1>1, <1>4 DEF CallsFit
    <3>1. CASE asked[p] # q
      BY <1>2, <3>1 DEF Own, CallsFit
    <3>2. CASE asked[p] = q
      BY <1>4, <3>2 DEF Own, CallsFit
    <3>3. QED
      BY <3>1, <3>2
  <2>4. QED
    BY <1>3, <2>1, <2>2, <2>3 DEF Own
<1>5. CASE Vanish(q)
  BY <1>4, <1>5 DEF Vanish, serverVars
<1>6. CASE MatchSecret(q) \/ CheckRevoked(q) \/ FindSession(q) \/ Admit(q) \/ Serve(q)
  <2>1. PICK stage \in {"matched", "refused", "authentic", "found", "invalid", "admitted",
                        "served"} :
          /\ MoveTo(q, stage)
          /\ stage \in {"matched", "authentic"} => request[q].stage \in {"asked", "matched"}
          /\ stage \in {"found", "admitted", "served"} =>
               request[q].stage \in {"sent", "found", "admitted"}
    BY <1>6 DEF MatchSecret, CheckRevoked, FindSession, Admit, Serve
  <2>2. /\ request'[q].stage = stage
        /\ request'[q].secret = request[q].secret /\ request'[q].sess = request[q].sess
    BY <1>0, <2>1 DEF MoveTo
  <2>3. origin' = origin /\ request[q].stage # "none"
    BY <1>6 DEF MatchSecret, CheckRevoked, FindSession, Admit, Serve, serverVars
  <2>4. QED
    BY <1>4, <2>1, <2>2, <2>3
<1>7. CASE StartSession(q)
  <2>1. /\ request[q].stage = "authentic" /\ used + 1 \in Sessions
        /\ origin' = [origin EXCEPT ![used + 1] = request[q].secret]
        /\ request' = [request EXCEPT ![q] = [stage |-> "started", secret |-> request[q].secret,
                                              sess |-> used + 1]]
    BY <1>0, <1>7, BoundsAssumption DEF StartSession, Sessions
  <2>2. \A s \in 0..used : s # None => origin'[s] = origin[s]
    BY <1>0, <2>1, BoundsAssumption DEF Sessions, None, TypeOK
  <2>3. WaitsForSome'
    BY <1>0, <1>1, <1>2, <2>1 DEF Own, WaitsForSome
  <2>4. SessionsHeld'
    BY <1>0, <1>1, <2>2 DEF Own, SessionsHeld
  <2>5. CallsFit'
    <3> SUFFICES ASSUME NEW p \in Plugins, asked[p] \in Slots
                 PROVE  /\ request'[asked[p]].stage \in {"asked", "matched", "authentic"} =>
                             request'[asked[p]].secret = creds[p]
                        /\ request'[asked[p]].stage = "started" =>
                             /\ request'[asked[p]].sess # None
                             /\ origin'[request'[asked[p]].sess] = creds[p]
                        /\ request'[asked[p]].stage \in {"sent", "found", "admitted", "served"} =>
                             request'[asked[p]].sess = session[p]
      BY <1>1 DEF CallsFit
    <3>1. CASE asked[p] # q
      <4>1. request'[asked[p]] = request[asked[p]] /\ request[asked[p]].sess \in 0..used
        BY <1>0, <1>2, <3>1
      <4>2. QED
        BY <2>2, <4>1 DEF Own, CallsFit
    <3>2. CASE asked[p] = q
      <4>1. request'[q].stage = "started" /\ request'[q].sess = used + 1
        BY <1>0, <2>1
      <4>2. origin'[used + 1] = request[q].secret /\ used + 1 # None
        BY <1>0, <2>1 DEF None
      <4>3. request[q].secret = creds[p]
        BY <2>1, <3>2 DEF Own, CallsFit
      <4>4. QED
        BY <3>2, <4>1, <4>2, <4>3
    <3>3. QED
      BY <3>1, <3>2
  <2>6. QED
    BY <1>3, <2>3, <2>4, <2>5 DEF Own
<1>8. QED
  BY <1>5, <1>6, <1>7 DEF HubStep

\* What a plugin newly holds is the secret it asked for.
LEMMA ApartKept ==
  ASSUME SecretsApart, WaitsForSome, NEW p \in Plugins,
         \A o \in Plugins : o # p => /\ creds'[o] = creds[o] /\ disk'[o] = disk[o]
                                   /\ asked'[o] = asked[o],
         \A c \in {creds'[p], disk'[p]} \ {Nobody} : c \in Holds(p) \/ c = asked[p],
         \A o \in Plugins : o # p => asked'[p] \notin Holds(o)
  PROVE  SecretsApart'
<1>1. \A o \in Plugins : o # p => Holds(o)' = Holds(o)
  BY DEF Holds
<1>2. \A c \in Holds(p)' : (c \in Holds(p) \/ c = asked[p]) /\ c # Nobody
  BY DEF Holds
<1>3. ASSUME NEW o \in Plugins, o # p, NEW c \in Holds(p)'
      PROVE  c \notin Holds(o)' /\ c # asked'[o]
  <2>1. Holds(o)' = Holds(o) /\ asked'[o] = asked[o] /\ c # Nobody
    BY <1>1, <1>2, <1>3
  <2>2. CASE c \in Holds(p)
    BY <1>3, <2>1, <2>2 DEF SecretsApart
  <2>3. CASE c = asked[p]
    BY <1>3, <2>1, <2>3 DEF SecretsApart, WaitsForSome
  <2>4. QED
    BY <1>2, <2>2, <2>3
<1>4. ASSUME NEW o \in Plugins, o # p, NEW c \in Holds(o)'
      PROVE  c \notin Holds(p)' /\ c # asked'[p]
  BY <1>1, <1>3, <1>4
<1>5. ASSUME NEW o \in Plugins, NEW x \in Plugins, o # p, x # p, o # x, NEW c \in Holds(o)'
      PROVE  c \notin Holds(x)' /\ c # asked'[x]
  BY <1>1, <1>5 DEF SecretsApart
<1>6. QED
  BY <1>3, <1>4, <1>5, Zenon DEF SecretsApart

LEMMA OwnPlugin ==
  ASSUME TypeOK, TokenInv, Own, NEW p \in Plugins,
         PluginStep(p) \/ GiveUp(p) \/ \E t \in Tokens : Boot(p, t)
  PROVE  Own'
<1>0. /\ request \in [Slots -> [stage: Stages, secret: Enrolls \cup {Nobody}, sess: 0..used]]
      /\ enroll \in [Enrolls -> [stage: EnrollStages, token: Tokens \cup {None}]]
      /\ session \in [Plugins -> 0..used] /\ asked \in [Plugins -> Enrolls \cup Slots \cup {Nobody}]
      /\ creds \in [Plugins -> Enrolls \cup {Nobody}] /\ disk \in [Plugins -> Enrolls \cup {Nobody}]
      /\ Nobody \notin Enrolls /\ Nobody \notin Slots /\ Enrolls \cap Slots = {}
  BY RequestsAssumption DEF TypeOK
<1>1. \A o \in Plugins : o # p =>
        /\ creds'[o] = creds[o] /\ disk'[o] = disk[o]
        /\ session'[o] = session[o] /\ asked'[o] = asked[o]
  BY <1>0 DEF PluginStep, GiveUp, Boot, SendEnroll, SendRequest, TakeEnrolled, TakeEnrollRefused,
              TakeAnswer
<1>2. origin' = origin
  BY DEF PluginStep, GiveUp, Boot, SendEnroll, SendRequest, TakeEnrolled, TakeEnrollRefused,
         TakeAnswer, serverVars
<1>3. CASE GiveUp(p)
  <2>1. /\ UNCHANGED <<enroll, request, creds, disk, session>>
        /\ asked' = [asked EXCEPT ![p] = Nobody]
    BY <1>3 DEF GiveUp
  <2>2. asked'[p] = Nobody
    BY <1>0, <2>1
  <2>3. WaitsForSome'
    BY <1>0, <1>1, <2>1, <2>2 DEF Own, WaitsForSome
  <2>4. SecretsApart'
    BY <1>0, <1>1, <2>1, <2>2, ApartKept DEF Own, Holds
  <2>5. SessionsHeld' /\ CallsFit'
    BY <1>0, <1>1, <1>2, <2>1, <2>2 DEF Own, SessionsHeld, CallsFit
  <2>6. QED
    BY <2>3, <2>4, <2>5 DEF Own
<1>4. ASSUME NEW t \in Tokens, Boot(p, t) PROVE Own'
  <2>1. UNCHANGED <<enroll, request>> /\ asked'[p] = Nobody /\ session'[p] = None
    BY <1>0, <1>4 DEF Boot
  <2>2. creds'[p] = disk'[p] /\ disk'[p] \in {disk[p], Nobody}
    BY <1>0, <1>4 DEF Boot
  <2>3. WaitsForSome'
    BY <1>0, <1>1, <2>1 DEF Own, WaitsForSome
  <2>4. SecretsApart'
    BY <1>0, <1>1, <2>1, <2>2, ApartKept DEF Own, Holds
  <2>5. SessionsHeld' /\ CallsFit'
    BY <1>0, <1>1, <1>2, <2>1 DEF Own, SessionsHeld, CallsFit
  <2>6. QED
    BY <2>3, <2>4, <2>5 DEF Own
<1>5. ASSUME NEW e \in Enrolls, SendEnroll(p, e) PROVE Own'
  <2>1. /\ creds[p] = Nobody /\ enroll[e].stage = "unsent"
        /\ UNCHANGED <<request, creds, disk, session>>
        /\ asked'[p] = e
    BY <1>0, <1>5 DEF SendEnroll
  <2>2. /\ enroll'[e].stage # "unsent" /\ \A f \in Enrolls : f # e => enroll'[f] = enroll[f]
    BY <1>0, <1>5 DEF SendEnroll
  <2>3. \A o \in Plugins : o # p => asked[o] # e
    BY <2>1 DEF Own, WaitsForSome
  <2>4. WaitsForSome'
    BY <1>0, <1>1, <2>1, <2>2, <2>3 DEF Own, WaitsForSome
  <2>5. \A o \in Plugins : e \notin Holds(o)
    BY <1>0, <2>1 DEF TokenInv, SecretsInstalled, Holds
  <2>6. SecretsApart'
    BY <1>0, <1>1, <2>1, <2>5, ApartKept DEF Own, Holds
  <2>7. SessionsHeld' /\ CallsFit'
    BY <1>0, <1>1, <1>2, <2>1 DEF Own, SessionsHeld, CallsFit
  <2>8. QED
    BY <2>4, <2>6, <2>7 DEF Own
<1>6. CASE TakeEnrolled(p)
  <2>1. /\ asked[p] \in Enrolls /\ UNCHANGED <<enroll, request, session>>
        /\ creds'[p] = asked[p] /\ disk'[p] \in {disk[p], asked[p]} /\ asked'[p] = Nobody
    BY <1>0, <1>6 DEF TakeEnrolled
  <2>2. creds[p] = Nobody
    BY <2>1 DEF Own, WaitsForSome
  <2>3. WaitsForSome'
    BY <1>0, <1>1, <2>1 DEF Own, WaitsForSome
  <2>4. SecretsApart'
    BY <1>0, <1>1, <2>1, ApartKept DEF Own, Holds
  <2>5. SessionsHeld' /\ CallsFit'
    BY <1>0, <1>1, <1>2, <2>1, <2>2 DEF Own, SessionsHeld, CallsFit
  <2>6. QED
    BY <2>3, <2>4, <2>5 DEF Own
<1>7. CASE TakeEnrollRefused(p)
  <2>1. /\ asked[p] \in Enrolls /\ UNCHANGED <<request, creds, disk, session>>
        /\ asked'[p] = Nobody
        /\ \A f \in Enrolls : f # asked[p] => enroll'[f] = enroll[f]
    BY <1>0, <1>7 DEF TakeEnrollRefused, ToStage
  <2>2. \A o \in Plugins : o # p => asked[o] # asked[p]
    BY <1>0, <2>1 DEF Own, WaitsForSome
  <2>3. WaitsForSome'
    BY <1>0, <1>1, <2>1, <2>2 DEF Own, WaitsForSome
  <2>4. SecretsApart'
    BY <1>0, <1>1, <2>1, ApartKept DEF Own, Holds
  <2>5. SessionsHeld' /\ CallsFit'
    BY <1>0, <1>1, <1>2, <2>1 DEF Own, SessionsHeld, CallsFit
  <2>6. QED
    BY <2>3, <2>4, <2>5 DEF Own
<1>8. ASSUME NEW q \in Slots, SendRequest(p, q) PROVE Own'
  <2>1. /\ creds[p] # Nobody /\ request[q].stage = "none"
        /\ UNCHANGED <<enroll, creds, disk, session>> /\ asked'[p] = q
    BY <1>0, <1>8 DEF SendRequest
  <2>2. /\ \A r \in Slots : r # q => request'[r] = request[r]
        /\ request'[q].stage \in {"asked", "sent"}
        /\ request'[q].stage = "asked" => request'[q].secret = creds[p]
        /\ request'[q].sess = session[p]
    BY <1>0, <1>8 DEF SendRequest
  <2>3. \A o \in Plugins : o # p => asked[o] # q
    BY <2>1 DEF Own, WaitsForSome
  <2>4. WaitsForSome'
    BY <1>0, <1>1, <2>1, <2>2, <2>3 DEF Own, WaitsForSome
  <2>5. SecretsApart'
    BY <1>0, <1>1, <2>1, ApartKept DEF Own, Holds
  <2>6. SessionsHeld'
    BY <1>2, <2>1 DEF Own, SessionsHeld
  <2>7. CallsFit'
    BY <1>0, <1>1, <1>2, <2>1, <2>2, <2>3 DEF Own, CallsFit
  <2>8. QED
    BY <2>4, <2>5, <2>6, <2>7 DEF Own
<1>9. CASE TakeAnswer(p)
  <2>1. /\ asked[p] \in Slots /\ UNCHANGED <<enroll, creds, disk>> /\ asked'[p] = Nobody
        /\ session'[p] = SessionAfter(asked[p])
        /\ \A r \in Slots : r # asked[p] => request'[r] = request[r]
    BY <1>0, <1>9 DEF TakeAnswer
  <2>2. \A o \in Plugins : o # p => asked[o] # asked[p]
    BY <1>0, <2>1 DEF Own, WaitsForSome
  <2>3. WaitsForSome'
    BY <1>0, <1>1, <2>1, <2>2 DEF Own, WaitsForSome
  <2>4. SecretsApart'
    BY <1>0, <1>1, <2>1, ApartKept DEF Own, Holds
  <2>5. SessionsHeld'
    <3>1. session'[p] # None => creds[p] # Nobody /\ origin[session'[p]] = creds[p]
      BY <2>1 DEF SessionAfter, Own, CallsFit, WaitsForSome, SessionsHeld
    <3>2. QED
      BY <1>1, <1>2, <2>1, <3>1 DEF Own, SessionsHeld
  <2>6. CallsFit'
    BY <1>0, <1>1, <1>2, <2>1, <2>2 DEF Own, CallsFit
  <2>7. QED
    BY <2>3, <2>4, <2>5, <2>6 DEF Own
<1>10. QED
  BY <1>3, <1>4, <1>5, <1>6, <1>7, <1>8, <1>9 DEF PluginStep

LEMMA OwnNext ==
  ASSUME TypeOK, TokenInv, Own, [Next]_vars
  PROVE  Own'
<1>1. CASE \/ UNCHANGED vars \/ RevokeCredentials
           \/ \E t \in Tokens : IssueEnrollmentToken(t) \/ ExpireToken(t)
  <2>1. UNCHANGED <<request, creds, disk, session, asked, origin, enroll>>
    BY <1>1 DEF vars, RevokeCredentials, IssueEnrollmentToken, ExpireToken, serverVars, pluginVars
  <2>2. QED
    BY <2>1, OwnEnrollments DEF Own, WaitsForSome
<1>2. ASSUME NEW e \in Enrolls, EnrollStep(e) \/ VanishEnroll(e) PROVE Own'
  <2>1. UNCHANGED <<request, creds, disk, session, asked, origin>>
    BY <1>2 DEF EnrollStep, ReadToken, Install, LoseBurn, VanishEnroll, serverVars, pluginVars
  <2>2. /\ \A f \in Enrolls : f # e => enroll'[f] = enroll[f]
        /\ enroll'[e].stage # "unsent" \/ \A p \in Plugins : asked[p] # e
    BY <1>2 DEF EnrollStep, ReadToken, Install, LoseBurn, VanishEnroll, ToStage, TypeOK
  <2>3. \A p \in Plugins : asked[p] \in Enrolls => enroll'[asked[p]].stage # "unsent"
    BY <2>2 DEF Own, WaitsForSome
  <2>4. QED
    BY <2>1, <2>3, OwnEnrollments
<1>3. QED
  BY <1>1, <1>2, OwnHub, OwnPlugin DEF Next

\* What is asked and what is held stays with who asked.
LEMMA OwnInductive == Spec => []Own
<1>1. Init => Own
  <2> SUFFICES ASSUME Init PROVE Own
    OBVIOUS
  <2>1. WaitsForSome /\ SecretsApart /\ SessionsHeld /\ CallsFit
    BY RequestsAssumption
       DEF Init, WaitsForSome, SecretsApart, Holds, SessionsHeld, CallsFit
  <2>2. QED
    BY <2>1 DEF Own
<1>2. TypeOK /\ Inductive /\ Own /\ [Next]_vars => Own'
  BY OwnNext DEF Inductive
<1>3. QED
  BY <1>1, <1>2, CredentialTypes, CredentialsInductive, PTL DEF Spec

\* Two game servers configured for one record never share a secret or a
\* session, and none calls on a session of a secret it no longer holds: the
\* answers of concurrent and abandoned requests reach only who asked (Advance,
\* OnEnrollResponse, handleCreateSession).
THEOREM SessionsStayOwn == Spec => []SessionsAreOwn
<1>1. Own => SessionsAreOwn
  <2> SUFFICES ASSUME Own, NEW p \in Plugins, NEW o \in Plugins
               PROVE  /\ session[p] # None => creds[p] # Nobody /\ origin[session[p]] = creds[p]
                      /\ p # o /\ session[p] # None => session[o] # session[p]
                      /\ p # o => Holds(p) \cap Holds(o) = {}
    BY DEF SessionsAreOwn
  <2>1. session[p] # None => creds[p] # Nobody /\ origin[session[p]] = creds[p]
    BY DEF Own, SessionsHeld
  <2>2. p # o => Holds(p) \cap Holds(o) = {}
    BY DEF Own, SecretsApart
  <2>3. p # o /\ session[p] # None => session[o] # session[p]
    BY <2>1, <2>2 DEF Own, SessionsHeld, Holds
  <2>4. QED
    BY <2>1, <2>2, <2>3
<1>2. QED
  BY <1>1, OwnInductive, PTL
===============================================================================
