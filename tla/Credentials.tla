------------------------------ MODULE Credentials ------------------------------
(***************************************************************************)
(* The credentials of one server record: one-time enrollment tokens, the   *)
(* secret they buy, the sessions it buys, and the calls a session makes    *)
(* (hub/plugin.go, hub/store/servers.go), with the game servers that       *)
(* enroll, restart and give up on requests (VyshkaPlugin.c).               *)
(*                                                                         *)
(* A secret is named after the enroll request it was minted for, a session *)
(* after its StartSession.  Every action of the hub is one statement or    *)
(* one transaction that locks the server row: what a handler read in one   *)
(* may be gone in its next.                                                *)
(***************************************************************************)
EXTENDS Integers, FiniteSets

CONSTANTS
  Plugins,      \* game servers configured for this record
  Enrolls,      \* enroll requests, each with a secret of its own
  Slots,        \* session requests and calls the hub may be running at once
  MaxTokens,    \* bound on IssueEnrollmentToken
  MaxSessions,  \* bound on StartSession
  MaxFaults     \* bound on lost answers, restarts, revocations, failed saves

Tokens == 1..MaxTokens
Sessions == 1..MaxSessions
None == 0
Nobody == "nobody"    \* no credentials, no request

ASSUME RequestsAssumption ==
  /\ Nobody \notin Enrolls /\ Nobody \notin Slots
  /\ Enrolls \cap Slots = {}

ASSUME BoundsAssumption == MaxTokens \in Nat /\ MaxSessions \in Nat /\ MaxFaults \in Nat

VARIABLES
  token,    \* enrollment_tokens
  expired,  \* the tokens past expires_at
  secret,   \* servers.secret_hash
  revoked,  \* servers.revoked_at is set
  used,     \* the sessions ever started are 1..used
  ended,    \* the sessions with an ended_at
  origin,   \* history: the secret each session was started with
  enroll,   \* the enroll requests
  request,  \* the session requests and calls in flight
  config,   \* the enrollment token in a plugin's config file
  creds,    \* m_Credentials
  disk,     \* the credentials file
  session,  \* m_SessionToken
  asked,    \* the request a plugin waits for
  faults

tokenVars == <<token, expired>>
serverVars == <<secret, revoked, used, ended, origin>>
pluginVars == <<config, creds, disk, session, asked>>
vars == <<tokenVars, serverVars, enroll, request, pluginVars, faults>>

NoRequest == [stage |-> "none", secret |-> Nobody, sess |-> None]
EnrollStages == {"unsent", "sent", "read", "installed", "refused"}
Stages == {"none", "asked", "matched", "authentic", "started", "refused",
           "sent", "found", "admitted", "served", "invalid"}

TypeOK ==
  /\ token \in [Tokens -> {"unissued", "unused", "used", "deleted"}]
  /\ expired \subseteq Tokens
  /\ secret \in Enrolls \cup {Nobody}
  /\ revoked \in BOOLEAN /\ (revoked => secret # Nobody)
  /\ used \in 0..MaxSessions
  /\ ended \subseteq 1..used
  /\ origin \in [Sessions -> Enrolls \cup {Nobody}]
  /\ enroll \in [Enrolls -> [stage: EnrollStages, token: Tokens \cup {None}]]
  /\ request \in [Slots -> [stage: Stages, secret: Enrolls \cup {Nobody}, sess: 0..used]]
  /\ config \in [Plugins -> Tokens \cup {None}]
  /\ creds \in [Plugins -> Enrolls \cup {Nobody}]
  /\ disk \in [Plugins -> Enrolls \cup {Nobody}]
  /\ session \in [Plugins -> 0..used]
  /\ asked \in [Plugins -> Enrolls \cup Slots \cup {Nobody}]
  /\ faults \in 0..MaxFaults

Init ==
  /\ token = [t \in Tokens |-> "unissued"] /\ expired = {}
  /\ secret = Nobody /\ revoked = FALSE
  /\ used = 0 /\ ended = {} /\ origin = [s \in Sessions |-> Nobody]
  /\ enroll = [e \in Enrolls |-> [stage |-> "unsent", token |-> None]]
  /\ request = [q \in Slots |-> NoRequest]
  /\ config = [p \in Plugins |-> None]
  /\ creds = [p \in Plugins |-> Nobody] /\ disk = [p \in Plugins |-> Nobody]
  /\ session = [p \in Plugins |-> None]
  /\ asked = [p \in Plugins |-> Nobody]
  /\ faults = 0

Fault == faults < MaxFaults /\ faults' = faults + 1

-------------------------------------------------------------------------------
(* The operator *)

\* A fresh token; every unused one the server still had is deleted.
IssueEnrollmentToken(t) ==
  /\ token[t] = "unissued" /\ \A u \in Tokens : u < t => token[u] # "unissued"
  /\ token' = [u \in Tokens |-> IF u = t THEN "unused"
                                ELSE IF token[u] = "unused" THEN "deleted" ELSE token[u]]
  /\ UNCHANGED <<expired, serverVars, enroll, request, pluginVars, faults>>

ExpireToken(t) ==
  /\ token[t] = "unused" /\ t \notin expired
  /\ expired' = expired \cup {t}
  /\ UNCHANGED <<token, serverVars, enroll, request, pluginVars, faults>>

\* endSessions, in the transaction that needs them gone.
EndSessions == ended' = 1..used

\* Revoking a server that never enrolled sets nothing.
HasSecret == secret # Nobody

RevokeCredentials ==
  /\ Fault
  /\ revoked' = HasSecret
  /\ EndSessions
  /\ UNCHANGED <<tokenVars, secret, used, origin, enroll, request, pluginVars>>

-------------------------------------------------------------------------------
(* handleEnroll *)

ToStage(e, stage) == enroll' = [enroll EXCEPT ![e].stage = stage]

\* Enroll reads the token before it holds the lock of the server row.
ReadToken(e) ==
  LET t == enroll[e].token
  IN  /\ enroll[e].stage = "sent"
      /\ ToStage(e, IF token[t] = "unused" /\ t \notin expired THEN "read" ELSE "refused")
      /\ UNCHANGED <<tokenVars, serverVars, request, pluginVars, faults>>

\* The guard of the burn: used_at IS NULL, on a row that is still there.
EverIssued(t) == token[t] # "unissued"
StillUnused(t) == token[t] = "unused"

Install(e) ==
  LET t == enroll[e].token
  IN  /\ enroll[e].stage = "read"
      /\ StillUnused(t)
      /\ token' = [token EXCEPT ![t] = "used"]
      /\ secret' = e /\ revoked' = FALSE
      /\ EndSessions
      /\ ToStage(e, "installed")
      /\ UNCHANGED <<expired, used, origin, request, pluginVars, faults>>

LoseBurn(e) ==
  /\ enroll[e].stage = "read"
  /\ ~StillUnused(enroll[e].token)
  /\ ToStage(e, "refused")
  /\ UNCHANGED <<tokenVars, serverVars, request, pluginVars, faults>>

-------------------------------------------------------------------------------
(* handleCreateSession *)

MoveTo(q, stage) == request' = [request EXCEPT ![q].stage = stage]

\* AuthenticateServer compares the secret in one read ...
MatchSecret(q) ==
  /\ request[q].stage = "asked"
  /\ MoveTo(q, IF request[q].secret = secret THEN "matched" ELSE "refused")
  /\ UNCHANGED <<tokenVars, serverVars, enroll, pluginVars, faults>>

\* ... and looks for a revocation in another.
CheckRevoked(q) ==
  /\ request[q].stage = "matched"
  /\ MoveTo(q, IF revoked THEN "refused" ELSE "authentic")
  /\ UNCHANGED <<tokenVars, serverVars, enroll, pluginVars, faults>>

\* StartSession ends the sessions there are and inserts its own.
EndsNone == ended
EndsAll == 1..used

StartSession(q) ==
  /\ request[q].stage = "authentic"
  /\ used < MaxSessions
  /\ used' = used + 1
  /\ ended' = EndsAll
  /\ origin' = [origin EXCEPT ![used + 1] = request[q].secret]
  /\ request' = [request EXCEPT ![q] = [stage |-> "started", secret |-> request[q].secret,
                                        sess |-> used + 1]]
  /\ UNCHANGED <<tokenVars, secret, revoked, enroll, pluginVars, faults>>

-------------------------------------------------------------------------------
(* A call on a session: authenticateSession, and the write that follows *)

LiveSessions == (1..used) \ ended

\* SessionByToken reads the session, then the server.
FindSession(q) ==
  /\ request[q].stage = "sent"
  /\ MoveTo(q, IF request[q].sess \in LiveSessions THEN "found" ELSE "invalid")
  /\ UNCHANGED <<tokenVars, serverVars, enroll, pluginVars, faults>>

AnyServer == TRUE
NotRevoked == ~revoked

Admit(q) ==
  /\ request[q].stage = "found"
  /\ MoveTo(q, IF NotRevoked THEN "admitted" ELSE "invalid")
  /\ UNCHANGED <<tokenVars, serverVars, enroll, pluginVars, faults>>

\* liveSessionSeq, in the transaction that applies what the call brought.
Serve(q) ==
  /\ request[q].stage = "admitted"
  /\ MoveTo(q, IF request[q].sess \in LiveSessions THEN "served" ELSE "invalid")
  /\ UNCHANGED <<tokenVars, serverVars, enroll, pluginVars, faults>>

-------------------------------------------------------------------------------
(* The plugin *)

\* The game server starts with some issued token in its config file.  One
\* that the stored credentials did not come from asks for a new enrollment.
Boot(p, t) ==
  /\ token[t] # "unissued"
  /\ config[p] # None => Fault
  /\ config[p] = None => UNCHANGED faults
  /\ config' = [config EXCEPT ![p] = t]
  /\ LET kept == IF disk[p] # Nobody /\ enroll[disk[p]].token = t THEN disk[p] ELSE Nobody
     IN  creds' = [creds EXCEPT ![p] = kept] /\ disk' = [disk EXCEPT ![p] = kept]
  /\ session' = [session EXCEPT ![p] = None]
  /\ asked' = [asked EXCEPT ![p] = Nobody]
  /\ UNCHANGED <<tokenVars, serverVars, enroll, request>>

SendEnroll(p, e) ==
  /\ config[p] # None /\ creds[p] = Nobody /\ asked[p] = Nobody
  /\ enroll[e].stage = "unsent"
  /\ enroll' = [enroll EXCEPT ![e] = [stage |-> "sent", token |-> config[p]]]
  /\ asked' = [asked EXCEPT ![p] = e]
  /\ UNCHANGED <<tokenVars, serverVars, request, config, creds, disk, session, faults>>

\* OnEnrollResponse: the credentials are used even if they cannot be saved.
TakeEnrolled(p) ==
  /\ asked[p] \in Enrolls /\ enroll[asked[p]].stage = "installed"
  /\ creds' = [creds EXCEPT ![p] = asked[p]]
  /\ \/ disk' = [disk EXCEPT ![p] = asked[p]] /\ UNCHANGED faults
     \/ Fault /\ UNCHANGED disk
  /\ asked' = [asked EXCEPT ![p] = Nobody]
  /\ UNCHANGED <<tokenVars, serverVars, enroll, request, config, session>>

TakeEnrollRefused(p) ==
  /\ asked[p] \in Enrolls /\ enroll[asked[p]].stage = "refused"
  /\ ToStage(asked[p], "unsent")
  /\ asked' = [asked EXCEPT ![p] = Nobody]
  /\ UNCHANGED <<tokenVars, serverVars, request, config, creds, disk, session, faults>>

\* Advance: a session first, then call after call.
SendRequest(p, q) ==
  /\ creds[p] # Nobody /\ asked[p] = Nobody
  /\ request[q].stage = "none"
  /\ request' = [request EXCEPT ![q] =
                   [stage |-> IF session[p] = None THEN "asked" ELSE "sent",
                    secret |-> IF session[p] = None THEN creds[p] ELSE Nobody,
                    sess |-> session[p]]]
  /\ asked' = [asked EXCEPT ![p] = q]
  /\ UNCHANGED <<tokenVars, serverVars, enroll, config, creds, disk, session, faults>>

\* What the answer of each call leaves of the plugin's session.
KeepsSession(q) == request[q].sess
SessionAfter(q) ==
  IF request[q].stage \in {"started", "served"} THEN request[q].sess ELSE None

TakeAnswer(p) ==
  /\ asked[p] \in Slots
  /\ request[asked[p]].stage \in {"started", "refused", "served", "invalid"}
  /\ session' = [session EXCEPT ![p] = SessionAfter(asked[p])]
  /\ request' = [request EXCEPT ![asked[p]] = NoRequest]
  /\ asked' = [asked EXCEPT ![p] = Nobody]
  /\ UNCHANGED <<tokenVars, serverVars, enroll, config, creds, disk, faults>>

\* The watchdog gives up on a request the hub may still be running.
GiveUp(p) ==
  /\ asked[p] # Nobody
  /\ Fault
  /\ asked' = [asked EXCEPT ![p] = Nobody]
  /\ UNCHANGED <<tokenVars, serverVars, enroll, request, config, creds, disk, session>>

\* A request nobody waits for ends unheard, at whatever point.
Vanish(q) ==
  /\ request[q].stage # "none" /\ \A p \in Plugins : asked[p] # q
  /\ request' = [request EXCEPT ![q] = NoRequest]
  /\ UNCHANGED <<tokenVars, serverVars, enroll, pluginVars, faults>>

VanishEnroll(e) ==
  /\ enroll[e].stage \in {"sent", "read", "refused"} /\ \A p \in Plugins : asked[p] # e
  /\ ToStage(e, "unsent")
  /\ UNCHANGED <<tokenVars, serverVars, request, pluginVars, faults>>

-------------------------------------------------------------------------------
EnrollStep(e) == ReadToken(e) \/ Install(e) \/ LoseBurn(e)

HubStep(q) ==
  \/ MatchSecret(q) \/ CheckRevoked(q) \/ StartSession(q)
  \/ FindSession(q) \/ Admit(q) \/ Serve(q)

PluginStep(p) ==
  \/ \E e \in Enrolls : SendEnroll(p, e)
  \/ \E q \in Slots : SendRequest(p, q)
  \/ TakeEnrolled(p) \/ TakeEnrollRefused(p) \/ TakeAnswer(p)

Next ==
  \/ \E t \in Tokens : IssueEnrollmentToken(t) \/ ExpireToken(t)
  \/ RevokeCredentials
  \/ \E e \in Enrolls : EnrollStep(e) \/ VanishEnroll(e)
  \/ \E q \in Slots : HubStep(q) \/ Vanish(q)
  \/ \E p \in Plugins : PluginStep(p) \/ GiveUp(p) \/ \E t \in Tokens : Boot(p, t)

Spec == Init /\ [][Next]_vars

\* The plugins tick and the hub serves what it accepted; nobody owes a token,
\* a restart or a revocation.
FairSpec ==
  /\ Spec
  /\ \A e \in Enrolls : WF_vars(EnrollStep(e))
  /\ \A q \in Slots : WF_vars(HubStep(q)) /\ WF_vars(Vanish(q))
  /\ \A p \in Plugins : WF_vars(PluginStep(p))

-------------------------------------------------------------------------------
(* Properties *)

\* Two plugins racing on one token, or one retrying after a lost answer, make
\* one enrollment: a token installs one secret (section 5.2).
OneSecretPerToken ==
  \A e, f \in Enrolls :
    /\ enroll[e].stage = "installed" /\ enroll[f].stage = "installed"
    /\ enroll[e].token = enroll[f].token
    => e = f

\* A token that a re-issue replaced installs nothing, even when the enrollment
\* read it before the re-issue.
OnlyLatestEnrolls ==
  [][secret' # secret =>
       \A t \in Tokens : t > enroll[secret'].token => token[t] = "unissued"]_vars

\* Two session requests served together leave one session (section 5.3).
OneLiveSession == \A s, u \in LiveSessions : s = u

\* While the credentials are revoked no call of any session changes anything,
\* the calls already admitted and the sessions of requests that authenticated
\* before the revocation included (section 5.4).
RevokedMeansSilent ==
  [][\A q \in Slots :
       request[q].stage = "admitted" /\ request'[q].stage = "served" => ~revoked]_vars

\* What a plugin holds, in memory or on disk, is the installed secret for as
\* long as no later token was issued.
CredentialsFit ==
  \A p \in Plugins : \A c \in {creds[p], disk[p]} \ {Nobody} :
    \/ c = secret
    \/ \E t \in Tokens : t > enroll[c].token /\ token[t] # "unissued"

\* A plugin with the installed secret comes to hold the live session, whatever
\* was revoked, superseded or lost before.
Entitled(p) == creds[p] # Nobody /\ creds[p] = secret /\ ~revoked
LinkRecovers ==
  \A p \in Plugins : Entitled(p) ~> (session[p] \in LiveSessions \/ ~Entitled(p))

\* spec/protocol.md section 5.2: enrolling again replaces the secret,
\* "invalidating the previous secret and every session derived from it".
SessionsOfTheSecret == \A s \in LiveSessions : origin[s] = secret
===============================================================================
