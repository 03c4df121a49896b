---------------------------- MODULE LifetimeProofs ----------------------------
(***************************************************************************)
(* Theorems about Settings, Startup and Lifetime: what holds of the        *)
(* settings in a process that serves, for any requests, logins, bodies and *)
(* bounds; what Startup promises such a process, for any number of starts  *)
(* that are cut short; and that all of it holds over every start there is. *)
(*                                                                         *)
(* SavedSurvives is not inductive: a request that is about to write may    *)
(* have read its value long ago.  What saves it is that a field which was  *)
(* set while another request was under way stays in `unsaved' until a      *)
(* request that ran alone has written every field.                         *)
(***************************************************************************)
EXTENDS Lifetime, TLAPS

----------------------------------------------------------------------------
(* The strengthening.                                                      *)

\* A request that is alone is the only one under way.
AloneInv == \A r, s \in Requests : (r # s /\ pc[r] # "idle" /\ req[r].alone) => pc[s] = "idle"

\* What a restart would make of the table is what is live.
Match(f) == conf[f] = Load(db)[f] \/ (f = "ignore" /\ conf[f] = Empty)

\* A number that is empty, and a token, has been so since the start.
EmptyInv ==
    /\ \A f \in Saved \ {"ignore"} : conf[f] = Empty => Env[f] = Empty
    /\ conf["token"] = Empty => db["token"] \in {None, Empty}

\* A value that is about to be written is the live one, unless somebody is
\* still to save it; a token that is about to be written is none that is empty.
HeldInv ==
    \A r \in Requests : pc[r] = "write" =>
        /\ SaveOrder[req[r].at] = "token" => conf["token"] # Empty
        /\ SaveOrder[req[r].at] \notin unsaved \/ req[r].alone
              => req[r].held = conf[SaveOrder[req[r].at]]

\* A request that is alone has saved what it passed.
PassedInv ==
    \A r \in Requests : (pc[r] \in {"read", "write"} /\ req[r].alone)
        => \A i \in 1..(req[r].at - 1) : Match(SaveOrder[i])

\* The OIDC settings: set by halves, and unsaved until they are saved.
AuthInv ==
    \A r \in Requests :
        /\ pc[r] \in {"secret", "invalidate", "saveauth"} => "auth" \in unsaved
        /\ (pc[r] = "secret" /\ req[r].alone) => auth.issuer = req[r].copy.issuer
        /\ (pc[r] \in {"invalidate", "saveauth"} /\ req[r].alone) => auth = req[r].copy

SavedInv == /\ AloneInv /\ EmptyInv /\ HeldInv /\ PassedInv /\ AuthInv
            /\ SavedSurvives

\* A login that asks the issuer holds the lock; the issuer it asks is the live
\* one, or the provider it will build is about to be dropped.
Dropping == \E r \in Requests : pc[r] \in {"secret", "invalidate"}
DiscoverInv ==
    \A l \in Logins : login[l].at = "discover"
        => mutex = l /\ (login[l].issuer = auth.issuer \/ Dropping)

ProviderInv == DiscoverInv /\ ProviderCurrent

\* The secret is the configured one, or else the stored one.
SessionInv ==
    /\ secret = IF EnvSecret # Empty THEN EnvSecret ELSE dbSecret
    /\ SessionsSurvive

----------------------------------------------------------------------------
(* Type correctness.                                                       *)

Phases == {"idle", "apply", "read", "write", "build", "issuer", "secret", "invalidate", "saveauth"}
LoginType == [at : {"idle", "discover", "use", "done", "panic"}, issuer : 0..2]
Requested == /\ pc \in [Requests -> Phases]
             /\ req \in [Requests -> RequestRecord]
             /\ \A r \in Requests : RequestType(r)

LEMMA LoadType ==
  ASSUME NEW table \in [Fields -> Values \cup {None}]
  PROVE  Load(table) \in [Fields -> Values]
BY EnvAssumption DEF Load

LEMMA InitType == Init => TypeOK
<1> SUFFICES ASSUME Init PROVE TypeOK
  OBVIOUS
<1>1. conf \in [Fields -> Values]
  BY LoadType DEF Init
<1>2. auth \in AuthType /\ provider \in Providers /\ dbAuth \in Providers
  BY EnvAssumption DEF Init, LoadAuth, Providers
<1>3. Requested
  BY DEF Init, Requested, Phases, NoRequest, RequestRecord, RequestType, Providers, ApplyOrder
<1>4. login \in [Logins -> LoginType]
  BY DEF Init, NoLogin, LoginType
<1>6. \A l \in Logins : login[l].at # "discover"
  BY DEF Init, NoLogin
<1>5. secret # None
  BY NoValueAssumption, EnvAssumption, BoundAssumption DEF Init, LoadSecret
<1>. QED
  BY <1>1, <1>2, <1>3, <1>4, <1>5, <1>6, EnvAssumption, BoundAssumption
     DEF Init, TypeOK, Requested, Phases, LoginType, Fields, Values

LEMMA EndsType ==
  ASSUME Requested, NEW r \in Requests, Ends(r)
  PROVE  Requested'
<1>1. NoRequest \in RequestRecord
  BY DEF NoRequest, RequestRecord, ApplyOrder, Providers
<1>2. pc' \in [Requests -> Phases] /\ req' \in [Requests -> RequestRecord]
  BY <1>1 DEF Ends, Requested, Phases
<1>3. \A s \in Requests : RequestType(s)'
  BY DEF Ends, Requested, RequestType
<1>. QED BY <1>2, <1>3 DEF Requested

\* A request that moves on with another position and value.
LEMMA MovesType ==
  ASSUME Requested, NEW r \in Requests, NEW place \in 0..(Len(ApplyOrder) + 1), NEW held \in Values \cup {None},
         NEW phase \in {"apply", "read", "write"},
         pc' = [pc EXCEPT ![r] = phase],
         MoveTo(r, place, held),
         req[r].body \in Bodies,
         phase = "apply" => place \in 1..(Len(ApplyOrder) + 1),
         phase = "read" => place \in 1..(Len(SaveOrder) + 1),
         phase = "write" => place \in 1..Len(SaveOrder) /\ held \in Values
  PROVE  Requested'
<1>1. [req[r] EXCEPT !.at = place, !.held = held] \in RequestRecord
  BY DEF Requested, RequestRecord
<1>2. pc' \in [Requests -> Phases] /\ req' \in [Requests -> RequestRecord]
  BY <1>1 DEF MoveTo, Requested, Phases
<1>3. /\ req'[r].at = place /\ req'[r].held = held /\ req'[r].body = req[r].body
      /\ \A s \in Requests \ {r} : req'[s] = req[s] /\ pc'[s] = pc[s]
  BY DEF MoveTo, Requested, RequestRecord
<1>4. \A s \in Requests : RequestType(s)'
  BY <1>3 DEF Requested, RequestType
<1>. QED BY <1>2, <1>4 DEF Requested

LEMMA BeginType ==
  ASSUME Requested, NEW r \in Requests, NEW first \in Phases, NEW body \in Bodies \cup {None},
         NEW copy \in Providers, Begin(r, first, body, copy), first \in {"apply", "build"},
         first = "apply" => body \in Bodies, first = "build" => copy \in AuthType
  PROVE  Requested'
<1>1. pc' \in [Requests -> Phases]
  BY DEF Begin, Requested
<1>2. (Active = {}) \in BOOLEAN
  OBVIOUS
<1>3. \A alone \in BOOLEAN :
        [at |-> 1, body |-> body, held |-> None, copy |-> copy, alone |-> alone] \in RequestRecord
  BY DEF RequestRecord, ApplyOrder
<1>4. \A s \in Requests : [req[s] EXCEPT !.alone = FALSE] \in RequestRecord
  BY DEF Requested, RequestRecord
<1>5. req' \in [Requests -> RequestRecord]
  BY <1>2, <1>3, <1>4 DEF Begin
<1>6. ASSUME NEW s \in Requests PROVE RequestType(s)'
  <2>1. CASE s = r
    BY <2>1 DEF Begin, Requested, RequestType, ApplyOrder
  <2>2. CASE s # r
    <3>1. pc'[s] = pc[s] /\ req'[s] = [req[s] EXCEPT !.alone = FALSE]
      BY <2>2 DEF Begin, Requested
    <3>2. /\ req'[s].at = req[s].at /\ req'[s].body = req[s].body
          /\ req'[s].held = req[s].held /\ req'[s].copy = req[s].copy
      BY <3>1 DEF Requested, RequestRecord
    <3>. QED BY <3>1, <3>2 DEF Requested, RequestType
  <2>. QED BY <2>1, <2>2
<1>. QED BY <1>1, <1>5, <1>6 DEF Requested

LEMMA StepType == TypeOK /\ [Next]_vars => TypeOK'
<1> SUFFICES ASSUME TypeOK, [Next]_vars PROVE TypeOK'
  OBVIOUS
<1> USE DEF config, stored, oidc, session, bounds
<1>t. Requested /\ login \in [Logins -> LoginType]
  BY DEF TypeOK, Requested, Phases, LoginType
<1>a. ASSUME Requested', UNCHANGED <<config, stored, oidc, session, restarts>>, asked' \in Values,
             unsaved' \subseteq Fields \cup {"auth"}
      PROVE  TypeOK'
  BY <1>a DEF TypeOK, Requested, Phases
<1>1. ASSUME NEW r \in Requests, NEW b \in Bodies, Begin(r, "apply", b, None) PROVE TypeOK'
  <2>1. Requested'
    <3>1. None \in Providers /\ "apply" \in Phases /\ b \in Bodies \cup {None}
      BY DEF Phases, Providers
    <3>. QED BY <1>1, BeginType, <1>t, <3>1
  <2>. QED BY <1>1, <1>a, <2>1 DEF Begin, TypeOK
<1>2. ASSUME NEW r \in Requests, NEW b \in AuthBodies, Begin(r, "build", None, b) PROVE TypeOK'
  <2>1. Requested'
    BY <1>2, BeginType, <1>t, AuthBodyAssumption DEF Phases, Providers
  <2>. QED BY <1>2, <1>a, <2>1 DEF Begin, TypeOK
<1>3. ASSUME NEW r \in Requests, Apply(r) PROVE TypeOK'
  <2>0. req[r].at \in 1..6 /\ req[r].body \in Bodies /\ req[r].held \in Values \cup {None}
    BY <1>3, <1>t DEF Apply, Requested, RequestRecord, RequestType, ApplyOrder
  <2>1. CASE req[r].at > Len(ApplyOrder)
    <3>2. Requested'
      BY <1>3, <2>0, <2>1, <1>t, MovesType DEF Apply, ApplyOrder, SaveOrder
    <3>. QED BY <1>3, <2>1, <3>2 DEF Apply, TypeOK, Requested, Phases
  <2>2. CASE ~(req[r].at > Len(ApplyOrder))
    <3> DEFINE f == ApplyOrder[req[r].at]
               v == req[r].body[f]
    <3>1. f \in Fields /\ v \in Values \cup {Absent, Bad} /\ req[r].at \in 1..5
      BY <2>0, <2>2, BodyAssumption DEF ApplyOrder, Fields
    <3>2. Requested'
      <4>1. CASE v = Bad
        BY <1>3, <2>2, <4>1, <1>t, EndsType DEF Apply
      <4>2. CASE v # Bad
        <5>1. MoveTo(r, req[r].at + 1, None) /\ pc' = [pc EXCEPT ![r] = "apply"]
          BY <1>3, <2>2, <4>2, <1>t DEF Apply, Next1, Requested
        <5>2. req[r].at + 1 \in 0..6 /\ req[r].at + 1 \in 1..6 /\ Len(ApplyOrder) + 1 = 6
          BY <3>1 DEF ApplyOrder
        <5>. QED BY <2>0, <5>1, <5>2, <1>t, MovesType
      <4>. QED BY <4>1, <4>2
    <3>3. conf' \in [Fields -> Values] /\ unsaved' \subseteq Fields \cup {"auth"} /\ asked' = asked
      BY <1>3, <2>2, <3>1 DEF Apply, TypeOK
    <3>. QED BY <1>3, <3>2, <3>3 DEF Apply, TypeOK, Requested, Phases
  <2>. QED BY <2>1, <2>2
<1>4. ASSUME NEW r \in Requests, Read(r) PROVE TypeOK'
  <2>0. req[r].at \in 1..5 /\ req[r].body \in Bodies
    BY <1>4, <1>t DEF Read, Requested, RequestRecord, RequestType, SaveOrder
  <2>1. CASE req[r].at > Len(SaveOrder)
    <3>1. Requested'
      BY <1>4, <1>t, <2>1, EndsType DEF Read
    <3>2. asked' \in Values /\ unsaved' \subseteq Fields \cup {"auth"}
      BY <1>4, <2>1 DEF Read, TypeOK
    <3>. QED BY <1>4, <3>1, <3>2, <1>a DEF Read
  <2>2. CASE ~(req[r].at > Len(SaveOrder))
    <3> DEFINE f == SaveOrder[req[r].at]
    <3>1. f \in Fields /\ conf[f] \in Values /\ req[r].at \in 1..4
      BY <2>0, <2>2 DEF SaveOrder, Fields, TypeOK
    <3>2. Requested'
      <4>1. CASE f = "token" /\ conf[f] = Empty
        <5>1. MoveTo(r, req[r].at + 1, None) /\ pc' = [pc EXCEPT ![r] = "read"]
          BY <1>4, <2>2, <4>1, <1>t DEF Read, Next1, Requested
        <5>2. req[r].at + 1 \in 0..6 /\ req[r].at + 1 \in 1..5 /\ Len(ApplyOrder) + 1 = 6 /\ Len(SaveOrder) + 1 = 5
          BY <3>1 DEF ApplyOrder, SaveOrder
        <5>. QED BY <2>0, <5>1, <5>2, <1>t, MovesType
      <4>2. CASE ~(f = "token" /\ conf[f] = Empty)
        <5>1. MoveTo(r, req[r].at, conf[f]) /\ pc' = [pc EXCEPT ![r] = "write"]
          BY <1>4, <2>2, <4>2, <1>t DEF Read, Requested, RequestRecord
        <5>2. req[r].at \in 0..6 /\ Len(ApplyOrder) + 1 = 6 /\ Len(SaveOrder) = 4
          BY <3>1 DEF ApplyOrder, SaveOrder
        <5>. QED BY <2>0, <3>1, <5>1, <5>2, <1>t, MovesType
      <4>. QED BY <4>1, <4>2
    <3>. QED BY <1>4, <2>2, <3>2, <1>a DEF Read, TypeOK
  <2>. QED BY <2>1, <2>2
<1>5. ASSUME NEW r \in Requests, Write(r) PROVE TypeOK'
  <2>1. /\ req[r].held \in Values /\ SaveOrder[req[r].at] \in Fields
        /\ req[r].at \in 1..4 /\ req[r].body \in Bodies
    BY <1>5, <1>t DEF Write, Requested, RequestType, SaveOrder, Fields
  <2>2. db' \in [Fields -> Values \cup {None}]
    BY <1>5, <2>1 DEF Write, TypeOK
  <2>3. Requested'
    <3>1. CASE Ends(r)
      BY <3>1, <1>t, EndsType
    <3>2. CASE Next1(r) /\ pc' = [pc EXCEPT ![r] = "read"]
      <4>1. MoveTo(r, req[r].at + 1, None)
        BY <3>2 DEF Next1
      <4>2. req[r].at + 1 \in 0..6 /\ req[r].at + 1 \in 1..5 /\ Len(ApplyOrder) + 1 = 6 /\ Len(SaveOrder) + 1 = 5
        BY <2>1 DEF ApplyOrder, SaveOrder
      <4>. QED BY <1>t, <2>1, <3>2, <4>1, <4>2, MovesType
    <3>. QED BY <1>5, <3>1, <3>2 DEF Write
  <2>. QED BY <1>5, <2>2, <2>3 DEF Write, TypeOK, Requested, Phases
<1>6. ASSUME NEW r \in Requests, Build(r) PROVE TypeOK'
  <2> DEFINE given == req[r].copy.secret
             built == [req[r].copy EXCEPT !.secret = IF given # Empty THEN given ELSE auth.secret]
  <2>1. built \in AuthType /\ req' = [req EXCEPT ![r].copy = built]
    BY <1>6, <1>t DEF Build, Requested, RequestType, TypeOK, AuthType
  <2>2. Requested'
    <3>1. [req[r] EXCEPT !.copy = built] \in RequestRecord
      BY <1>t, <2>1 DEF Requested, RequestRecord, Providers
    <3>2. req' \in [Requests -> RequestRecord] /\ pc' \in [Requests -> Phases]
      BY <1>6, <1>t, <2>1, <3>1 DEF Build, Requested, Phases
    <3>3. req'[r].copy = built /\ \A s \in Requests \ {r} : req'[s] = req[s] /\ pc'[s] = pc[s]
      BY <1>6, <1>t, <2>1 DEF Build, Requested, RequestRecord
    <3>4. \A s \in Requests : RequestType(s)'
      BY <1>6, <1>t, <2>1, <3>3 DEF Build, Requested, RequestType
    <3>. QED BY <3>2, <3>4 DEF Requested
  <2>. QED BY <1>6, <2>2, <1>a DEF Build, TypeOK
<1>7. ASSUME NEW r \in Requests, ApplyAuth(r) PROVE TypeOK'
  <2>1. req[r].copy \in AuthType
    BY <1>7, <1>t DEF ApplyAuth, Requested, RequestType
  <2>2. auth' \in AuthType
    BY <1>7, <2>1 DEF ApplyAuth, TypeOK, AuthType
  <2>3. Requested'
    BY <1>7, <1>t, <2>1 DEF ApplyAuth, Requested, Phases, RequestRecord, RequestType
  <2>. QED BY <1>7, <2>2, <2>3 DEF ApplyAuth, TypeOK, Requested, Phases
<1>8. ASSUME NEW r \in Requests, Invalidate(r) PROVE TypeOK'
  <2>1. Requested'
    BY <1>8, <1>t DEF Invalidate, Requested, Phases, RequestRecord, RequestType
  <2>. QED BY <1>8, <2>1 DEF Invalidate, TypeOK, Requested, Phases, Providers
<1>9. ASSUME NEW r \in Requests, SaveAuth(r) PROVE TypeOK'
  <2>1. Requested' /\ dbAuth' \in Providers /\ unsaved' \subseteq Fields \cup {"auth"}
    BY <1>9, <1>t DEF SaveAuth, Ends, NoRequest, Requested, Phases, RequestRecord, RequestType, Providers, ApplyOrder, TypeOK
  <2>. QED BY <1>9, <2>1 DEF SaveAuth, TypeOK, Requested, Phases
<1>10. ASSUME NEW l \in Logins, Ensure(l) PROVE TypeOK'
  <2>1. login' \in [Logins -> LoginType] /\ mutex' \in Logins \cup {None}
    BY <1>10, <1>t DEF Ensure, LoginType, TypeOK, AuthType
  <2>2. \A k \in Logins : login'[k].at = "discover" => login'[k].issuer \in 1..2
    BY <1>10, <1>t DEF Ensure, LoginType, TypeOK, AuthType
  <2>. QED BY <1>10, <1>t, <2>1, <2>2 DEF Ensure, TypeOK, LoginType, RequestType
<1>11. ASSUME NEW l \in Logins, Discovered(l) PROVE TypeOK'
  <2>1. login' \in [Logins -> LoginType]
    BY <1>11, <1>t DEF Discovered, LoginType
  <2>2. provider' \in Providers
    <3>1. login[l].issuer \in 1..2
      BY <1>11, <1>t DEF Discovered, TypeOK
    <3>. QED BY <1>11, <3>1 DEF Discovered, TypeOK, Providers, AuthType
  <2>. QED BY <1>11, <1>t, <2>1, <2>2 DEF Discovered, TypeOK, LoginType, RequestType
<1>12. ASSUME NEW l \in Logins, Use(l) PROVE TypeOK'
  <2>1. login' \in [Logins -> LoginType]
    BY <1>12, <1>t DEF Use, LoginType
  <2>. QED BY <1>12, <1>t, <2>1 DEF Use, TypeOK, LoginType, RequestType
<1>13. ASSUME Restart PROVE TypeOK'
  <2>1. conf' \in [Fields -> Values]
    BY <1>13, LoadType DEF Restart, TypeOK
  <2>2. auth' \in AuthType
    BY <1>13, EnvAssumption DEF Restart, TypeOK, LoadAuth, Providers
  <2>3. Requested'
    BY <1>13 DEF Restart, Requested, Phases, NoRequest, RequestRecord, RequestType, Providers, ApplyOrder
  <2>4. login' \in [Logins -> LoginType]
    BY <1>13 DEF Restart, NoLogin, LoginType
  <2>5. restarts' \in 0..MaxRestarts /\ secret' # None
    <3>1. restarts' \in 0..MaxRestarts
      BY <1>13, BoundAssumption DEF Restart, TypeOK
    <3>. QED BY <1>13, <3>1, NoValueAssumption, EnvAssumption DEF Restart, LoadSecret
  <2>6. \A l \in Logins : login'[l].at # "discover"
    BY <1>13 DEF Restart, NoLogin
  <2>. QED BY <1>13, <2>1, <2>2, <2>3, <2>4, <2>5, <2>6
           DEF Restart, TypeOK, Requested, Phases, LoginType, Providers, Fields
<1>14. CASE UNCHANGED vars
  BY <1>14, <1>t DEF vars, TypeOK, RequestType
<1>. QED
  BY <1>1, <1>2, <1>3, <1>4, <1>5, <1>6, <1>7, <1>8, <1>9, <1>10, <1>11, <1>12, <1>13, <1>14
     DEF Next, Serving, Request

\* Every variable keeps its type: internal/server/settings_handlers.go and
\* auth_settings.go never put a half-read value anywhere.
THEOREM TypeCorrect == Spec => []TypeOK
BY InitType, StepType, PTL DEF Spec

----------------------------------------------------------------------------
(* The provider.                                                           *)

LEMMA ProviderInit == Init => ProviderInv
BY DEF Init, ProviderInv, DiscoverInv, ProviderCurrent, NoLogin

LEMMA ProviderStep == TypeOK /\ ProviderInv /\ [Next]_vars => ProviderInv'
<1> SUFFICES ASSUME TypeOK, ProviderInv, [Next]_vars PROVE ProviderInv'
  OBVIOUS
<1> USE DEF config, stored, oidc, session, bounds
<1>t. /\ pc \in [Requests -> Phases] /\ login \in [Logins -> LoginType]
      /\ auth \in AuthType /\ None \notin Logins
  BY NoValueAssumption DEF TypeOK, Phases, LoginType
\* A request that is in neither of the two phases changes nothing.
<1>a. ASSUME NEW r \in Requests, pc[r] \notin {"secret", "invalidate"},
             \A s \in Requests \ {r} : pc'[s] = pc[s], UNCHANGED <<auth, oidc>>
      PROVE  ProviderInv'
  <2>1. Dropping => Dropping'
    BY <1>a DEF Dropping
  <2>. QED BY <1>a, <2>1 DEF ProviderInv, DiscoverInv, ProviderCurrent, Dropping
<1>1. ASSUME NEW r \in Requests, NEW b \in Bodies, Begin(r, "apply", b, None) PROVE ProviderInv'
  BY <1>1, <1>a, <1>t DEF Begin
<1>2. ASSUME NEW r \in Requests, NEW b \in AuthBodies, Begin(r, "build", None, b) PROVE ProviderInv'
  BY <1>2, <1>a, <1>t DEF Begin
<1>3. ASSUME NEW r \in Requests, Apply(r) PROVE ProviderInv'
  <2>1. \A s \in Requests \ {r} : pc'[s] = pc[s]
    BY <1>3, <1>t DEF Apply, Ends
  <2>. QED BY <1>3, <1>a, <2>1 DEF Apply
<1>4. ASSUME NEW r \in Requests, Read(r) PROVE ProviderInv'
  <2>1. \A s \in Requests \ {r} : pc'[s] = pc[s]
    BY <1>4, <1>t DEF Read, Ends
  <2>. QED BY <1>4, <1>a, <2>1 DEF Read
<1>5. ASSUME NEW r \in Requests, Write(r) PROVE ProviderInv'
  BY <1>5, <1>a, <1>t DEF Write, Ends
<1>6. ASSUME NEW r \in Requests, Build(r) PROVE ProviderInv'
  BY <1>6, <1>a, <1>t DEF Build
\* A change that is half done or about to drop the provider is seen.
<1>7. ASSUME NEW r \in Requests, ApplyAuth(r) PROVE ProviderInv'
  <2>1. Dropping'
    BY <1>7, <1>t DEF ApplyAuth, Dropping
  <2>. QED BY <1>7, <2>1 DEF ApplyAuth, ProviderInv, DiscoverInv, ProviderCurrent, Dropping
\* The lock is free, so nobody is asking the issuer.
<1>8. ASSUME NEW r \in Requests, Invalidate(r) PROVE ProviderInv'
  BY <1>8, <1>t DEF Invalidate, ProviderInv, DiscoverInv, ProviderCurrent
<1>9. ASSUME NEW r \in Requests, SaveAuth(r) PROVE ProviderInv'
  BY <1>9, <1>a, <1>t DEF SaveAuth, Ends
<1>10. ASSUME NEW l \in Logins, Ensure(l) PROVE ProviderInv'
  <2>1. \A k \in Logins : login[k].at # "discover"
    BY <1>10, <1>t DEF Ensure, ProviderInv, DiscoverInv
  <2>2. \A k \in Logins : login'[k].at = "discover" => k = l /\ mutex' = l /\ login'[k].issuer = auth.issuer
    BY <1>10, <1>t, <2>1 DEF Ensure, LoginType
  <2>. QED BY <1>10, <2>2 DEF Ensure, ProviderInv, DiscoverInv, ProviderCurrent, Dropping
<1>11. ASSUME NEW l \in Logins, Discovered(l) PROVE ProviderInv'
  <2>1. \A k \in Logins : login'[k].at # "discover"
    BY <1>11, <1>t DEF Discovered, ProviderInv, DiscoverInv, LoginType
  <2>2. login[l].issuer = auth.issuer => [issuer |-> login[l].issuer, secret |-> auth.secret] = auth
    BY <1>t DEF AuthType
  <2>. QED BY <1>11, <2>1, <2>2 DEF Discovered, ProviderInv, DiscoverInv, ProviderCurrent, Dropping
<1>12. ASSUME NEW l \in Logins, Use(l) PROVE ProviderInv'
  <2>1. \A k \in Logins : login'[k].at = "discover" => login[k].at = "discover" /\ login'[k] = login[k]
    BY <1>12, <1>t DEF Use, LoginType
  <2>. QED BY <1>12, <2>1 DEF Use, ProviderInv, DiscoverInv, ProviderCurrent, Dropping
<1>13. ASSUME Restart PROVE ProviderInv'
  BY <1>13 DEF Restart, NoLogin, ProviderInv, DiscoverInv, ProviderCurrent
<1>14. CASE UNCHANGED vars
  BY <1>14 DEF vars, ProviderInv, DiscoverInv, ProviderCurrent, Dropping
<1>. QED
  BY <1>1, <1>2, <1>3, <1>4, <1>5, <1>6, <1>7, <1>8, <1>9, <1>10, <1>11, <1>12, <1>13, <1>14
     DEF Next, Serving, Request

\* The OIDC provider in use was built from the live settings, or is about to
\* be dropped (auth.go:162-202), whatever logins and changes overlap.
THEOREM ProviderStaysCurrent == Spec => []ProviderCurrent
<1>1. Spec => [](TypeOK /\ ProviderInv)
  BY InitType, StepType, ProviderInit, ProviderStep, PTL DEF Spec
<1>2. ProviderInv => ProviderCurrent
  BY DEF ProviderInv
<1>. QED BY <1>1, <1>2, PTL

----------------------------------------------------------------------------
(* Sessions.                                                               *)

LEMMA SessionInit == Init => SessionInv
BY EnvAssumption DEF Init, SessionInv, SessionsSurvive, LoadSecret

LEMMA SessionStep == TypeOK /\ SessionInv /\ [Next]_vars => SessionInv'
<1> SUFFICES ASSUME TypeOK, SessionInv, [Next]_vars PROVE SessionInv'
  OBVIOUS
<1> USE DEF config, stored, oidc, session, bounds
<1>1. CASE UNCHANGED session
  BY <1>1 DEF SessionInv, SessionsSurvive
<1>2. ASSUME NEW l \in Logins, Use(l) PROVE SessionInv'
  BY <1>2 DEF Use, SessionInv, SessionsSurvive
<1>3. ASSUME Restart PROVE SessionInv'
  BY <1>3 DEF Restart, LoadSecret, SessionInv, SessionsSurvive, TypeOK
<1>. QED
  BY <1>1, <1>2, <1>3
     DEF Next, Serving, Request, Begin, Apply, Read, Write, Build, ApplyAuth, Invalidate, SaveAuth, Ensure, Discovered, vars

\* A session stays valid over restarts: loadSecret (auth.go:64-85) returns the
\* secret it was signed with.
THEOREM SessionsStayValid == Spec => []SessionsSurvive
<1>1. Spec => [](TypeOK /\ SessionInv)
  BY InitType, StepType, SessionInit, SessionStep, PTL DEF Spec
<1>2. SessionInv => SessionsSurvive
  BY DEF SessionInv
<1>. QED BY <1>1, <1>2, PTL

----------------------------------------------------------------------------
(* What is saved.                                                          *)

LEMMA SavedInit == Init => SavedInv
<1> SUFFICES ASSUME Init PROVE SavedInv
  OBVIOUS
<1>1. AloneInv /\ HeldInv /\ PassedInv /\ AuthInv
  BY DEF Init, AloneInv, HeldInv, PassedInv, AuthInv
<1>2. EmptyInv
  BY DEF Init, EmptyInv, Load, Saved, Fields
<1>3. SavedSurvives
  BY DEF Init, SavedSurvives
<1>. QED BY <1>1, <1>2, <1>3 DEF SavedInv

\* A step of one request leaves it alone, and whoever else was alone idle.
LEMMA AloneStays ==
  ASSUME AloneInv, NEW r \in Requests, pc[r] # "idle",
         \A s \in Requests \ {r} : pc'[s] = pc[s] /\ req'[s] = req[s],
         pc'[r] # "idle" => req'[r].alone = req[r].alone
  PROVE  AloneInv'
BY DEF AloneInv

LEMMA MoveToFacts ==
  ASSUME req \in [Requests -> RequestRecord], NEW r \in Requests, NEW place, NEW held, MoveTo(r, place, held)
  PROVE  /\ \A s \in Requests \ {r} : req'[s] = req[s]
         /\ req'[r].at = place /\ req'[r].held = held
         /\ req'[r].alone = req[r].alone /\ req'[r].copy = req[r].copy
BY DEF MoveTo, RequestRecord

LEMMA SavedStep == TypeOK /\ SavedInv /\ [Next]_vars => SavedInv'
<1> SUFFICES ASSUME TypeOK, SavedInv, [Next]_vars PROVE SavedInv'
  OBVIOUS
<1> USE DEF config, stored, oidc, session, bounds
<1>t. /\ pc \in [Requests -> Phases] /\ req \in [Requests -> RequestRecord] /\ auth \in AuthType
      /\ conf \in [Fields -> Values] /\ db \in [Fields -> Values \cup {None}]
      /\ unsaved \subseteq Fields \cup {"auth"}
      /\ \A r \in Requests : RequestType(r)
  BY DEF TypeOK, Phases
<1>i. AloneInv /\ EmptyInv /\ HeldInv /\ PassedInv /\ AuthInv /\ SavedSurvives
  BY DEF SavedInv
<1>1. ASSUME NEW r \in Requests, NEW first \in {"apply", "build"}, NEW body, NEW copy,
             Begin(r, first, body, copy)
      PROVE  SavedInv'
  <2>1. /\ \A s \in Requests \ {r} : pc'[s] = pc[s] /\ req'[s].alone = FALSE /\ req'[s].at = req[s].at
                                     /\ req'[s].held = req[s].held
        /\ pc'[r] \in {"apply", "build"}
        /\ req'[r].alone => \A s \in Requests : pc[s] = "idle"
    BY <1>1, <1>t DEF Begin, Active, RequestRecord
  <2>2. UNCHANGED <<config, stored, unsaved>>
    BY <1>1 DEF Begin
  <2>3. AloneInv'
    BY <2>1 DEF AloneInv
  <2>4. HeldInv' /\ PassedInv' /\ AuthInv'
    BY <1>i, <2>1, <2>2 DEF HeldInv, PassedInv, AuthInv
  <2>. QED BY <1>i, <2>2, <2>3, <2>4 DEF SavedInv, EmptyInv, SavedSurvives
<1>2. ASSUME NEW r \in Requests, Apply(r) PROVE SavedInv'
  <2>0. /\ pc[r] = "apply" /\ req[r].at \in 1..6 /\ req[r].body \in Bodies
        /\ UNCHANGED <<auth, ticker, stored>>
    BY <1>2, <1>t DEF Apply, RequestType, ApplyOrder
  <2>1. /\ \A s \in Requests \ {r} : pc'[s] = pc[s] /\ req'[s] = req[s]
        /\ pc'[r] # "idle" => req'[r].alone = req[r].alone
        /\ pc'[r] \in {"idle", "apply"} \/ (pc'[r] = "read" /\ req'[r].at = 1)
    <3>1. CASE Ends(r)
      BY <2>0, <3>1, <1>t DEF Ends
    <3>2. CASE Next1(r) /\ UNCHANGED pc
      BY <2>0, <3>2, <1>t, MoveToFacts DEF Next1
    <3>3. CASE MoveTo(r, 1, None) /\ pc' = [pc EXCEPT ![r] = "read"]
      BY <2>0, <3>3, <1>t, MoveToFacts
    <3>. QED BY <1>2, <3>1, <3>2, <3>3 DEF Apply
  <2>2. AloneInv'
    BY <1>i, <2>0, <2>1, AloneStays
  <2>3. CASE UNCHANGED <<conf, unsaved>>
    <3>1. HeldInv' /\ AuthInv'
      BY <1>i, <2>0, <2>1, <2>3 DEF HeldInv, AuthInv
    <3>2. PassedInv'
      <4>1. ASSUME NEW s \in Requests, pc'[s] \in {"read", "write"}, req'[s].alone, NEW i \in 1..(req'[s].at - 1)
            PROVE  s # r /\ pc'[s] = pc[s] /\ req'[s] = req[s]
        BY <2>0, <2>1, <4>1
      <4>. QED BY <1>i, <2>0, <2>3, <4>1 DEF PassedInv, Match
    <3>. QED BY <1>i, <2>0, <2>2, <2>3, <3>1, <3>2 DEF SavedInv, EmptyInv, SavedSurvives
  <2>4. CASE ~UNCHANGED <<conf, unsaved>>
    <3> DEFINE f == ApplyOrder[req[r].at]
               v == req[r].body[f]
    <3>1. /\ req[r].at <= Len(ApplyOrder) /\ v \notin {Bad, Absent} /\ ~(f = "token" /\ v = Empty)
          /\ conf' = [conf EXCEPT ![f] = v] /\ unsaved' = unsaved \cup {f} /\ pc'[r] = "apply"
      BY <1>2, <1>t, <2>0, <2>4 DEF Apply
    <3>2. f \in Fields /\ (v = Empty => f = "ignore")
      BY <2>0, <3>1, BodyAssumption DEF ApplyOrder, Fields
    <3>3. EmptyInv'
      BY <1>i, <1>t, <2>0, <3>1, <3>2 DEF EmptyInv, Saved
    <3>4. HeldInv'
      <4> SUFFICES ASSUME NEW s \in Requests, pc'[s] = "write"
                   PROVE  /\ SaveOrder[req'[s].at] = "token" => conf'["token"] # Empty
                          /\ SaveOrder[req'[s].at] \notin unsaved' \/ req'[s].alone
                                => req'[s].held = conf'[SaveOrder[req'[s].at]]
        BY DEF HeldInv
      <4>1. s # r /\ pc[s] = "write" /\ req'[s] = req[s] /\ ~req[s].alone
        BY <1>i, <2>0, <2>1, <3>1 DEF AloneInv
      <4>2. SaveOrder[req[s].at] \in Fields
        BY <1>t, <4>1 DEF RequestType, SaveOrder, Fields
      <4>. QED BY <1>i, <1>t, <3>1, <3>2, <4>1, <4>2 DEF HeldInv, Fields
    <3>5. PassedInv'
      BY <1>i, <2>0, <2>1, <3>1 DEF PassedInv, AloneInv
    <3>6. AuthInv'
      BY <1>i, <2>0, <2>1, <3>1 DEF AuthInv
    <3>7. SavedSurvives'
      BY <1>i, <1>t, <2>0, <3>1, <3>2 DEF SavedSurvives, Saved, Fields
    <3>. QED BY <2>2, <3>3, <3>4, <3>5, <3>6, <3>7 DEF SavedInv
  <2>. QED BY <2>3, <2>4
<1>3. ASSUME NEW r \in Requests, Read(r) PROVE SavedInv'
  <2>0. /\ pc[r] = "read" /\ req[r].at \in 1..5 /\ UNCHANGED <<config, stored>>
    BY <1>3, <1>t DEF Read, RequestType, SaveOrder
  <2>1. /\ \A s \in Requests \ {r} : pc'[s] = pc[s] /\ req'[s] = req[s]
        /\ pc'[r] # "idle" => req'[r].alone = req[r].alone
    <3>1. CASE Ends(r)
      BY <2>0, <3>1, <1>t DEF Ends
    <3>2. CASE Next1(r) /\ UNCHANGED pc
      BY <2>0, <3>2, <1>t, MoveToFacts DEF Next1
    <3>3. CASE MoveTo(r, req[r].at, conf[SaveOrder[req[r].at]]) /\ pc' = [pc EXCEPT ![r] = "write"]
      BY <2>0, <3>3, <1>t, MoveToFacts
    <3>. QED BY <1>3, <3>1, <3>2, <3>3 DEF Read
  <2>2. AloneInv' /\ EmptyInv'
    BY <1>i, <2>0, <2>1, AloneStays DEF EmptyInv
  <2>3. CASE req[r].at > Len(SaveOrder)
    <3>1. pc'[r] = "idle" /\ unsaved' = IF req[r].alone THEN unsaved \cap {"auth"} ELSE unsaved
      BY <1>3, <1>t, <2>3 DEF Read, Ends
    <3>2. SavedSurvives'
      <4>1. CASE req[r].alone
        <5>1. \A f \in Saved : Match(f)
          BY <1>i, <2>0, <2>3, <4>1 DEF PassedInv, SaveOrder, Saved, Fields
        <5>. QED BY <1>i, <2>0, <3>1, <4>1, <5>1 DEF SavedSurvives, Match
      <4>2. CASE ~req[r].alone
        BY <1>i, <2>0, <3>1, <4>2 DEF SavedSurvives
      <4>. QED BY <4>1, <4>2
    <3>3. HeldInv' /\ PassedInv'
      BY <1>i, <2>0, <2>1, <3>1 DEF HeldInv, PassedInv, AloneInv, Match
    <3>4. AuthInv'
      BY <1>i, <2>0, <2>1, <3>1 DEF AuthInv
    <3>. QED BY <2>2, <3>2, <3>3, <3>4 DEF SavedInv
  <2>4. CASE ~(req[r].at > Len(SaveOrder))
    <3> DEFINE f == SaveOrder[req[r].at]
    <3>1. UNCHANGED unsaved /\ f \in Saved /\ req[r].at \in 1..4
      BY <1>3, <2>0, <2>4 DEF Read, SaveOrder, Saved, Fields
    <3>2. AuthInv' /\ SavedSurvives'
      <4>1. pc'[r] \in {"read", "write"}
        BY <1>3, <1>t, <2>0, <2>4 DEF Read
      <4>. QED BY <1>i, <2>0, <2>1, <3>1, <4>1 DEF AuthInv, SavedSurvives
    <3>3. CASE f = "token" /\ conf[f] = Empty
      <4>1. pc'[r] = "read" /\ req'[r].at = req[r].at + 1
        <5>1. MoveTo(r, req[r].at + 1, None) /\ UNCHANGED pc
          BY <1>3, <2>4, <3>3 DEF Read, Next1
        <5>. QED BY <2>0, <1>t, <5>1, MoveToFacts
      <4>2. Match(f)
        BY <1>i, <3>1, <3>3 DEF EmptyInv, Match, Load, Saved, Fields
      <4>3. HeldInv' /\ PassedInv'
        BY <1>i, <2>0, <2>1, <3>1, <4>1, <4>2 DEF HeldInv, PassedInv, Match
      <4>. QED BY <2>2, <3>2, <4>3 DEF SavedInv
    <3>4. CASE ~(f = "token" /\ conf[f] = Empty)
      <4>1. pc'[r] = "write" /\ req'[r].at = req[r].at /\ req'[r].held = conf[f]
        <5>1. MoveTo(r, req[r].at, conf[f]) /\ pc' = [pc EXCEPT ![r] = "write"]
          BY <1>3, <2>4, <3>4 DEF Read
        <5>. QED BY <1>t, <5>1, MoveToFacts
      <4>2. HeldInv' /\ PassedInv'
        BY <1>i, <2>0, <2>1, <3>1, <3>4, <4>1 DEF HeldInv, PassedInv, Match
      <4>. QED BY <2>2, <3>2, <4>2 DEF SavedInv
    <3>. QED BY <3>3, <3>4
  <2>. QED BY <2>3, <2>4
<1>4. ASSUME NEW r \in Requests, Write(r) PROVE SavedInv'
  <2>a. /\ pc[r] = "write" /\ req[r].at \in 1..4 /\ req[r].held \in Values
        /\ SaveOrder[req[r].at] \in Saved /\ UNCHANGED <<config, unsaved, dbAuth>>
    BY <1>4, <1>t DEF Write, RequestType, SaveOrder, Saved, Fields
  <2>b. PICK f \in Saved, v \in Values : f = SaveOrder[req[r].at] /\ v = req[r].held
    BY <2>a
  <2>0. /\ pc[r] = "write" /\ req[r].at \in 1..4 /\ UNCHANGED <<config, unsaved, dbAuth>>
        /\ f = SaveOrder[req[r].at] /\ v = req[r].held /\ f \in Fields
    BY <2>a, <2>b DEF Saved
  <2>1. CASE Ends(r) /\ UNCHANGED db
    <3>1. pc'[r] = "idle" /\ \A s \in Requests \ {r} : pc'[s] = pc[s] /\ req'[s] = req[s]
      BY <1>t, <2>1 DEF Ends
    <3>2. AloneInv'
      BY <1>i, <2>0, <3>1, AloneStays
    <3>3. HeldInv' /\ PassedInv' /\ AuthInv'
      BY <1>i, <2>0, <2>1, <3>1 DEF HeldInv, PassedInv, AuthInv, Match
    <3>. QED BY <1>i, <2>0, <2>1, <3>2, <3>3 DEF SavedInv, EmptyInv, SavedSurvives
  <2>2. CASE Next1(r) /\ pc' = [pc EXCEPT ![r] = "read"] /\ db' = [db EXCEPT ![f] = v]
    <3>1. /\ \A s \in Requests \ {r} : pc'[s] = pc[s] /\ req'[s] = req[s]
          /\ pc'[r] = "read" /\ req'[r].at = req[r].at + 1 /\ req'[r].alone = req[r].alone
      BY <1>t, <2>2, MoveToFacts DEF Next1
    <3>2. AloneInv'
      BY <1>i, <2>0, <3>1, AloneStays
    <3>3. /\ v # Empty \/ Env[f] = Empty => Load(db')[f] = v
          /\ \A g \in Fields \ {f} : Load(db')[g] = Load(db)[g]
      <4>1. /\ db \in [Fields -> Values \cup {None}] /\ db' = [db EXCEPT ![f] = v]
            /\ f \in Saved /\ v \in Values
        BY <1>t, <2>b, <2>2
      <4>2. (v # Empty \/ Env[f] = Empty) => Load(db')[f] = v
        BY <4>1, NoValueAssumption DEF Load, Saved
      <4>3. \A g \in Fields \ {f} : Load(db')[g] = Load(db)[g]
        BY <4>1 DEF Load, Saved
      <4>. QED BY <4>2, <4>3
    <3>4. (f \notin unsaved \/ req[r].alone) => Match(f)'
      <4>1. SUFFICES ASSUME f \notin unsaved \/ req[r].alone PROVE Match(f)'
        OBVIOUS
      <4>2. v = conf[f]
        BY <1>i, <2>0, <4>1 DEF HeldInv
      <4>3. v = Empty => f = "ignore" \/ Env[f] = Empty
        BY <1>i, <2>0, <4>2 DEF EmptyInv
      <4>. QED BY <2>0, <3>3, <4>2, <4>3 DEF Match
    <3>5. \A g \in Saved \ {f} : Match(g) => Match(g)'
      BY <2>0, <3>3 DEF Match, Saved
    <3>6. EmptyInv'
      BY <1>i, <1>t, <2>0, <2>2 DEF EmptyInv, HeldInv, Saved, Fields
    <3>7. HeldInv' /\ AuthInv'
      BY <1>i, <2>0, <3>1 DEF HeldInv, AuthInv
    <3>8. PassedInv'
      <4> SUFFICES ASSUME NEW s \in Requests, pc'[s] \in {"read", "write"}, req'[s].alone,
                          NEW i \in 1..(req'[s].at - 1)
                   PROVE  Match(SaveOrder[i])'
        BY DEF PassedInv
      <4>1. s = r
        BY <1>i, <2>0, <3>1 DEF AloneInv
      <4>2. CASE i = req[r].at
        <5>1. req[r].alone /\ SaveOrder[i] = f
          BY <2>0, <3>1, <4>1, <4>2
        <5>. QED BY <3>4, <5>1
      <4>3. CASE i # req[r].at
        <5>1. i \in 1..(req[r].at - 1) /\ req[r].alone
          BY <2>0, <3>1, <4>1, <4>3
        <5>2. SaveOrder[i] \in Saved \ {f}
          BY <2>0, <5>1 DEF SaveOrder, Saved, Fields
        <5>. QED BY <1>i, <2>0, <3>5, <5>1, <5>2 DEF PassedInv
      <4>. QED BY <4>2, <4>3
    <3>9. SavedSurvives'
      <4>1. \A g \in Saved \ unsaved' : Match(g)'
        BY <1>i, <2>0, <3>4, <3>5 DEF SavedSurvives, Match
      <4>. QED BY <1>i, <2>0, <4>1 DEF SavedSurvives, Match
    <3>. QED BY <3>2, <3>6, <3>7, <3>8, <3>9 DEF SavedInv
  <2>. QED BY <1>4, <2>0, <2>1, <2>2 DEF Write
<1>5. ASSUME NEW r \in Requests, Build(r) PROVE SavedInv'
  <2>1. /\ pc[r] = "build" /\ pc'[r] = "issuer" /\ UNCHANGED <<config, stored, unsaved>>
        /\ \A s \in Requests \ {r} : pc'[s] = pc[s] /\ req'[s] = req[s]
        /\ req'[r].alone = req[r].alone
    BY <1>5, <1>t DEF Build, RequestRecord
  <2>2. AloneInv'
    BY <1>i, <2>1, AloneStays
  <2>3. HeldInv' /\ PassedInv' /\ AuthInv'
    BY <1>i, <2>1 DEF HeldInv, PassedInv, AuthInv, Match
  <2>. QED BY <1>i, <2>1, <2>2, <2>3 DEF SavedInv, EmptyInv, SavedSurvives
<1>6. ASSUME NEW r \in Requests, ApplyAuth(r) PROVE SavedInv'
  <2>1. /\ pc[r] \in {"issuer", "secret"} /\ pc'[r] \in {"secret", "invalidate"}
        /\ UNCHANGED <<conf, stored, req>> /\ unsaved' = unsaved \cup {"auth"}
        /\ \A s \in Requests \ {r} : pc'[s] = pc[s]
    BY <1>6, <1>t DEF ApplyAuth
  <2>2. AloneInv'
    BY <1>i, <2>1, AloneStays
  <2>3. HeldInv' /\ PassedInv'
    BY <1>i, <2>1 DEF HeldInv, PassedInv, Match
  <2>4. AuthInv'
    <3>1. \A s \in Requests \ {r} : pc'[s] # "idle" => ~req[s].alone
      BY <1>i, <2>1 DEF AloneInv
    <3>2. req[r].copy \in AuthType
      BY <1>t, <2>1 DEF RequestType
    <3>3. pc'[r] = "secret" => auth'.issuer = req[r].copy.issuer
      BY <1>6, <1>t DEF ApplyAuth, AuthType
    <3>4. pc'[r] = "invalidate" /\ req[r].alone => auth' = req[r].copy
      BY <1>6, <1>i, <1>t, <3>2 DEF ApplyAuth, AuthInv, AuthType
    <3>. QED BY <2>1, <3>1, <3>3, <3>4 DEF AuthInv
  <2>. QED BY <1>i, <2>1, <2>2, <2>3, <2>4 DEF SavedInv, EmptyInv, SavedSurvives
<1>7. ASSUME NEW r \in Requests, Invalidate(r) PROVE SavedInv'
  <2>1. /\ pc[r] = "invalidate" /\ pc'[r] = "saveauth" /\ UNCHANGED <<config, stored, req, unsaved>>
        /\ \A s \in Requests \ {r} : pc'[s] = pc[s]
    BY <1>7, <1>t DEF Invalidate
  <2>2. AloneInv'
    BY <1>i, <2>1, AloneStays
  <2>3. HeldInv' /\ PassedInv' /\ AuthInv'
    BY <1>i, <2>1 DEF HeldInv, PassedInv, AuthInv, Match
  <2>. QED BY <1>i, <2>1, <2>2, <2>3 DEF SavedInv, EmptyInv, SavedSurvives
<1>8. ASSUME NEW r \in Requests, SaveAuth(r) PROVE SavedInv'
  <2>1. /\ pc[r] = "saveauth" /\ pc'[r] = "idle" /\ UNCHANGED <<config, db>>
        /\ \A s \in Requests \ {r} : pc'[s] = pc[s] /\ req'[s] = req[s]
        /\ unsaved' = unsaved \/ (req[r].alone /\ unsaved' = unsaved \ {"auth"})
    <3>1. Ends(r) /\ pc[r] = "saveauth" /\ UNCHANGED <<config, db>>
      BY <1>8 DEF SaveAuth
    <3>2. unsaved' = unsaved \/ (req[r].alone /\ unsaved' = unsaved \ {"auth"})
      BY <1>8 DEF SaveAuth
    <3>3. pc'[r] = "idle" /\ \A s \in Requests \ {r} : pc'[s] = pc[s] /\ req'[s] = req[s]
      BY <1>t, <3>1 DEF Ends
    <3>. QED BY <3>1, <3>2, <3>3
  <2>2. AloneInv'
    BY <1>i, <2>1, AloneStays
  <2>3. HeldInv' /\ PassedInv'
    <3>1. \A s \in Requests : pc[s] = "write" => SaveOrder[req[s].at] # "auth"
      BY <1>t DEF RequestType, SaveOrder
    <3>. QED BY <1>i, <2>1, <3>1 DEF HeldInv, PassedInv, Match
  <2>4. AuthInv'
    BY <1>i, <2>1 DEF AuthInv, AloneInv
  <2>5. SavedSurvives'
    <3>1. "auth" \in unsaved /\ (req[r].alone => auth = req[r].copy) /\ "auth" \notin Saved
      BY <1>i, <2>1 DEF AuthInv, Saved, Fields
    <3>2. unsaved' = unsaved \/ auth' = LoadAuth(dbAuth')
      <4>1. req[r].copy # None
        BY <1>t, <2>1, NoValueAssumption DEF RequestType
      <4>. QED BY <1>8, <2>1, <3>1, <4>1 DEF SaveAuth, LoadAuth
    <3>. QED BY <1>i, <2>1, <3>1, <3>2 DEF SavedSurvives
  <2>. QED BY <1>i, <2>1, <2>2, <2>3, <2>4, <2>5 DEF SavedInv, EmptyInv
<1>9. CASE UNCHANGED <<config, stored, pc, req, unsaved>>
  BY <1>i, <1>9 DEF SavedInv, AloneInv, EmptyInv, HeldInv, PassedInv, AuthInv, SavedSurvives, Match
<1>10. CASE Restart
  <2>1. /\ pc' = [r \in Requests |-> "idle"] /\ unsaved' = {} /\ UNCHANGED stored
        /\ conf' = Load(db) /\ auth' = LoadAuth(dbAuth)
    BY <1>10 DEF Restart
  <2>2. EmptyInv'
    BY <2>1 DEF EmptyInv, Load, Saved, Fields
  <2>. QED BY <2>1, <2>2 DEF SavedInv, AloneInv, HeldInv, PassedInv, AuthInv, SavedSurvives
<1>11. \A l \in Logins : Ensure(l) \/ Discovered(l) \/ Use(l) => UNCHANGED <<config, stored, pc, req, unsaved>>
  BY DEF Ensure, Discovered, Use
<1>12. UNCHANGED vars => UNCHANGED <<config, stored, pc, req, unsaved>>
  BY DEF vars
<1>. QED
  BY <1>1, <1>2, <1>3, <1>4, <1>5, <1>6, <1>7, <1>8, <1>9, <1>10, <1>11, <1>12 DEF Next, Serving, Request

\* What a change of the settings was answered for is what a restart loads
\* (settings_handlers.go:57-84 against 26-55), if the change ran alone.
THEOREM SavedIsLoaded == Spec => []SavedSurvives
<1>1. Spec => [](TypeOK /\ SavedInv)
  BY InitType, StepType, SavedInit, SavedStep, PTL DEF Spec
<1>2. SavedInv => SavedSurvives
  BY DEF SavedInv
<1>. QED BY <1>1, <1>2, PTL

-----------------------------------------------------------------------------
(* The list of migrations: every version is in it, and what a migration    *)
(* adds is what its steps add.                                             *)
LEMMA Migrations ==
  /\ Len(Order) = 5 /\ \A i \in 1..5 : Order[i] \in Versions
  /\ \A v \in Versions : \E i \in 1..5 : Order[i] = v
BY DEF Order, Versions

LEMMA Additions ==
  ASSUME NEW v \in Versions
  PROVE  /\ Len(Adds[v]) \in 1..6
         /\ Added(v) \subseteq Columns
         /\ \A i \in 1..Len(Adds[v]) : Adds[v][i] \in Columns
<1>1. Len(Adds[v]) \in 1..6
  BY DEF Adds, Versions
<1>. QED BY <1>1 DEF Added, Columns

LEMMA TableColumns == \A t : ColumnsOf(t) \subseteq Columns
<1>1. 2 \in Versions /\ 4 \in Versions
  BY DEF Versions
<1>2. /\ {Adds[4][i] : i \in 3..6} \subseteq Added(4)
      /\ {Adds[4][i] : i \in 3..6} = {"swarm_service_id", "swarm_service_name", "swarm_task_id", "swarm_node_id"}
  BY DEF Added, Adds
<1>3. OfContainers \subseteq Columns
  BY <1>1, <1>2, Additions DEF OfContainers
<1>. QED BY <1>3 DEF ColumnsOf

-----------------------------------------------------------------------------
(* Where a start is says what is done: the migrations before the one it     *)
(* looks at are recorded, and the columns before the one it looks at are    *)
(* there or in the transaction.  What is recorded is there, always: the     *)
(* record is committed with the columns.                                   *)

Recorded == \A v \in recorded : Added(v) \subseteq columns

Progress ==
  /\ stage \in {"migrate", "alter"} =>
       /\ at \in 1..6 /\ col \in 1..7
       /\ \A i \in 1..5 : i < at => Order[i] \in recorded
  /\ stage = "alter" =>
       /\ at <= 5
       /\ \A i \in 1..Len(Adds[Order[at]]) : i < col => Adds[Order[at]][i] \in columns \cup tx
       /\ col <= Len(Adds[Order[at]]) + 1

Schema ==
  /\ columns \subseteq Columns /\ tx \subseteq Columns
  /\ recorded \subseteq Versions
  /\ stage = "schema" => at \in 1..2
  /\ Recorded
  /\ Progress
  /\ stage \in Ready => recorded = Versions

LEMMA InitSchema == StartupInit => Schema
<1> SUFFICES ASSUME StartupInit PROVE Schema
  OBVIOUS
<1>1. recorded \subseteq Versions
  BY DEF StartupInit, Releases, Versions
<1>2. {"kind", "managed"} \subseteq Columns
  <2>1. Adds[1][1] = "kind" /\ Adds[2][2] = "managed"
    BY DEF Adds
  <2>2. Len(Adds[1]) = 5 /\ Len(Adds[2]) = 2
    BY DEF Adds
  <2>. QED BY <2>1, <2>2, Additions DEF Versions
<1>3. columns \subseteq Columns
  BY <1>1, <1>2, Additions DEF StartupInit
<1>4. Recorded
  BY DEF StartupInit, Recorded
<1>. QED BY <1>1, <1>3, <1>4 DEF StartupInit, Schema, Progress, Ready

LEMMA StepSchema == Schema /\ [StartupNext]_startup => Schema'
<1> SUFFICES ASSUME Schema, [StartupNext]_startup PROVE Schema'
  OBVIOUS
<1> USE DEF database, GoOn
<1>1. CASE Start
  BY <1>1 DEF Start, Schema, Recorded, Progress, Ready
<1>2. CASE CreateTable
  <2>1. columns \subseteq columns' /\ columns' \subseteq Columns
    BY <1>2, TableColumns DEF CreateTable, Schema
  <2>2. /\ UNCHANGED <<recorded, tx>>
        /\ \/ stage' = "schema" /\ at' \in 1..2
           \/ stage' = "migrate" /\ at' = 1 /\ col' = 1
    BY <1>2 DEF CreateTable, Schema, Tables
  <2>. QED BY <2>1, <2>2 DEF Schema, Recorded, Progress, Ready
<1>3. CASE Migrate
  <2>1. /\ UNCHANGED <<columns, recorded, tx>> /\ stage = "migrate" /\ at \in 1..6
        /\ \A i \in 1..5 : i < at => Order[i] \in recorded
    BY <1>3 DEF Migrate, Schema, Progress
  <2>2. CASE at > Len(Order)
    <3>1. recorded = Versions
      BY <2>1, <2>2, Migrations DEF Schema
    <3>2. stage' = "local"
      BY <1>3, <2>2 DEF Migrate
    <3>. QED BY <2>1, <3>1, <3>2 DEF Schema, Recorded, Progress, Ready
  <2>3. CASE at <= Len(Order) /\ Order[at] \in recorded
    <3>1. stage' = "migrate" /\ at' = at + 1 /\ col' = 1 /\ at \in 1..5
      BY <1>3, <2>1, <2>3, Migrations DEF Migrate
    <3>2. \A i \in 1..5 : i < at' => Order[i] \in recorded'
      BY <2>1, <2>3, <3>1
    <3>. QED BY <2>1, <3>1, <3>2 DEF Schema, Recorded, Progress, Ready
  <2>4. CASE at <= Len(Order) /\ Order[at] \notin recorded
    <3>1. stage' = "alter" /\ at' = at /\ col' = 1 /\ at \in 1..5
      BY <1>3, <2>1, <2>4, Migrations DEF Migrate
    <3>2. Len(Adds[Order[at]]) \in Nat
      BY <3>1, Migrations, Additions
    <3>. QED BY <2>1, <3>1, <3>2 DEF Schema, Recorded, Progress, Ready
  <2>. QED BY <2>1, <2>2, <2>3, <2>4, Migrations
<1>4. CASE AddColumn
  <2> DEFINE names == Adds[Order[at]]
  <2>1. /\ stage = "alter" /\ at \in 1..5 /\ col \in 1..Len(names)
        /\ \A i \in 1..5 : i < at => Order[i] \in recorded
        /\ \A i \in 1..Len(names) : i < col => names[i] \in columns \cup tx
    BY <1>4 DEF AddColumn, Schema, Progress
  <2>2. Len(names) \in 1..6 /\ names[col] \in Columns
    BY <2>1, Migrations, Additions
  <2>3. /\ UNCHANGED <<columns, recorded>> /\ stage' = "alter" /\ at' = at /\ col' = col + 1
        /\ tx' = IF names[col] \in columns THEN tx ELSE tx \cup {names[col]}
    BY <1>4 DEF AddColumn
  <2>4. \A i \in 1..Len(names) : i < col' => names[i] \in columns \cup tx'
    <3> SUFFICES ASSUME NEW i \in 1..Len(names), i < col' PROVE names[i] \in columns \cup tx'
      OBVIOUS
    <3>1. CASE i < col
      BY <2>1, <2>3, <3>1
    <3>2. CASE i = col
      BY <2>3, <3>2
    <3>. QED BY <2>1, <2>2, <2>3, <3>1, <3>2
  <2>5. tx' \subseteq Columns /\ col' \in 1..7 /\ col' <= Len(names) + 1
    BY <2>1, <2>2, <2>3 DEF Schema
  <2>. QED BY <2>1, <2>3, <2>4, <2>5 DEF Schema, Recorded, Progress, Ready
<1>5. CASE Commit
  <2> DEFINE v == Order[at]
  <2>1. /\ stage = "alter" /\ at \in 1..5 /\ col > Len(Adds[v])
        /\ \A i \in 1..5 : i < at => Order[i] \in recorded
        /\ \A i \in 1..Len(Adds[v]) : i < col => Adds[v][i] \in columns \cup tx
    BY <1>5 DEF Commit, Schema, Progress
  <2>2. /\ columns' = columns \cup tx /\ tx' = {} /\ recorded' = recorded \cup {v}
        /\ stage' = "migrate" /\ at' = at + 1 /\ col' = 1
    BY <1>5 DEF Commit
  <2>3. v \in Versions /\ Len(Adds[v]) \in 1..6 /\ col \in 1..7
    BY <2>1, Migrations, Additions DEF Schema, Progress
  <2>4. Added(v) \subseteq columns'
    BY <2>1, <2>2, <2>3 DEF Added
  <2>5. Recorded'
    BY <2>2, <2>4 DEF Schema, Recorded
  <2>6. \A i \in 1..5 : i < at' => Order[i] \in recorded'
    BY <2>1, <2>2
  <2>. QED BY <2>1, <2>2, <2>3, <2>5, <2>6 DEF Schema, Progress, Ready
<1>6. CASE EnsureLocal \/ EnsureAdmin \/ Listen
  <2>1. UNCHANGED <<columns, recorded, tx>> /\ stage \in Ready /\ stage' \in Ready
    BY <1>6 DEF EnsureLocal, EnsureAdmin, Listen, Ready
  <2>. QED BY <2>1 DEF Schema, Recorded, Progress, Ready
<1>7. CASE Stop \/ Crash
  <2>1. UNCHANGED <<columns, recorded>> /\ stage' = "off" /\ tx' \subseteq Columns
    BY <1>7 DEF Stop, Crash, Schema
  <2>. QED BY <2>1 DEF Schema, Recorded, Progress, Ready
<1>8. CASE Older
  BY <1>8 DEF Older, Schema, Recorded, Progress, Ready
<1>9. CASE UNCHANGED startup
  BY <1>9 DEF startup, Schema, Recorded, Progress, Ready
<1>. QED BY <1>1, <1>2, <1>3, <1>4, <1>5, <1>6, <1>7, <1>8, <1>9 DEF StartupNext, Step

LEMMA SchemaIsReady == Schema => SchemaReady
BY Additions DEF Schema, Recorded, SchemaReady, Columns

\* Whatever release made the database, wherever starts were cut short and however
\* often an older release ran in between, a process past Open finds every column
\* and has every migration recorded (store.go:249-280).
THEOREM OpenIsReady == StartupSpec => []SchemaReady
<1>1. StartupInit => Schema
  BY InitSchema
<1>2. Schema /\ [StartupNext]_startup => Schema'
  BY StepSchema
<1>3. Schema => SchemaReady
  BY SchemaIsReady
<1>. QED BY <1>1, <1>2, <1>3, PTL DEF StartupSpec

-----------------------------------------------------------------------------
(* From start to start.                                                    *)

(* Seen from the settings a start is one step or nothing, and seen from the *)
(* start what a process does while it serves is nothing.                   *)
LEMMA SettingsOfLifetime ==
  /\ LifetimeInit => Init
  /\ [LifetimeNext]_<<vars, startup>> => [Next]_vars
<1>1. Work => Next
  BY DEF Work, Next
<1>2. End => Next
  BY DEF End, Next
<1>3. Prepare => UNCHANGED vars
  BY DEF Prepare
<1>. QED BY <1>1, <1>2, <1>3 DEF LifetimeInit, LifetimeNext

LEMMA StartsOfLifetime ==
  /\ LifetimeInit => StartupInit
  /\ [LifetimeNext]_<<vars, startup>> => [StartupNext]_startup
BY DEF LifetimeInit, LifetimeNext, Work, Prepare, End, StartupNext

\* Whatever starts come before, cut short or not: a provider is the one that the
\* live settings ask for or about to be dropped (auth.go:162-202), a restart loads
\* what was saved (settings_handlers.go:26-84), sessions stay valid,
\* and a process past Open has the schema (store.go:249-280).
THEOREM HoldsOverStarts == LifetimeSpec => [](ProviderCurrent /\ SavedSurvives /\ SessionsSurvive /\ SchemaReady)
<1> DEFINE Inv == TypeOK /\ ProviderInv /\ SavedInv /\ SessionInv /\ Schema
<1>1. LifetimeInit => Inv
  BY SettingsOfLifetime, StartsOfLifetime, InitType, ProviderInit, SavedInit, SessionInit, InitSchema
<1>2. Inv /\ [LifetimeNext]_<<vars, startup>> => Inv'
  BY SettingsOfLifetime, StartsOfLifetime, StepType, ProviderStep, SavedStep, SessionStep, StepSchema
<1>3. Inv => ProviderCurrent /\ SavedSurvives /\ SessionsSurvive /\ SchemaReady
  BY SchemaIsReady DEF ProviderInv, SavedInv, SessionInv
<1>. QED BY <1>1, <1>2, <1>3, PTL DEF LifetimeSpec
=============================================================================
