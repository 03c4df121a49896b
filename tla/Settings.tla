------------------------------- MODULE Settings -------------------------------
(***************************************************************************)
(* Settings that an administrator changes while the server runs:           *)
(* internal/server/settings_handlers.go, auth_settings.go, and the OIDC    *)
(* provider and session secret of internal/server/auth/auth.go.            *)
(*                                                                         *)
(* A setting is in three places: the configuration the process started     *)
(* with (Env), the live one, which requests change field by field and      *)
(* without a lock, and the database, which a restart lays over Env.        *)
(*                                                                         *)
(* Fields stand for their kind: "count" for those that are set and saved   *)
(* when they are present, "ignore" for a list, which may be empty,         *)
(* "interval" for the update interval, "self" for the self-update          *)
(* interval, "token" for the two tokens, which only a value replaces.      *)
(***************************************************************************)
EXTENDS Naturals, Sequences, FiniteSets

CONSTANTS Requests, Logins,   \* goroutines that change settings, and that log in
          Bodies,             \* what a request to change the settings may say
          AuthBodies,         \* the same for the OIDC settings
          Env, EnvAuth, EnvSecret,
          Absent, Bad, None,  \* a field not present, one that does not parse, no value
          MaxRequests, MaxRestarts   \* bounds

Fields == {"count", "ignore", "interval", "self", "token"}
Empty == 0
Values == 0..2

AuthType == [issuer : 1..2, secret : Values]

ASSUME NoValueAssumption == /\ {Absent, Bad, None} \cap Values = {} /\ Absent # Bad
                            /\ None \notin AuthType /\ None \notin Logins
                            /\ \A n \in 0..MaxRestarts : None # 10 + n
\* Only a list and a token can be empty.
ASSUME BodyAssumption == /\ Bodies \subseteq [Fields -> Values \cup {Absent, Bad}]
                         /\ \A b \in Bodies, f \in Fields \ {"ignore", "token"} : b[f] # Empty
ASSUME AuthBodyAssumption == AuthBodies \subseteq AuthType
ASSUME EnvAssumption == /\ Env \in [Fields -> Values]
                        /\ EnvAuth \in AuthType
                        /\ EnvSecret \in Values
ASSUME BoundAssumption == MaxRequests \in Nat /\ MaxRestarts \in Nat

VARIABLES conf, auth,         \* the live configuration
          db, dbAuth,         \* the settings table
          ticker,             \* the interval the updater loop runs at
          pc, req,            \* requests
          mutex, provider,    \* auth.Manager: who holds its lock, its provider
          login,
          secret, dbSecret, sessions,
          begun, restarts,
          asked, unsaved      \* history: the interval last accepted; fields not saved since

config == <<conf, auth, ticker>>
stored == <<db, dbAuth>>
oidc == <<mutex, provider, login>>
session == <<secret, dbSecret, sessions>>
bounds == <<begun, restarts>>
vars == <<config, stored, pc, req, oidc, session, bounds, asked, unsaved>>

----------------------------------------------------------------------------
(* loadRuntimeSettings: what a start makes of the table.  An empty value is *)
(* read as none, and the update interval is not there to be read.          *)
Saved == Fields \ {"interval"}
Load(table) ==
    [f \in Fields |-> IF f \in Saved /\ table[f] \notin {None, Empty} THEN table[f] ELSE Env[f]]
LoadAuth(table) == IF table = None THEN EnvAuth ELSE table

(* The order in which handlePutSettings looks at the fields, and in which  *)
(* saveRuntimeSettings writes them.                                        *)
ApplyOrder == <<"count", "ignore", "interval", "self", "token">>
SaveOrder == <<"count", "ignore", "token", "self">>

NoRequest == [at |-> 0, body |-> None, held |-> None, copy |-> None, alone |-> TRUE]
Active == {r \in Requests : pc[r] # "idle"}

(* A request begins; from then on none that is under way is alone.         *)
Begin(r, first, body, copy) ==
    /\ pc[r] = "idle" /\ begun < MaxRequests
    /\ begun' = begun + 1
    /\ pc' = [pc EXCEPT ![r] = first]
    /\ req' = [s \in Requests |->
                 IF s = r THEN [at |-> 1, body |-> body, held |-> None, copy |-> copy, alone |-> Active = {}]
                 ELSE [req[s] EXCEPT !.alone = FALSE]]
    /\ UNCHANGED <<config, stored, oidc, session, restarts, asked, unsaved>>

Ends(r) == /\ pc' = [pc EXCEPT ![r] = "idle"]
           /\ req' = [req EXCEPT ![r] = NoRequest]

----------------------------------------------------------------------------
(* handlePutSettings: each field that is present is checked and set.  A bad *)
(* one ends the request; those before it stay set.                         *)

MoveTo(r, at, held) == req' = [req EXCEPT ![r] = [req[r] EXCEPT !.at = at, !.held = held]]
Next1(r) == MoveTo(r, req[r].at + 1, None)

Apply(r) ==
    /\ pc[r] = "apply"
    /\ UNCHANGED <<auth, ticker, stored, oidc, session, bounds>>
    /\ IF req[r].at > Len(ApplyOrder)
       THEN /\ pc' = [pc EXCEPT ![r] = "read"]
            /\ MoveTo(r, 1, None)
            /\ UNCHANGED <<conf, asked, unsaved>>
       ELSE LET f == ApplyOrder[req[r].at]
                v == req[r].body[f]
            IN IF v = Bad
               THEN Ends(r) /\ UNCHANGED <<conf, asked, unsaved>>
               ELSE /\ Next1(r) /\ UNCHANGED <<pc, asked>>
                    /\ IF v = Absent \/ (f = "token" /\ v = Empty)
                       THEN UNCHANGED <<conf, unsaved>>
                       ELSE /\ conf' = [conf EXCEPT ![f] = v]
                            /\ unsaved' = unsaved \cup {f}

(* saveRuntimeSettings: every field, with the value it has by then; the    *)
(* value is read before the write waits for the database's one connection. *)
Read(r) ==
    /\ pc[r] = "read"
    /\ UNCHANGED <<config, stored, oidc, session, bounds>>
    /\ IF req[r].at > Len(SaveOrder)
       THEN /\ Ends(r)
            /\ asked' = IF req[r].body["interval"] \in Values THEN req[r].body["interval"] ELSE asked
            /\ unsaved' = IF req[r].alone THEN unsaved \cap {"auth"} ELSE unsaved
       ELSE LET f == SaveOrder[req[r].at] IN
            /\ UNCHANGED <<asked, unsaved>>
            /\ IF f = "token" /\ conf[f] = Empty
               THEN Next1(r) /\ UNCHANGED pc
               ELSE /\ MoveTo(r, req[r].at, conf[f])
                    /\ pc' = [pc EXCEPT ![r] = "write"]

Write_DropsToken(r) ==
    /\ pc[r] = "write"
    /\ Next1(r) /\ pc' = [pc EXCEPT ![r] = "read"]
    /\ db' = IF SaveOrder[req[r].at] = "token" THEN db
             ELSE [db EXCEPT ![SaveOrder[req[r].at]] = req[r].held]
    /\ UNCHANGED <<config, dbAuth, oidc, session, bounds, asked, unsaved>>
Write(r) ==
    /\ pc[r] = "write"
    /\ \/ /\ db' = [db EXCEPT ![SaveOrder[req[r].at]] = req[r].held]
          /\ Next1(r) /\ pc' = [pc EXCEPT ![r] = "read"]
       \/ Ends(r) /\ UNCHANGED db   \* the database refuses
    /\ UNCHANGED <<config, dbAuth, oidc, session, bounds, asked, unsaved>>

----------------------------------------------------------------------------
(* handlePutAuthSettings, of a request that passed its checks: the client  *)
(* secret is kept if none is given; the live settings are set, then the    *)
(* provider is dropped, then the request's own copy is saved.              *)

Build(r) ==
    /\ pc[r] = "build"
    /\ LET given == req[r].copy.secret IN
       req' = [req EXCEPT ![r].copy = [@ EXCEPT !.secret = IF given # Empty THEN given ELSE auth.secret]]
    /\ pc' = [pc EXCEPT ![r] = "issuer"]
    /\ UNCHANGED <<config, stored, oidc, session, bounds, asked, unsaved>>

(* applyRuntimeAuth: one field after the other. *)
ApplyAuth(r) ==
    /\ \/ /\ pc[r] = "issuer" /\ pc' = [pc EXCEPT ![r] = "secret"]
          /\ auth' = [auth EXCEPT !.issuer = req[r].copy.issuer]
       \/ /\ pc[r] = "secret" /\ pc' = [pc EXCEPT ![r] = "invalidate"]
          /\ auth' = [auth EXCEPT !.secret = req[r].copy.secret]
    /\ unsaved' = unsaved \cup {"auth"}
    /\ UNCHANGED <<conf, ticker, stored, req, oidc, session, bounds, asked>>

(* InvalidateOIDC waits for the lock, which a login may hold. *)
Invalidate_NoLock(r) ==
    /\ pc[r] = "invalidate"
    /\ provider' = None
    /\ pc' = [pc EXCEPT ![r] = "saveauth"]
    /\ UNCHANGED <<config, stored, req, mutex, login, session, bounds, asked, unsaved>>
Invalidate(r) ==
    /\ pc[r] = "invalidate" /\ mutex = None
    /\ provider' = None
    /\ pc' = [pc EXCEPT ![r] = "saveauth"]
    /\ UNCHANGED <<config, stored, req, mutex, login, session, bounds, asked, unsaved>>

SaveAuth(r) ==
    /\ pc[r] = "saveauth"
    /\ \/ dbAuth' = req[r].copy /\ unsaved' = IF req[r].alone THEN unsaved \ {"auth"} ELSE unsaved
       \/ UNCHANGED <<dbAuth, unsaved>>
    /\ Ends(r)
    /\ UNCHANGED <<config, db, oidc, session, bounds, asked>>

----------------------------------------------------------------------------
(* A login by OIDC, a request of its own.  ensureOIDC holds the lock while *)
(* it asks the issuer for its metadata; it reads the issuer before and the *)
(* secret after.  What follows uses the provider without the lock.         *)

NoLogin == [at |-> "idle", issuer |-> 0]

Ensure(l) ==
    /\ login[l].at = "idle" /\ mutex = None
    /\ IF provider # None
       THEN login' = [login EXCEPT ![l].at = "use"] /\ UNCHANGED mutex
       ELSE /\ login' = [login EXCEPT ![l] = [at |-> "discover", issuer |-> auth.issuer]]
            /\ mutex' = l
    /\ UNCHANGED <<config, stored, pc, req, provider, session, bounds, asked, unsaved>>

Discovered_KeepsLock(l) ==
    /\ login[l].at = "discover"
    /\ \/ /\ provider' = [issuer |-> login[l].issuer, secret |-> auth.secret]
          /\ login' = [login EXCEPT ![l].at = "use"]
          /\ mutex' = None
       \/ login' = [login EXCEPT ![l].at = "done"] /\ UNCHANGED <<mutex, provider>>
    /\ UNCHANGED <<config, stored, pc, req, session, bounds, asked, unsaved>>
Discovered(l) ==
    /\ login[l].at = "discover"
    /\ mutex' = None
    /\ \/ /\ provider' = [issuer |-> login[l].issuer, secret |-> auth.secret]
          /\ login' = [login EXCEPT ![l].at = "use"]
       \/ login' = [login EXCEPT ![l].at = "done"] /\ UNCHANGED provider   \* the issuer does not answer
    /\ UNCHANGED <<config, stored, pc, req, session, bounds, asked, unsaved>>

(* OIDCAuthURL, ExchangeOIDC, IssueSession.  Without a provider the handler *)
(* panics, and recoverMiddleware answers for it.                           *)
Use(l) ==
    /\ login[l].at = "use"
    /\ login' = [login EXCEPT ![l].at = IF provider = None THEN "panic" ELSE "done"]
    /\ sessions' = IF provider = None THEN sessions ELSE sessions \cup {secret}
    /\ UNCHANGED <<config, stored, pc, req, mutex, provider, secret, dbSecret, bounds, asked, unsaved>>

----------------------------------------------------------------------------
(* loadSecret: the configured one, the stored one, or a new one, which is  *)
(* stored.  `fresh' is the number a new one gets.                          *)
LoadSecret_Forgets(table, fresh) ==
    [secret |-> IF EnvSecret # Empty THEN EnvSecret ELSE IF table # None THEN table ELSE fresh,
     stored |-> table]
LoadSecret(table, fresh) ==
    [secret |-> IF EnvSecret # Empty THEN EnvSecret ELSE IF table # None THEN table ELSE fresh,
     stored |-> IF EnvSecret = Empty /\ table = None THEN fresh ELSE table]

(* The process ends anywhere and starts again: New, loadRuntimeSettings,   *)
(* loadAuthSettings, updaterLoop.                                          *)
Restart ==
    /\ restarts < MaxRestarts
    /\ restarts' = restarts + 1
    /\ conf' = Load(db) /\ auth' = LoadAuth(dbAuth)
    /\ ticker' = conf'["interval"]
    /\ pc' = [r \in Requests |-> "idle"] /\ req' = [r \in Requests |-> NoRequest]
    /\ mutex' = None /\ provider' = None
    /\ login' = [l \in Logins |-> IF login[l].at = "idle" THEN NoLogin ELSE [NoLogin EXCEPT !.at = "done"]]
    /\ secret' = LoadSecret(dbSecret, 10 + restarts').secret
    /\ dbSecret' = LoadSecret(dbSecret, 10 + restarts').stored
    /\ unsaved' = {}
    /\ UNCHANGED <<stored, sessions, begun, asked>>

Init ==
    /\ db = [f \in Fields |-> None] /\ dbAuth = None
    /\ conf = Load(db) /\ auth = LoadAuth(dbAuth)
    /\ ticker = conf["interval"]
    /\ pc = [r \in Requests |-> "idle"] /\ req = [r \in Requests |-> NoRequest]
    /\ mutex = None /\ provider = None /\ login = [l \in Logins |-> NoLogin]
    /\ secret = LoadSecret(None, 10).secret /\ dbSecret = LoadSecret(None, 10).stored
    /\ sessions = {}
    /\ begun = 0 /\ restarts = 0
    /\ asked = Env["interval"] /\ unsaved = {}

Request(r) == Apply(r) \/ Read(r) \/ Write(r) \/ Build(r) \/ ApplyAuth(r) \/ Invalidate(r) \/ SaveAuth(r)

Serving ==
    \/ \E r \in Requests : \/ \E b \in Bodies : Begin(r, "apply", b, None)
                           \/ \E b \in AuthBodies : Begin(r, "build", None, b)
                           \/ Request(r)
    \/ \E l \in Logins : Ensure(l) \/ Discovered(l) \/ Use(l)

Next == Serving \/ Restart

(* Goroutines run on, and an issuer answers or the call to it fails.       *)
Fairness ==
    /\ \A r \in Requests : WF_vars(Request(r))
    /\ \A l \in Logins : WF_vars(Discovered(l) \/ Use(l))

Spec == Init /\ [][Next]_vars /\ Fairness

----------------------------------------------------------------------------
(* Properties.                                                             *)

Providers == AuthType \cup {None}

(* The types; what a request carries depends on how far it is. *)
RequestRecord == [at : 0..(Len(ApplyOrder) + 1), body : Bodies \cup {None}, held : Values \cup {None},
                  copy : Providers, alone : BOOLEAN]
RequestType(r) ==
    /\ pc[r] = "apply" => req[r].at \in 1..(Len(ApplyOrder) + 1) /\ req[r].body \in Bodies
    /\ pc[r] = "read" => req[r].at \in 1..(Len(SaveOrder) + 1) /\ req[r].body \in Bodies
    /\ pc[r] = "write" => req[r].at \in 1..Len(SaveOrder) /\ req[r].body \in Bodies /\ req[r].held \in Values
    /\ pc[r] \in {"build", "issuer", "secret", "invalidate", "saveauth"} => req[r].copy \in AuthType
TypeOK ==
    /\ conf \in [Fields -> Values] /\ auth \in AuthType
    /\ db \in [Fields -> Values \cup {None}] /\ dbAuth \in Providers
    /\ ticker \in Values
    /\ pc \in [Requests -> {"idle", "apply", "read", "write", "build", "issuer", "secret",
                            "invalidate", "saveauth"}]
    /\ provider \in Providers
    /\ mutex \in Logins \cup {None}
    /\ req \in [Requests -> RequestRecord] /\ \A r \in Requests : RequestType(r)
    /\ login \in [Logins -> [at : {"idle", "discover", "use", "done", "panic"}, issuer : 0..2]]
    /\ \A l \in Logins : login[l].at = "discover" => login[l].issuer \in 1..2
    /\ secret # None /\ restarts \in 0..MaxRestarts /\ asked \in Values /\ unsaved \subseteq Fields \cup {"auth"}

(* A provider that was built from settings which are not the live ones any *)
(* more is about to be dropped: by a request that has still to do so.      *)
ProviderCurrent ==
    (provider # None /\ provider # auth)
       => \E r \in Requests : pc[r] \in {"secret", "invalidate"}

(* What a restart would load is what is live, for each setting that is     *)
(* saved, once the request that set it has been answered with success and  *)
(* ran alone; a list that was emptied is exempt (ClearedStays).            *)
SavedSurvives ==
    /\ \A f \in Saved \ unsaved : conf[f] = Load(db)[f] \/ (f = "ignore" /\ conf[f] = Empty)
    /\ "auth" \notin unsaved => auth = LoadAuth(dbAuth)

(* A session that was issued stays valid over restarts. *)
SessionsSurvive == \A s \in sessions : s = secret

(* A change of settings ends, whatever logins do meanwhile. *)
ChangesEnd == \A r \in Requests : pc[r] # "idle" ~> pc[r] = "idle"

(* An update interval that was accepted is the one checks run at, if not   *)
(* at once then after a restart (settings_handlers.go:13-14).              *)
IntervalTakesEffect == [][restarts' # restarts => ticker' = asked]_vars

(* A list of ignored images that was emptied stays empty over a restart.   *)
ClearedStays == [][(restarts' # restarts /\ conf["ignore"] = Empty /\ unsaved = {})
                     => conf'["ignore"] = Empty]_vars

(* A login that meets a change of the settings is answered.                *)
LoginAnswered == \A l \in Logins : login[l].at # "panic"
=============================================================================
