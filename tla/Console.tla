------------------------------ MODULE Console ------------------------------
(***************************************************************************)
(* The handlers of the Tactical WebUI that keep state between requests but *)
(* touch no job: logins and sessions (backend/auth/auth.py, api/auth.py),  *)
(* the setup wizard and its keys (api/setup.py), the choice of provider    *)
(* and model (api/providers.py), the cached provider health (api/health.py)*)
(* and what a start of the server makes of their files (main.py).          *)
(*                                                                         *)
(* None of these handlers awaits anything: each is one step of the loop.   *)
(* What is hard is what lies between two requests: time, restarts, and     *)
(* files of which a failed request has written only some.                  *)
(***************************************************************************)
EXTENDS Integers, Sequences, FiniteSets

CONSTANTS
  Users,        \* the users of users.json
  Tokens,       \* the session tokens there are to draw
  Clients,      \* the addresses that logins come from
  MaxFailures,  \* _MAX_FAILURES
  Window,       \* _LOCKOUT_WINDOW_S, in ticks
  SessionTTL,   \* SESSION_TTL_SECONDS, in ticks
  CacheTTL,     \* _CACHE_TTL_S, in ticks
  Providers,    \* the providers of config.json
  Models,       \* the models they name
  Available,    \* the pairs of a provider and a model of its available_models
  Checkers,     \* the providers with an entry in _CHECKERS
  KeyVars,      \* the providers with an api_key_env
  Keys,         \* the API keys there are to enter
  Inherited     \* the environment the server is started in: a key per provider

NoUser == "nouser"
NoKey == "nokey"
\* A file that was opened for writing, which empties it, and not written.
Torn == <<"torn", "torn">>
Absent == <<"absent", "absent">>
NoSession == [user |-> NoUser, left |-> 0]
Unused == [user |-> NoUser, age |-> 0, other |-> FALSE]
Spent == [user |-> NoUser, age |-> 1, other |-> FALSE]
NoHealth == [status |-> [p \in Providers |-> "none"], selection |-> Absent]

ASSUME UsersAssumption == NoUser \notin Users
ASSUME KeysAssumption == NoKey \notin Keys /\ Inherited \in [Providers -> Keys \cup {NoKey}]
ASSUME SelectionsAssumption ==
  Available \subseteq Providers \X Models /\ Torn \notin Available /\ Absent \notin Available
ASSUME TimesAssumption ==
  /\ MaxFailures \in Nat \ {0} /\ Window \in Nat \ {0}
  /\ SessionTTL \in Nat /\ CacheTTL \in Nat \ {0}

VARIABLES
  users,      \* AuthManager._users
  sessions,   \* _sessions: of each token its user and the ticks it has left
  failures,   \* _fail_timestamps: of each client the ages of its failures
  completed,  \* the users whose .setup_complete exists
  prefs,      \* .webui_prefs.json: a provider and a model
  config,     \* config.json: the active provider and the model it has
  envFile,    \* the API keys of .env
  environ,    \* the API keys of os.environ
  net,        \* what the providers with a checker answer to one
  cache,      \* _health_cache
  cacheAge,   \* the ticks since _cache_ts
  owed,       \* for the properties: the login a token was issued for, its age, and
              \* whether another session of its user has logged out since
  acked,      \* for the properties: the selection last acknowledged, if it stands
  quiet       \* for the properties: the ticks since what health reports changed

authVars == <<users, sessions, failures, owed>>
choiceVars == <<prefs, config, acked>>
keyVars == <<envFile, environ>>
healthVars == <<cache, cacheAge>>
vars == <<authVars, completed, choiceVars, keyVars, net, healthVars, quiet>>

Verdicts == {"healthy", "failing"}

NoKeys == [p \in Providers |-> NoKey]

\* main.py: what .env holds does not override what the environment has.
StartEnviron(file) ==
  [p \in Providers |-> IF Inherited[p] # NoKey THEN Inherited[p] ELSE file[p]]

\* reload_users: no file, or one that does not parse, is no users.
Loadable == {{}, Users}

Init ==
  /\ users \in Loadable
  /\ sessions = [t \in Tokens |-> NoSession]
  /\ failures = [c \in Clients |-> <<>>]
  /\ completed = {}
  /\ prefs = Absent
  /\ config \in Available
  /\ envFile = NoKeys
  /\ environ = StartEnviron(NoKeys)
  /\ net \in [Checkers -> Verdicts]
  /\ cache = NoHealth /\ cacheAge = 0
  /\ owed = [t \in Tokens |-> Unused]
  /\ acked = Absent
  /\ quiet = 0

-----------------------------------------------------------------------------
(* Logins and sessions.                                                    *)

\* The list of a client is in the order of time: pruning drops its oldest part.
Old(c) == {i \in DOMAIN failures[c] : failures[c][i] >= Window}
Pruned(c) == SubSeq(failures[c], 1 + Cardinality(Old(c)), Len(failures[c]))

\* MUTANT: one failure too many.
LimitedInclusive(c) == Len(Pruned(c)) > MaxFailures

\* _check_rate_limit
Limited(c) == Len(Pruned(c)) >= MaxFailures

LoginRefused(c) ==
  /\ Limited(c)
  /\ failures' = [failures EXCEPT ![c] = Pruned(c)]
  /\ UNCHANGED <<users, sessions, owed>>

\* A wrong password, or a name that is not in the table.
LoginFails(c) ==
  /\ ~Limited(c)
  /\ failures' = [failures EXCEPT ![c] = Append(Pruned(c), 0)]
  /\ UNCHANGED <<users, sessions, owed>>

\* create_session draws a token that nobody has seen.
Login(c, u, t) ==
  /\ ~Limited(c) /\ u \in users /\ owed[t] = Unused
  /\ failures' = [failures EXCEPT ![c] = <<>>]
  /\ sessions' = [sessions EXCEPT ![t] = [user |-> u, left |-> SessionTTL]]
  /\ owed' = [owed EXCEPT ![t] = [user |-> u, age |-> 0, other |-> FALSE]]
  /\ UNCHANGED users

\* MUTANT: the second at which a session ends is taken for its last.
ExpiredEarly(t) == sessions[t].left <= 0

\* time.time() > expires_at
Expired(t) == sessions[t].left < 0

\* validate_token, and with it require_auth and optional_auth.
Accepts(t) == sessions[t] # NoSession /\ ~Expired(t)

\* A request with a token that is refused: an expired one is forgotten.
RequestRefused(t) ==
  /\ sessions[t] # NoSession /\ Expired(t)
  /\ sessions' = [sessions EXCEPT ![t] = NoSession]
  /\ UNCHANGED <<users, failures, owed>>

\* MUTANT: the names of the users are not compared.
RevokedByAnyone(t) == {s \in Tokens : sessions[s] # NoSession}

\* The tokens that logout revokes: all of the user's.
RevokedBy(t) == {s \in Tokens : sessions[s].user = sessions[t].user}

Logout(t) ==
  /\ Accepts(t)
  /\ sessions' = [s \in Tokens |-> IF s \in RevokedBy(t) THEN NoSession ELSE sessions[s]]
  /\ owed' = [s \in Tokens |->
       IF s = t THEN Spent
       ELSE IF owed[s].user = sessions[t].user THEN [owed[s] EXCEPT !.other = TRUE] ELSE owed[s]]
  /\ UNCHANGED <<users, failures>>

\* GET /api/auth/status of an admin: active_session_count purges first.
AuthStatus(t) ==
  /\ Accepts(t)
  /\ sessions' = [s \in Tokens |-> IF Expired(s) THEN NoSession ELSE sessions[s]]
  /\ UNCHANGED <<users, failures, owed>>

AuthStep ==
  /\ \/ \E c \in Clients : LoginRefused(c) \/ LoginFails(c)
     \/ \E c \in Clients, u \in Users, t \in Tokens : Login(c, u, t)
     \/ \E t \in Tokens : RequestRefused(t) \/ Logout(t) \/ AuthStatus(t)
  /\ UNCHANGED <<completed, choiceVars, keyVars, net, healthVars, quiet>>

-----------------------------------------------------------------------------
(* Provider, model and keys.                                               *)

\* _load_prefs: a file that is missing or does not parse gives way to config.json.
Selection == IF prefs \in {Absent, Torn} THEN config ELSE prefs

\* MUTANT: the engine's file is left for later.
UpdateSelectionPrefs(s) ==
  /\ config # Torn /\ s \in Available
  /\ prefs' = s /\ config' = config /\ acked' = s
  /\ UNCHANGED quiet

\* PUT /api/config/selection writes two files, one after the other.
UpdateSelection(s) ==
  /\ config # Torn /\ s \in Available
  /\ prefs' = s /\ config' = s /\ acked' = s
  /\ quiet' = IF s = config THEN quiet ELSE 0

\* A PUT that raises, or during which the server dies: the first file is empty,
\* or written, or the second one is empty.
UpdateSelectionFails(s) ==
  /\ config # Torn /\ s \in Available
  /\ \/ prefs' = Torn /\ config' = config /\ UNCHANGED quiet
     \/ prefs' = s /\ config' = config /\ UNCHANGED quiet
     \/ prefs' = s /\ config' = Torn /\ quiet' = 0
  /\ acked' = Absent

\* POST /api/setup/save-keys: _write_env_key writes .env and then os.environ.
SaveKey(t, p, k) ==
  /\ Accepts(t) /\ config # Torn /\ p \in KeyVars
  /\ envFile' = [envFile EXCEPT ![p] = k]
  /\ environ' = [environ EXCEPT ![p] = k]
  /\ quiet' = IF environ[p] = k THEN quiet ELSE 0
  /\ UNCHANGED <<completed, choiceVars, net, healthVars>>

\* A write that fails after it has emptied .env: what is in use stays in use.
SaveKeyFails(t, p) ==
  /\ Accepts(t) /\ config # Torn /\ p \in KeyVars
  /\ envFile' = NoKeys
  /\ UNCHANGED <<completed, choiceVars, environ, net, healthVars, quiet>>

\* POST /api/setup/complete and /reset are about the user of the token.
CompleteSetup(t) ==
  /\ Accepts(t)
  /\ completed' = completed \cup {sessions[t].user}

ResetSetup(t) ==
  /\ Accepts(t)
  /\ completed' = completed \ {sessions[t].user}

SettingsStep ==
  /\ \/ /\ \E s \in Providers \X Models : UpdateSelection(s) \/ UpdateSelectionFails(s)
        /\ UNCHANGED <<completed, keyVars, net, healthVars>>
     \/ \E t \in Tokens, p \in Providers, k \in Keys : SaveKey(t, p, k)
     \/ \E t \in Tokens, p \in Providers : SaveKeyFails(t, p)
     \/ /\ \E t \in Tokens : CompleteSetup(t) \/ ResetSetup(t)
        /\ UNCHANGED <<choiceVars, keyVars, net, healthVars, quiet>>
  /\ UNCHANGED authVars

-----------------------------------------------------------------------------
(* Provider health.                                                        *)

\* What the checkers find now, and the selection that is reported with it.
Check(p) ==
  IF p \notin Checkers THEN "unknown"
  ELSE IF environ[p] = NoKey THEN "no_key" ELSE net[p]

Present == [status |-> [p \in Providers |-> Check(p)], selection |-> config]

\* MUTANT: a cache that was filled is served.
ServedAtAnyAge == cache # NoHealth

\* The condition of _run_health_checks without force.
Served == cache # NoHealth /\ cacheAge < CacheTTL

\* GET /api/providers/health that asks the providers: forced, or not served.
\* The checks read config.json.
RunHealthChecks(force) ==
  /\ force \/ ~Served
  /\ config # Torn
  /\ cache' = Present /\ cacheAge' = 0
  /\ UNCHANGED <<authVars, completed, choiceVars, keyVars, net, quiet>>

\* A provider comes or goes.
NetChanges(p) ==
  /\ \E v \in Verdicts \ {net[p]} : net' = [net EXCEPT ![p] = v]
  /\ quiet' = 0
  /\ UNCHANGED <<authVars, completed, choiceVars, keyVars, healthVars>>

-----------------------------------------------------------------------------
(* Time and restarts.  Ages saturate where nothing depends on them further. *)

Older(n, limit) == IF n < limit THEN n + 1 ELSE n

TickOwed(o) ==
  IF o \in {Unused, Spent} THEN o
  ELSE IF o.age < SessionTTL THEN [o EXCEPT !.age = @ + 1] ELSE Spent

Tick ==
  /\ sessions' = [t \in Tokens |->
       IF sessions[t] = NoSession \/ Expired(t) THEN sessions[t]
                                  ELSE [sessions[t] EXCEPT !.left = @ - 1]]
  /\ owed' = [t \in Tokens |-> TickOwed(owed[t])]
  /\ failures' = [c \in Clients |->
       [i \in DOMAIN failures[c] |-> Older(failures[c][i], Window)]]
  /\ cacheAge' = IF cache = NoHealth THEN 0 ELSE Older(cacheAge, CacheTTL)
  /\ quiet' = Older(quiet, CacheTTL)
  /\ UNCHANGED <<users, completed, choiceVars, keyVars, net, cache>>

\* The server stops or dies, and starts again: what is in memory is gone.
Restart ==
  /\ users' \in Loadable
  /\ sessions' = [t \in Tokens |-> NoSession]
  /\ failures' = [c \in Clients |-> <<>>]
  /\ owed' = [t \in Tokens |-> IF owed[t] = Unused THEN Unused ELSE Spent]
  /\ environ' = StartEnviron(envFile)
  /\ cache' = NoHealth /\ cacheAge' = 0
  /\ quiet' = IF environ' = environ THEN quiet ELSE 0
  /\ UNCHANGED <<completed, choiceVars, envFile, net>>

Next ==
  \/ AuthStep
  \/ SettingsStep
  \/ \E force \in BOOLEAN : RunHealthChecks(force)
  \/ \E p \in Checkers : NetChanges(p)
  \/ Tick
  \/ Restart

Spec == Init /\ [][Next]_vars

-----------------------------------------------------------------------------

Health == [status : [Providers -> Verdicts \cup {"unknown", "no_key"}], selection : Available]

\* The types, and the login limit: no client has more failures on record than
\* it may have, whatever it tries (_check_rate_limit, _record_failure).
TypeOK ==
  /\ users \in Loadable
  /\ sessions \in [Tokens -> {NoSession} \cup [user : Users, left : -1..SessionTTL]]
  /\ failures \in [Clients -> Seq(0..Window)]
  /\ \A c \in Clients : Len(failures[c]) <= MaxFailures
  /\ completed \subseteq Users
  /\ prefs \in Available \cup {Absent, Torn}
  /\ config \in Available \cup {Torn}
  /\ envFile \in [Providers -> Keys \cup {NoKey}]
  /\ environ \in [Providers -> Keys \cup {NoKey}]
  /\ net \in [Checkers -> Verdicts]
  /\ cache \in {NoHealth} \cup Health
  /\ cacheAge \in 0..CacheTTL
  /\ owed \in [Tokens -> {Unused, Spent} \cup [user : Users, age : 0..SessionTTL, other : BOOLEAN]]
  /\ acked \in Available \cup {Absent}
  /\ quiet \in 0..CacheTTL

\* A token that is accepted speaks for the user whose login it was issued for,
\* within the time to live of that login, before its own logout and in the same
\* start of the server; and until then it is accepted, whatever the sessions of
\* other users do and whichever expired ones are purged (validate_token, logout,
\* purge_expired).  What the logout of another session of the same user does to it
\* is left open, as the docs are: the code ends it (docs/wiki.md:157, "Revoke all
\* sessions for user"; api/auth.py:134, "Revoke the current session token").
TokensSpeakForLogins ==
  \A t \in Tokens :
    /\ Accepts(t) => owed[t].user = sessions[t].user
    /\ owed[t].user # NoUser /\ ~owed[t].other => Accepts(t)

\* A selection that was acknowledged is what the UI is told and what the next run
\* of the engine reads, through restarts and whatever else is saved, until
\* another PUT begins ("so the engine picks it up at job start").
AckedSelectionIsUsed ==
  acked # Absent => config = acked /\ Selection = acked

\* The health of the providers, if it comes from the cache, is out of date for no
\* longer than the cache lives: when keys, selection and providers have not
\* changed for that long, it is what a check would find now.
HealthIsRecent == Served /\ quiet = CacheTTL => cache = Present
=============================================================================
