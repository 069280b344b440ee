--------------------------- MODULE ConsoleProofs ---------------------------
(***************************************************************************)
(* Proofs about Console for any users, tokens, limits and times.           *)
(*                                                                         *)
(* SessionInv relates each session to the login its token was issued for:  *)
(* the ticks that it has left and the age of the login make up the time to *)
(* live.  HealthInv says that a cache younger than the last change is what *)
(* a check would find.                                                     *)
(***************************************************************************)
EXTENDS Console, FiniteSetTheorems, SequenceTheorems, TLAPS

\* The types of what AuthStep changes, and the login limit.
AuthTyped ==
  /\ users \in Loadable
  /\ sessions \in [Tokens -> {NoSession} \cup [user : Users, left : -1..SessionTTL]]
  /\ failures \in [Clients -> Seq(0..Window)]
  /\ \A c \in Clients : Len(failures[c]) <= MaxFailures
  /\ owed \in [Tokens -> {Unused, Spent} \cup [user : Users, age : 0..SessionTTL, other : BOOLEAN]]

\* The types of the rest.
SettingsTyped ==
  /\ completed \subseteq Users
  /\ prefs \in Available \cup {Absent, Torn}
  /\ config \in Available \cup {Torn}
  /\ envFile \in [Providers -> Keys \cup {NoKey}]
  /\ environ \in [Providers -> Keys \cup {NoKey}]
  /\ net \in [Checkers -> Verdicts]
  /\ cache \in {NoHealth} \cup Health
  /\ cacheAge \in 0..CacheTTL
  /\ acked \in Available \cup {Absent}
  /\ quiet \in 0..CacheTTL

LEMMA TypeParts == TypeOK <=> AuthTyped /\ SettingsTyped
BY DEF TypeOK, AuthTyped, SettingsTyped

LEMMA TypePartsNext == TypeOK' <=> AuthTyped' /\ SettingsTyped'
BY DEF TypeOK, AuthTyped, SettingsTyped

-----------------------------------------------------------------------------
(* The list of failures.                                                   *)

\* Pruning returns a list of the same kind that is no longer than the old one.
LEMMA PrunedTyped ==
  ASSUME AuthTyped, NEW c \in Clients
  PROVE  /\ Pruned(c) \in Seq(0..Window)
         /\ Len(Pruned(c)) \in Nat
         /\ Len(Pruned(c)) <= Len(failures[c])
<1>. DEFINE s == failures[c]
<1>1. s \in Seq(0..Window) /\ Len(s) \in Nat /\ DOMAIN s = 1..Len(s)
  BY LenProperties DEF AuthTyped
<1>2. Cardinality(Old(c)) \in Nat
  <2>1. Old(c) \in SUBSET (1..Len(s))
    BY <1>1 DEF Old
  <2>2. IsFiniteSet(1..Len(s))
    BY <1>1, FS_Interval
  <2>3. IsFiniteSet(Old(c))
    BY <2>1, <2>2, FS_Subset
  <2>. QED  BY <2>3, FS_CardinalityType
<1>. DEFINE k == 1 + Cardinality(Old(c))
<1>3. k \in Int /\ k >= 1 /\ Len(s) \in Int
  BY <1>1, <1>2
<1>4. ASSUME NEW i \in k..Len(s) PROVE s[i] \in 0..Window
  <2>. HIDE DEF k, s
  <2>1. i \in 1..Len(s)
    BY <1>3
  <2>. QED  BY <2>1, <1>1, ElementOfSeq
<1>5. /\ SubSeq(s, k, Len(s)) \in Seq(0..Window)
      /\ Len(SubSeq(s, k, Len(s))) = IF k <= Len(s) THEN Len(s) - k + 1 ELSE 0
  <2>. HIDE DEF k, s
  <2>. QED  BY <1>3, <1>4, SubSeqProperties
<1>. QED  BY <1>1, <1>2, <1>5 DEF Pruned

\* A failure is put on record only while there is room for it.
LEMMA FailureTyped ==
  ASSUME AuthTyped, NEW c \in Clients, ~Limited(c)
  PROVE  /\ Append(Pruned(c), 0) \in Seq(0..Window)
         /\ Len(Append(Pruned(c), 0)) <= MaxFailures
<1>1. 0 \in 0..Window
  BY TimesAssumption
<1>2. Len(Append(Pruned(c), 0)) = Len(Pruned(c)) + 1
  BY <1>1, PrunedTyped, AppendProperties
<1>. QED
  BY <1>1, <1>2, PrunedTyped, AppendProperties, TimesAssumption DEF Limited

LEMMA OlderTyped ==
  ASSUME NEW limit \in Nat, NEW n \in 0..limit
  PROVE  Older(n, limit) \in 0..limit
BY DEF Older

\* Time changes the ages on record and not how many there are.
LEMMA FailuresAge ==
  ASSUME AuthTyped, NEW c \in Clients
  PROVE  LET aged == [i \in DOMAIN failures[c] |-> Older(failures[c][i], Window)]
         IN  aged \in Seq(0..Window) /\ Len(aged) = Len(failures[c])
<1>. DEFINE s == failures[c]
            aged == [i \in DOMAIN s |-> Older(s[i], Window)]
<1>1. s \in Seq(0..Window) /\ Len(s) \in Nat /\ DOMAIN s = 1..Len(s)
  BY LenProperties DEF AuthTyped
<1>2. \A i \in 1..Len(s) : Older(s[i], Window) \in 0..Window
  BY <1>1, ElementOfSeq, OlderTyped, TimesAssumption
<1>3. aged = [i \in 1..Len(s) |-> Older(s[i], Window)]
  BY <1>1
<1>4. aged \in Seq(0..Window)
  <2>. HIDE DEF s
  <2>. QED  BY <1>1, <1>2, <1>3
<1>5. Len(aged) = Len(s)
  <2>1. DOMAIN aged = 1..Len(s) /\ DOMAIN aged = 1..Len(aged) /\ Len(aged) \in Nat
    BY <1>1, <1>4, LenProperties
  <2>. HIDE DEF aged, s
  <2>. QED  BY <2>1, <1>1
<1>. QED  BY <1>4, <1>5

-----------------------------------------------------------------------------
(* Type correctness, handler by handler.                                   *)

LEMMA ConsoleInitTyped == Init => TypeOK
<1>. SUFFICES ASSUME Init PROVE TypeOK
  OBVIOUS
<1>1. AuthTyped
  <2>1. \A c \in Clients : failures[c] \in Seq(0..Window) /\ Len(failures[c]) = 0
    BY EmptySeq DEF Init
  <2>2. failures \in [Clients -> Seq(0..Window)]
    BY <2>1 DEF Init
  <2>. QED  BY <2>1, <2>2, TimesAssumption DEF Init, AuthTyped
<1>2. SettingsTyped
  BY KeysAssumption, TimesAssumption DEF Init, SettingsTyped, NoKeys, StartEnviron
<1>. QED  BY <1>1, <1>2, TypeParts

\* Whatever replaces the list of one client keeps the limit if it does.
LEMMA FailuresTyped ==
  ASSUME AuthTyped, NEW c \in Clients,
         NEW s \in Seq(0..Window), Len(s) <= MaxFailures,
         failures' = [failures EXCEPT ![c] = s]
  PROVE  /\ failures' \in [Clients -> Seq(0..Window)]
         /\ \A d \in Clients : Len(failures'[d]) <= MaxFailures
<1>1. failures \in [Clients -> Seq(0..Window)]
  BY DEF AuthTyped
<1>2. \A d \in Clients : failures'[d] = IF d = c THEN s ELSE failures[d]
  BY <1>1
<1>3. failures' \in [Clients -> Seq(0..Window)]
  BY <1>1
<1>. QED  BY <1>2, <1>3 DEF AuthTyped

LEMMA AuthStepTyped == AuthTyped /\ AuthStep => AuthTyped'
<1>. SUFFICES ASSUME AuthTyped, AuthStep PROVE AuthTyped'
  OBVIOUS
<1>1. ASSUME NEW c \in Clients, LoginRefused(c) PROVE AuthTyped'
  <2>1. Pruned(c) \in Seq(0..Window) /\ Len(Pruned(c)) <= MaxFailures
    <3>1. Len(failures[c]) \in Nat /\ Len(failures[c]) <= MaxFailures
      BY LenProperties DEF AuthTyped
    <3>. QED  BY <3>1, PrunedTyped, TimesAssumption
  <2>2. /\ failures' \in [Clients -> Seq(0..Window)]
        /\ \A d \in Clients : Len(failures'[d]) <= MaxFailures
    BY <1>1, <2>1, FailuresTyped DEF LoginRefused
  <2>. QED  BY <1>1, <2>2 DEF LoginRefused, AuthTyped
<1>2. ASSUME NEW c \in Clients, LoginFails(c) PROVE AuthTyped'
  <2>1. /\ failures' \in [Clients -> Seq(0..Window)]
        /\ \A d \in Clients : Len(failures'[d]) <= MaxFailures
    BY <1>2, FailureTyped, FailuresTyped DEF LoginFails
  <2>. QED  BY <1>2, <2>1 DEF LoginFails, AuthTyped
<1>3. ASSUME NEW c \in Clients, NEW u \in Users, NEW t \in Tokens, Login(c, u, t)
      PROVE  AuthTyped'
  <2>1. <<>> \in Seq(0..Window) /\ Len(<<>>) <= MaxFailures
    BY EmptySeq, TimesAssumption
  <2>2. failures' = [failures EXCEPT ![c] = <<>>]
    BY <1>3 DEF Login
  <2>3. /\ failures' \in [Clients -> Seq(0..Window)]
        /\ \A d \in Clients : Len(failures'[d]) <= MaxFailures
    BY <2>1, <2>2, FailuresTyped
  <2>4. /\ [user |-> u, left |-> SessionTTL] \in [user : Users, left : -1..SessionTTL]
        /\ [user |-> u, age |-> 0, other |-> FALSE] \in [user : Users, age : 0..SessionTTL, other : BOOLEAN]
    BY TimesAssumption
  <2>. QED  BY <1>3, <2>3, <2>4 DEF Login, AuthTyped
<1>4. ASSUME NEW t \in Tokens, RequestRefused(t) \/ AuthStatus(t) PROVE AuthTyped'
  BY <1>4 DEF RequestRefused, AuthStatus, AuthTyped
<1>5. ASSUME NEW t \in Tokens, Logout(t) PROVE AuthTyped'
  <2>. DEFINE Live == [user : Users, age : 0..SessionTTL, other : BOOLEAN]
  <2>1. sessions[t].user # NoUser
    BY <1>5, UsersAssumption DEF Logout, Accepts, AuthTyped
  <2>2. ASSUME NEW s \in Tokens, owed[s].user = sessions[t].user
        PROVE  [owed[s] EXCEPT !.other = TRUE] \in Live
    <3>1. owed[s] \in Live
      BY <2>1, <2>2 DEF AuthTyped, Unused, Spent
    <3>. QED  BY <3>1
  <2>3. owed' \in [Tokens -> {Unused, Spent} \cup Live]
    <3>1. \A s \in Tokens : owed[s] \in {Unused, Spent} \cup Live
      BY DEF AuthTyped
    <3>. HIDE DEF Live
    <3>. QED  BY <1>5, <2>2, <3>1 DEF Logout
  <2>. QED  BY <1>5, <2>3 DEF Logout, AuthTyped
<1>. QED  BY <1>1, <1>2, <1>3, <1>4, <1>5 DEF AuthStep

LEMMA AcceptedUser ==
  ASSUME AuthTyped, NEW t \in Tokens, Accepts(t)
  PROVE  /\ sessions[t] \in [user : Users, left : 0..SessionTTL]
         /\ sessions[t].user \in Users /\ sessions[t].user # NoUser
<1>1. sessions[t] \in [user : Users, left : -1..SessionTTL]
  BY DEF AuthTyped, Accepts
<1>. QED  BY <1>1, UsersAssumption DEF Accepts, Expired

LEMMA SettingsStepTyped == TypeOK /\ SettingsStep => SettingsTyped'
<1>. SUFFICES ASSUME TypeOK, SettingsStep PROVE SettingsTyped'
  OBVIOUS
<1>. USE TypeParts, TypePartsNext, TimesAssumption
<1>1. ASSUME NEW s \in Providers \X Models,
             UpdateSelection(s) \/ UpdateSelectionFails(s),
             UNCHANGED <<completed, keyVars, net, healthVars>>
      PROVE  SettingsTyped'
  BY <1>1 DEF UpdateSelection, UpdateSelectionFails, SettingsTyped, keyVars, healthVars
<1>2. ASSUME NEW t \in Tokens, NEW p \in Providers, NEW k \in Keys, SaveKey(t, p, k)
      PROVE  SettingsTyped'
  BY <1>2 DEF SaveKey, SettingsTyped, choiceVars, healthVars
<1>3. ASSUME NEW t \in Tokens, NEW p \in Providers, SaveKeyFails(t, p)
      PROVE  SettingsTyped'
  BY <1>3 DEF SaveKeyFails, SettingsTyped, choiceVars, healthVars, NoKeys
<1>4. ASSUME NEW t \in Tokens, CompleteSetup(t) \/ ResetSetup(t),
             UNCHANGED <<choiceVars, keyVars, net, healthVars, quiet>>
      PROVE  SettingsTyped'
  <2>1. sessions[t].user \in Users
    BY <1>4, AcceptedUser DEF CompleteSetup, ResetSetup
  <2>. QED  BY <1>4, <2>1 DEF CompleteSetup, ResetSetup, SettingsTyped, choiceVars,
                              keyVars, healthVars
<1>. QED  BY <1>1, <1>2, <1>3, <1>4 DEF SettingsStep

LEMMA PresentTyped == TypeOK /\ config # Torn => Present \in Health
<1>. SUFFICES ASSUME TypeOK, config # Torn PROVE Present \in Health
  OBVIOUS
<1>1. \A p \in Providers : Check(p) \in Verdicts \cup {"unknown", "no_key"}
  BY DEF TypeOK, Check
<1>. QED  BY <1>1 DEF TypeOK, Present, Health

LEMMA TickTyped == TypeOK /\ Tick => TypeOK'
<1>. SUFFICES ASSUME TypeOK, Tick PROVE TypeOK'
  OBVIOUS
<1>. USE TypeParts, TypePartsNext, TimesAssumption
<1>1. sessions' \in [Tokens -> {NoSession} \cup [user : Users, left : -1..SessionTTL]]
  <2>1. ASSUME NEW t \in Tokens, sessions[t] # NoSession, ~Expired(t)
        PROVE  [sessions[t] EXCEPT !.left = @ - 1] \in [user : Users, left : -1..SessionTTL]
    BY <2>1 DEF AuthTyped, Expired
  <2>. QED  BY <2>1 DEF Tick, AuthTyped
<1>2. owed' \in [Tokens -> {Unused, Spent} \cup [user : Users, age : 0..SessionTTL, other : BOOLEAN]]
  <2>1. ASSUME NEW t \in Tokens
        PROVE  TickOwed(owed[t]) \in {Unused, Spent} \cup [user : Users, age : 0..SessionTTL, other : BOOLEAN]
    <3>1. CASE owed[t] \in {Unused, Spent}
      BY <3>1 DEF TickOwed
    <3>2. CASE owed[t] \notin {Unused, Spent}
      BY <3>2 DEF TickOwed, AuthTyped
    <3>. QED  BY <3>1, <3>2
  <2>. QED  BY <2>1 DEF Tick
<1>3. \A c \in Clients : failures'[c] \in Seq(0..Window) /\ Len(failures'[c]) = Len(failures[c])
  BY FailuresAge DEF Tick
<1>4. failures' \in [Clients -> Seq(0..Window)]
  <2>1. DOMAIN failures' = Clients /\ failures' = [c \in Clients |-> failures'[c]]
    BY DEF Tick
  <2>. QED  BY <2>1, <1>3
<1>5. cacheAge' \in 0..CacheTTL /\ quiet' \in 0..CacheTTL
  BY OlderTyped DEF Tick, SettingsTyped
<1>. QED  BY <1>1, <1>2, <1>3, <1>4, <1>5 DEF Tick, AuthTyped, SettingsTyped, choiceVars, keyVars

LEMMA RestartTyped == TypeOK /\ Restart => TypeOK'
<1>. SUFFICES ASSUME TypeOK, Restart PROVE TypeOK'
  OBVIOUS
<1>. USE TypeParts, TypePartsNext, TimesAssumption
<1>1. \A c \in Clients : failures'[c] \in Seq(0..Window) /\ Len(failures'[c]) = 0
  BY EmptySeq DEF Restart
<1>2. failures' \in [Clients -> Seq(0..Window)]
  BY <1>1 DEF Restart
<1>3. environ' \in [Providers -> Keys \cup {NoKey}]
  BY KeysAssumption DEF Restart, StartEnviron, SettingsTyped
<1>. QED  BY <1>1, <1>2, <1>3 DEF Restart, AuthTyped, SettingsTyped, choiceVars

LEMMA ConsoleStepTyped == TypeOK /\ [Next]_vars => TypeOK'
<1>. SUFFICES ASSUME TypeOK, [Next]_vars PROVE TypeOK'
  OBVIOUS
<1>. USE TypeParts, TypePartsNext
<1>1. CASE AuthStep
  <2>1. SettingsTyped'
    BY <1>1 DEF AuthStep, SettingsTyped, choiceVars, keyVars, healthVars
  <2>. QED  BY <2>1, <1>1, AuthStepTyped
<1>2. CASE SettingsStep
  <2>1. AuthTyped'
    BY <1>2 DEF SettingsStep, AuthTyped, authVars
  <2>. QED  BY <2>1, <1>2, SettingsStepTyped
<1>3. ASSUME NEW force \in BOOLEAN, RunHealthChecks(force) PROVE TypeOK'
  BY <1>3, PresentTyped, TimesAssumption
  DEF RunHealthChecks, AuthTyped, SettingsTyped, authVars, choiceVars, keyVars
<1>4. ASSUME NEW p \in Checkers, NetChanges(p) PROVE TypeOK'
  BY <1>4, TimesAssumption
  DEF NetChanges, AuthTyped, SettingsTyped, authVars, choiceVars, keyVars, healthVars
<1>5. CASE UNCHANGED vars
  BY <1>5 DEF AuthTyped, SettingsTyped, vars, authVars, choiceVars, keyVars, healthVars
<1>. QED  BY <1>1, <1>2, <1>3, <1>4, <1>5, TickTyped, RestartTyped DEF Next

\* The types are what they should be, and no client ever has more failures on
\* record than the limit (_check_rate_limit before every _record_failure).
THEOREM ConsoleTypeCorrect == Spec => []TypeOK
BY ConsoleInitTyped, ConsoleStepTyped, PTL DEF Spec

-----------------------------------------------------------------------------
(* Sessions and logins.                                                    *)

\* What one token has: a session within its time and the login it was issued
\* for, which together make up the time to live; or nothing that is accepted,
\* because the login is over or another session of its user has logged out.
InStep(s, o) ==
  IF s # NoSession /\ s.left >= 0
    THEN /\ o \notin {Unused, Spent} /\ ~o.other
         /\ o.user = s.user /\ o.age + s.left = SessionTTL
    ELSE o \in {Unused, Spent} \/ o.other

SessionInv == \A t \in Tokens : InStep(sessions[t], owed[t])

LEMMA SessionInit == Init => SessionInv
BY DEF Init, SessionInv, InStep

\* A session that no request may use leaves the token with nothing.
LEMMA NothingLeft ==
  ASSUME AuthTyped, SessionInv, NEW t \in Tokens, Expired(t)
  PROVE  InStep(NoSession, owed[t])
<1>1. sessions[t].left < 0 /\ sessions[t].left \in Int
  BY TimesAssumption DEF Expired, AuthTyped, NoSession
<1>. QED  BY <1>1 DEF SessionInv, InStep

LEMMA SessionStep == AuthTyped /\ SessionInv /\ [Next]_vars => SessionInv'
<1>. SUFFICES ASSUME AuthTyped, SessionInv, [Next]_vars PROVE SessionInv'
  OBVIOUS
<1>. USE TimesAssumption, UsersAssumption
<1>1. ASSUME UNCHANGED <<sessions, owed>> PROVE SessionInv'
  BY <1>1 DEF SessionInv
<1>2. ASSUME NEW c \in Clients, NEW u \in Users, NEW t \in Tokens, Login(c, u, t)
      PROVE  SessionInv'
  <2>1. InStep([user |-> u, left |-> SessionTTL], [user |-> u, age |-> 0, other |-> FALSE])
    BY DEF InStep, NoSession, Unused, Spent
  <2>2. \A s \in Tokens :
          /\ sessions'[s] = IF s = t THEN [user |-> u, left |-> SessionTTL] ELSE sessions[s]
          /\ owed'[s] = IF s = t THEN [user |-> u, age |-> 0, other |-> FALSE] ELSE owed[s]
    BY <1>2 DEF Login, AuthTyped
  <2>. QED  BY <2>1, <2>2 DEF SessionInv
<1>3. ASSUME NEW t \in Tokens, RequestRefused(t) PROVE SessionInv'
  <2>1. InStep(NoSession, owed[t])
    BY <1>3, NothingLeft DEF RequestRefused
  <2>2. \A s \in Tokens : sessions'[s] = IF s = t THEN NoSession ELSE sessions[s]
    BY <1>3 DEF RequestRefused, AuthTyped
  <2>. QED  BY <1>3, <2>1, <2>2 DEF SessionInv, RequestRefused
<1>4. ASSUME NEW t \in Tokens, AuthStatus(t) PROVE SessionInv'
  <2>1. \A s \in Tokens : sessions'[s] = IF Expired(s) THEN NoSession ELSE sessions[s]
    BY <1>4 DEF AuthStatus
  <2>. QED  BY <1>4, <2>1, NothingLeft DEF SessionInv, AuthStatus
<1>5. ASSUME NEW t \in Tokens, Logout(t) PROVE SessionInv'
  <2>. DEFINE u == sessions[t].user
  <2>1. u # NoUser
    BY <1>5, AcceptedUser DEF Logout
  <2>2. ASSUME NEW s \in Tokens PROVE InStep(sessions'[s], owed'[s])
    <3>1. /\ sessions'[s] = IF sessions[s].user = u THEN NoSession ELSE sessions[s]
          /\ owed'[s] = IF s = t THEN Spent
                        ELSE IF owed[s].user = u THEN [owed[s] EXCEPT !.other = TRUE]
                        ELSE owed[s]
      BY <1>5 DEF Logout, RevokedBy
    <3>2. InStep(sessions[s], owed[s]) /\ InStep(sessions[t], owed[t])
      BY DEF SessionInv
    <3>3. /\ sessions[t].user = u /\ sessions[t] # NoSession /\ sessions[t].left >= 0
      BY <1>5, AcceptedUser DEF Logout, Accepts
    <3>. HIDE DEF u
    <3>4. CASE s = t
      <4>1. sessions'[s] = NoSession /\ owed'[s] = Spent
        BY <3>1, <3>3, <3>4
      <4>. QED  BY <4>1 DEF InStep
    <3>5. CASE s # t /\ owed[s].user = u
      <4>1. owed[s] \in [user : Users, age : 0..SessionTTL, other : BOOLEAN]
        BY <2>1, <3>5 DEF AuthTyped, Unused, Spent
      <4>2. owed'[s].other
        BY <3>1, <3>5, <4>1
      <4>3. ~(sessions'[s] # NoSession /\ sessions'[s].left >= 0)
        BY <3>1, <3>2, <3>5 DEF InStep
      <4>. QED  BY <4>2, <4>3 DEF InStep
    <3>6. CASE s # t /\ owed[s].user # u
      <4>1. owed'[s] = owed[s]
        BY <3>1, <3>6
      <4>2. CASE sessions[s].user = u
        <5>1. sessions'[s] = NoSession
          BY <3>1, <4>2
        <5>2. ~(sessions[s] # NoSession /\ sessions[s].left >= 0)
          BY <3>2, <3>6, <4>2 DEF InStep
        <5>. QED  BY <3>2, <4>1, <5>1, <5>2 DEF InStep
      <4>. QED  BY <3>1, <3>2, <4>1, <4>2
    <3>. QED  BY <3>4, <3>5, <3>6
  <2>. QED  BY <2>2 DEF SessionInv
<1>6. CASE Tick
  <2>1. ASSUME NEW t \in Tokens PROVE InStep(sessions'[t], owed'[t])
    <3>1. /\ sessions'[t] = IF sessions[t] = NoSession \/ Expired(t) THEN sessions[t]
                            ELSE [sessions[t] EXCEPT !.left = @ - 1]
          /\ owed'[t] = TickOwed(owed[t])
      BY <1>6 DEF Tick
    <3>2. InStep(sessions[t], owed[t])
      BY DEF SessionInv
    <3>3. CASE sessions[t] = NoSession \/ Expired(t)
      <4>1. ~(sessions[t] # NoSession /\ sessions[t].left >= 0)
        BY <3>3 DEF Expired, AuthTyped
      <4>2. owed[t] \in {Unused, Spent} \/ owed[t].other
        BY <3>2, <4>1 DEF InStep
      <4>3. sessions'[t] = sessions[t]
        BY <3>1, <3>3
      <4>4. owed'[t] \in {Unused, Spent} \/ owed'[t].other
        <5>1. CASE owed[t] \in {Unused, Spent}
          BY <3>1, <5>1 DEF TickOwed
        <5>2. CASE owed[t] \notin {Unused, Spent}
          <6>1. owed[t] \in [user : Users, age : 0..SessionTTL, other : BOOLEAN]
            BY <5>2 DEF AuthTyped
          <6>. QED  BY <3>1, <4>2, <5>2, <6>1 DEF TickOwed
        <5>. QED  BY <5>1, <5>2
      <4>. QED  BY <4>1, <4>3, <4>4 DEF InStep
    <3>4. CASE sessions[t] # NoSession /\ ~Expired(t)
      <4>1. sessions[t] \in [user : Users, left : -1..SessionTTL] /\ sessions[t].left >= 0
        BY <3>4 DEF AuthTyped, Expired
      <4>2. /\ sessions'[t] \in [user : Users, left : -1..SessionTTL]
            /\ sessions'[t].user = sessions[t].user
            /\ sessions'[t].left = sessions[t].left - 1
        BY <3>1, <3>4, <4>1
      <4>3. /\ owed[t] \in [user : Users, age : 0..SessionTTL, other : BOOLEAN]
            /\ owed[t].user = sessions[t].user
            /\ owed[t].age + sessions[t].left = SessionTTL
        BY <3>2, <3>4, <4>1 DEF InStep, AuthTyped
      <4>4. owed[t] \notin {Unused, Spent}
        BY <4>3 DEF Unused, Spent
      <4>5. CASE sessions[t].left = 0
        <5>1. owed'[t] = Spent
          BY <3>1, <4>3, <4>4, <4>5 DEF TickOwed
        <5>. QED  BY <5>1, <4>2, <4>5 DEF InStep
      <4>6. CASE sessions[t].left > 0
        <5>1. owed'[t] = [owed[t] EXCEPT !.age = @ + 1]
          BY <3>1, <4>1, <4>3, <4>4, <4>6 DEF TickOwed
        <5>2. /\ owed'[t].user = owed[t].user /\ owed'[t].age = owed[t].age + 1
              /\ owed'[t].user \in Users /\ owed'[t].other = owed[t].other
          BY <5>1, <4>3
        <5>3. owed'[t] \notin {Unused, Spent} /\ sessions'[t] # NoSession
          BY <5>2, <4>2 DEF Unused, Spent, NoSession
        <5>4. ~owed[t].other
          BY <3>2, <3>4, <4>1 DEF InStep
        <5>. QED  BY <5>2, <5>3, <5>4, <4>1, <4>2, <4>3, <4>6 DEF InStep
      <4>. QED  BY <4>1, <4>5, <4>6
    <3>. QED  BY <3>3, <3>4
  <2>. QED  BY <2>1 DEF SessionInv
<1>7. CASE Restart
  BY <1>7 DEF Restart, SessionInv, InStep
<1>8. CASE AuthStep
  BY <1>8, <1>1, <1>2, <1>3, <1>4, <1>5 DEF AuthStep, LoginRefused, LoginFails
<1>. QED
  BY <1>1, <1>6, <1>7, <1>8
  DEF Next, SettingsStep, RunHealthChecks, NetChanges, vars, authVars

\* A token that is accepted speaks for the user of the login it was issued for,
\* while that login lasts; and it is accepted until then, unless another session of
\* the user logs out (validate_token, logout, purge_expired).
THEOREM TokensSpeak == Spec => []TokensSpeakForLogins
<1>1. AuthTyped /\ SessionInv => TokensSpeakForLogins
  <2>. SUFFICES ASSUME AuthTyped, SessionInv, NEW t \in Tokens
                PROVE  /\ Accepts(t) => owed[t].user = sessions[t].user
                       /\ owed[t].user # NoUser /\ ~owed[t].other => Accepts(t)
    BY DEF TokensSpeakForLogins
  <2>1. InStep(sessions[t], owed[t])
    BY DEF SessionInv
  <2>2. CASE Accepts(t)
    BY <2>1, <2>2, AcceptedUser DEF InStep, Accepts, Expired
  <2>3. CASE ~Accepts(t)
    <3>1. owed[t] \in {Unused, Spent} \/ owed[t].other
      <4>1. CASE sessions[t] = NoSession
        BY <4>1, <2>1 DEF InStep
      <4>2. CASE sessions[t] # NoSession
        <5>1. sessions[t].left < 0 /\ sessions[t].left \in Int
          BY <4>2, <2>3 DEF Accepts, Expired, AuthTyped
        <5>. QED  BY <5>1, <2>1 DEF InStep
      <4>. QED  BY <4>1, <4>2
    <3>. QED  BY <3>1, <2>3 DEF Unused, Spent
  <2>. QED  BY <2>2, <2>3
<1>2. TypeOK => AuthTyped
  BY TypeParts
<1>. QED
  BY <1>1, <1>2, SessionInit, SessionStep, ConsoleTypeCorrect, PTL DEF Spec

-----------------------------------------------------------------------------
(* The selection and the health of the providers.                          *)

\* A selection that was acknowledged is in both files, or the first does not
\* parse and gives way to the second.
THEOREM AckedSelectionUsed == Spec => []AckedSelectionIsUsed
<1>1. Init => AckedSelectionIsUsed
  BY DEF Init, AckedSelectionIsUsed
<1>2. AckedSelectionIsUsed /\ [Next]_vars => AckedSelectionIsUsed'
  <2>. SUFFICES ASSUME AckedSelectionIsUsed, [Next]_vars PROVE AckedSelectionIsUsed'
    OBVIOUS
  <2>1. ASSUME UNCHANGED choiceVars PROVE AckedSelectionIsUsed'
    BY <2>1 DEF AckedSelectionIsUsed, Selection, choiceVars
  <2>2. ASSUME NEW s \in Providers \X Models, UpdateSelection(s)
        PROVE  AckedSelectionIsUsed'
    BY <2>2, SelectionsAssumption DEF UpdateSelection, AckedSelectionIsUsed, Selection
  <2>3. ASSUME NEW s \in Providers \X Models, UpdateSelectionFails(s)
        PROVE  AckedSelectionIsUsed'
    BY <2>3 DEF UpdateSelectionFails, AckedSelectionIsUsed
  <2>4. CASE SettingsStep
    BY <2>4, <2>1, <2>2, <2>3 DEF SettingsStep, SaveKey, SaveKeyFails
  <2>5. CASE AuthStep
    BY <2>5, <2>1 DEF AuthStep
  <2>. QED
    BY <2>1, <2>4, <2>5 DEF Next, RunHealthChecks, NetChanges, Tick, Restart, vars
<1>. QED  BY <1>1, <1>2, PTL DEF Spec

\* What a check finds does not depend on anything else.
LEMMA PresentDepends ==
  ASSUME UNCHANGED <<environ, net, config>>
  PROVE  Present' = Present
BY DEF Present, Check

HealthInv == cache # NoHealth /\ cacheAge < quiet => cache = Present

LEMMA HealthStep == SettingsTyped /\ HealthInv /\ [Next]_vars => HealthInv'
<1>. SUFFICES ASSUME SettingsTyped, HealthInv, [Next]_vars PROVE HealthInv'
  OBVIOUS
<1>. USE TimesAssumption
<1>1. ASSUME UNCHANGED <<cache, cacheAge, quiet, environ, net, config>> PROVE HealthInv'
  BY <1>1, PresentDepends DEF HealthInv
<1>2. ASSUME cacheAge' \in Nat, quiet' = 0 PROVE HealthInv'
  BY <1>2 DEF HealthInv
<1>3. ASSUME NEW s \in Providers \X Models,
             UpdateSelection(s) \/ UpdateSelectionFails(s),
             UNCHANGED <<completed, keyVars, net, healthVars>>
      PROVE  HealthInv'
  <2>1. cacheAge' \in Nat
    BY <1>3 DEF healthVars, SettingsTyped
  <2>2. CASE quiet' = 0
    BY <2>1, <2>2, <1>2
  <2>3. CASE quiet' # 0
    BY <1>1, <1>3, <2>3 DEF UpdateSelection, UpdateSelectionFails, keyVars, healthVars
  <2>. QED  BY <2>2, <2>3
<1>4. ASSUME NEW t \in Tokens, NEW p \in Providers, NEW k \in Keys, SaveKey(t, p, k)
      PROVE  HealthInv'
  <2>1. CASE environ[p] = k
    <3>1. environ' = environ
      BY <1>4, <2>1 DEF SaveKey, SettingsTyped
    <3>. QED  BY <1>1, <1>4, <2>1, <3>1 DEF SaveKey, choiceVars, healthVars
  <2>2. CASE environ[p] # k
    BY <1>2, <1>4, <2>2 DEF SaveKey, healthVars, SettingsTyped
  <2>. QED  BY <2>1, <2>2
<1>5. CASE SettingsStep
  BY <1>1, <1>3, <1>4, <1>5
  DEF SettingsStep, SaveKeyFails, choiceVars, keyVars, healthVars
<1>6. CASE AuthStep
  BY <1>1, <1>6 DEF AuthStep, choiceVars, keyVars, healthVars
<1>7. ASSUME NEW force \in BOOLEAN, RunHealthChecks(force) PROVE HealthInv'
  BY <1>7, PresentDepends DEF RunHealthChecks, HealthInv, choiceVars, keyVars
<1>8. ASSUME NEW p \in Checkers, NetChanges(p) PROVE HealthInv'
  BY <1>2, <1>8 DEF NetChanges, healthVars, SettingsTyped
<1>9. CASE Tick
  <2>1. Present' = Present
    BY <1>9, PresentDepends DEF Tick, choiceVars, keyVars
  <2>2. cache # NoHealth /\ cacheAge' < quiet' => cacheAge < quiet
    BY <1>9 DEF Tick, Older, SettingsTyped
  <2>. QED  BY <1>9, <2>1, <2>2 DEF HealthInv, Tick
<1>10. CASE Restart
  BY <1>10 DEF Restart, HealthInv
<1>11. CASE UNCHANGED vars
  BY <1>1, <1>11 DEF vars, choiceVars, keyVars, healthVars
<1>. QED  BY <1>5, <1>6, <1>7, <1>8, <1>9, <1>10, <1>11 DEF Next

\* Health that comes from the cache is what a check would find, if nothing has
\* changed for as long as a cache lives (_run_health_checks).
THEOREM HealthRecent == Spec => []HealthIsRecent
<1>1. Init => HealthInv
  BY DEF Init, HealthInv
<1>2. SettingsTyped /\ HealthInv => HealthIsRecent
  BY TimesAssumption DEF SettingsTyped, HealthInv, HealthIsRecent, Served
<1>3. TypeOK => SettingsTyped
  BY TypeParts
<1>. QED
  BY <1>1, <1>2, <1>3, HealthStep, ConsoleTypeCorrect, PTL DEF Spec
=============================================================================
