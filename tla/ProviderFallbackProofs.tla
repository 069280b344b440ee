----------------------- MODULE ProviderFallbackProofs ----------------------
(***************************************************************************)
(* Proofs about ProviderFallback for any providers, models and             *)
(* configurations in which no provider is named twice.                     *)
(*                                                                         *)
(* WalkInv says how far a pass has come: the providers before its place    *)
(* are attempted or out of the question, and what is known of those        *)
(* attempted is what they answered (Settled).  AskInv says the same of the *)
(* models of the provider that is being asked.  ShownInv says whose text   *)
(* the user may have seen.                                                 *)
(*                                                                         *)
(* The last sections show that a call cannot last for ever: it can always  *)
(* go on (CallsGoOn), and each of its steps costs it some of a budget that *)
(* the sizes of the configuration give it (CallsEnd).                      *)
(***************************************************************************)
EXTENDS ProviderFallback, FiniteSetTheorems, SequenceTheorems, TLAPS

LEMMA ConfFacts ==
  ASSUME conf \in Confs
  PROVE  /\ Order \in Seq(Providers) /\ Len(Order) \in Nat /\ DOMAIN Order = 1..Len(Order)
         /\ \A k \in 1..Len(Order) : Order[k] \in Providers
         /\ conf.configured \subseteq Elements(Order) /\ conf.configured \subseteq Providers
         /\ \A i, j \in 1..Len(Order) : Order[i] = Order[j] => i = j
         /\ conf.models \in [Providers -> SUBSET Models]
         /\ conf.primary \in [Providers -> Models \cup {NoModel}]
BY ConfsAssumption DEF Order, Conf

LEMMA OfferedTyped ==
  ASSUME TypeOK, NEW p \in Providers PROVE Offered(p) \subseteq Models
BY ConfFacts DEF TypeOK, Offered, Filtered

LEMMA OrdersTyped ==
  ASSUME TypeOK, NEW p \in Providers, NEW s \in ModelOrders(p)
  PROVE  /\ s \in Seq(Models) /\ Elements(s) = Offered(p)
         /\ \A i, j \in 1..Len(s) : s[i] = s[j] => i = j
<1>1. Offered(p) \subseteq Models /\ Cardinality(Offered(p)) \in Nat
  BY OfferedTyped, ModelsAssumption, FS_Subset, FS_CardinalityType
<1>2. s \in [1..Cardinality(Offered(p)) -> Offered(p)]
  BY DEF ModelOrders
<1>3. s \in Seq(Models) /\ Len(s) = Cardinality(Offered(p))
  BY <1>1, <1>2
<1>. QED  BY <1>1, <1>2, <1>3 DEF ModelOrders

-----------------------------------------------------------------------------

LEMMA InitTyped == Init => TypeOK
<1>1. SUFFICES ASSUME Init PROVE TypeOK
  OBVIOUS
<1>2. conf \in Confs
  BY <1>1 DEF Init
<1>3. at \in 1..(Len(Order) + 1) /\ pc # "ask"
  BY <1>1, <1>2, ConfFacts DEF Init
<1>4. shared \in [supported : [Providers -> SUBSET Models],
                  sticky : [Providers -> Models \cup {NoModel}]]
  BY <1>1 DEF Init, NothingKnown
<1>5. calls \in 0..MaxCalls /\ todo \in Seq(Models)
  BY <1>1, BoundsAssumption DEF Init
<1>. QED  BY <1>1, <1>2, <1>3, <1>4, <1>5 DEF Init, TypeOK

\* What a pass is like when it starts.
LEMMA StartTyped ==
  ASSUME TypeOK, UNCHANGED conf, at' = 1, pc' # "ask", FreshPass, NoProvider
  PROVE  /\ at' \in 1..(Len(Order') + 1) /\ (pc' = "ask" => at' \in DOMAIN Order')
         /\ todo' \in Seq(Models) /\ offered' \subseteq Models
         /\ limited' \subseteq failed' /\ failed' \subseteq Models
         /\ cooldowns' \subseteq attempted' /\ attempted' \subseteq Providers
         /\ answers' \subseteq Providers \X Models \X Kinds
         /\ offers' \in [Providers -> SUBSET Models] /\ shown' \subseteq Providers \X Models
<1>1. Order' = Order /\ Len(Order) \in Nat
  BY ConfFacts DEF Order, TypeOK
<1>2. todo' \in Seq(Models)
  BY DEF NoProvider
<1>3. offers' \in [Providers -> SUBSET Models]
  BY DEF FreshPass
<1>. QED  BY <1>1, <1>2, <1>3 DEF FreshPass, NoProvider

LEMMA CallTyped == ASSUME TypeOK, NEW kind \in {"stream", "plain"}, Call(kind) PROVE TypeOK'
<1>1. pc' # "ask" /\ pc' \in {"walk", "probe"} /\ at' = 1 /\ UNCHANGED conf
  BY DEF Call
<1>2. calls' \in 0..MaxCalls
  BY BoundsAssumption DEF Call, TypeOK
<1>. QED  BY <1>1, <1>2, StartTyped DEF Call, TypeOK, knownVars

LEMMA ProbeTyped == ASSUME TypeOK, Probe PROVE TypeOK'
<1>1. at \in 1..Len(Order) /\ Order[at] \in Providers
  BY ConfFacts DEF Probe, TypeOK
<1>2. Order' = Order /\ at' \in 1..(Len(Order) + 1)
  BY <1>1, ConfFacts DEF Probe, Order, TypeOK
<1>3. PICK ok \in HealthOf(Order[at]), names \in SUBSET Models :
        /\ available' = [available EXCEPT ![Order[at]] = ok]
        /\ IF ok /\ Order[at] \in Listing /\ names # {}
             THEN /\ supported' = [supported EXCEPT ![Order[at]] = names]
                  /\ shared' = [shared EXCEPT !.supported[Order[at]] = names]
             ELSE names = {} /\ UNCHANGED <<supported, shared>>
  BY DEF Probe
<1>4. available' \in [Providers -> BOOLEAN]
  BY <1>1, <1>3 DEF TypeOK, HealthOf
<1>5. supported' \in [Providers -> SUBSET Models]
  BY <1>1, <1>3 DEF TypeOK
<1>6. shared' \in [supported : [Providers -> SUBSET Models],
                   sticky : [Providers -> Models \cup {NoModel}]]
  BY <1>1, <1>3 DEF TypeOK
<1>. QED  BY <1>2, <1>4, <1>5, <1>6 DEF Probe, TypeOK

LEMMA ProbesDoneTyped == ASSUME TypeOK, ProbesDone PROVE TypeOK'
<1>1. pc' = "walk" /\ at' = 1 /\ FreshPass /\ NoProvider /\ pass' = pass /\ UNCHANGED conf
  BY DEF ProbesDone, StartPass
<1>. QED  BY <1>1, StartTyped DEF ProbesDone, TypeOK

LEMMA SkipTyped == ASSUME TypeOK, SkipProvider PROVE TypeOK'
<1>1. at \in 1..Len(Order) /\ Order[at] \in Providers
  BY ConfFacts DEF SkipProvider, TypeOK
<1>2. Order' = Order /\ at' \in 1..(Len(Order) + 1)
  BY <1>1, ConfFacts DEF SkipProvider, Order, TypeOK
<1>3. available' \in [Providers -> BOOLEAN]
  BY <1>1 DEF SkipProvider, TypeOK
<1>. QED  BY <1>2, <1>3 DEF SkipProvider, TypeOK

LEMMA TryTyped == ASSUME TypeOK, TryProvider PROVE TypeOK'
<1>1. at \in 1..Len(Order) /\ Order[at] \in Providers /\ Order' = Order
  BY ConfFacts DEF TryProvider, TypeOK, Order
<1>2. todo' \in Seq(Models) /\ Offered(Order[at]) \subseteq Models
  BY <1>1, OrdersTyped, OfferedTyped DEF TryProvider
<1>3. offers' \in [Providers -> SUBSET Models] /\ attempted' \subseteq Providers
  BY <1>1, <1>2 DEF TryProvider, TypeOK
<1>4. at' \in DOMAIN Order'
  BY <1>1, ConfFacts DEF TryProvider, TypeOK
<1>. QED  BY <1>1, <1>2, <1>3, <1>4 DEF TryProvider, TypeOK, knownVars

\* The model that is asked.
LEMMA HeadTyped ==
  ASSUME TypeOK, pc = "ask", todo # <<>>
  PROVE  /\ at \in 1..Len(Order) /\ Order[at] \in Providers
         /\ Head(todo) \in Models /\ Head(todo) = todo[1] /\ Len(todo) \in Nat \ {0}
         /\ Tail(todo) \in Seq(Models) /\ Len(Tail(todo)) = Len(todo) - 1
         /\ \A i \in 1..Len(Tail(todo)) : Tail(todo)[i] = todo[i + 1]
<1>1. at \in 1..Len(Order) /\ Order[at] \in Providers
  BY ConfFacts DEF TypeOK
<1>2. todo \in Seq(Models)
  BY DEF TypeOK
<1>. QED  BY <1>1, <1>2

LEMMA TokenTyped == ASSUME TypeOK, Token PROVE TypeOK'
<1>1. Order[at] \in Providers /\ Head(todo) \in Models /\ Order' = Order
  BY HeadTyped DEF Token, Order
<1>2. shown' \subseteq Providers \X Models
  BY <1>1 DEF Token, Asked, TypeOK
<1>. QED  BY <1>1, <1>2 DEF Token, TypeOK, knownVars

LEMMA AnswerTyped == ASSUME TypeOK, Answer PROVE TypeOK'
<1>1. Order[at] \in Providers /\ Head(todo) \in Models
  BY HeadTyped DEF Answer
<1>2. sticky' \in [Providers -> Models \cup {NoModel}]
  BY <1>1 DEF Answer, Remember, TypeOK
<1>3. lastAnswer' \in [Providers -> Models \cup {NoModel}]
  BY <1>1 DEF Answer, TypeOK
<1>4. shared' \in [supported : [Providers -> SUBSET Models],
                   sticky : [Providers -> Models \cup {NoModel}]]
  BY <1>1 DEF Answer, Remember, TypeOK
<1>5. pc' = "idle" /\ at' = 1 /\ FreshPass /\ NoProvider /\ UNCHANGED conf
  BY DEF Answer
<1>. QED  BY <1>2, <1>3, <1>4, <1>5, StartTyped DEF Answer, TypeOK

LEMMA RefuseTyped == ASSUME TypeOK, NEW kind \in Kinds, Refuse(kind) PROVE TypeOK'
<1>1. /\ Order[at] \in Providers /\ Head(todo) \in Models /\ Tail(todo) \in Seq(Models)
      /\ Order' = Order
  BY HeadTyped DEF Refuse, Order
<1>2. answers' \subseteq Providers \X Models \X Kinds
  BY <1>1 DEF Refuse, TypeOK
<1>3. limited' \subseteq failed' /\ failed' \subseteq Models
  BY <1>1 DEF Refuse, TypeOK
<1>. QED  BY <1>1, <1>2, <1>3 DEF Refuse, TypeOK, knownVars

LEMMA GiveUpTyped ==
  ASSUME TypeOK, GiveUpProvider, Order[at] \in attempted PROVE TypeOK'
<1>1. Order' = Order /\ at' \in 1..(Len(Order) + 1)
  BY ConfFacts DEF GiveUpProvider, TypeOK, Order
<1>2. todo' \in Seq(Models)
  BY DEF GiveUpProvider, NoProvider
<1>3. cooldowns' \subseteq attempted'
  BY DEF GiveUpProvider, TypeOK
<1>. QED  BY <1>1, <1>2, <1>3 DEF GiveUpProvider, NoProvider, TypeOK, knownVars

LEMMA EndTyped == ASSUME TypeOK, EndPass PROVE TypeOK'
<1>1. CASE AllOnCooldown \/ pass = "plain"
  BY <1>1 DEF EndPass, TypeOK, Order, walkVars, knownVars
<1>2. CASE ~(AllOnCooldown \/ pass = "plain")
  <2>1. pc' = "walk" /\ at' = 1 /\ FreshPass /\ NoProvider /\ pass' = "plain" /\ UNCHANGED conf
    BY <1>2 DEF EndPass, StartPass
  <2>. QED  BY <1>2, <2>1, StartTyped DEF EndPass, TypeOK, knownVars
<1>. QED  BY <1>1, <1>2

LEMMA AddKeyTyped == ASSUME TypeOK, NEW p \in Providers, AddKey(p) PROVE TypeOK'
BY DEF AddKey, TypeOK, Order, walkVars, knownVars

LEMMA NewRunTyped == ASSUME TypeOK, NewRun PROVE TypeOK'
BY DEF NewRun, TypeOK, Order, walkVars

LEMMA StutterTyped == ASSUME TypeOK, UNCHANGED vars PROVE TypeOK'
BY DEF TypeOK, Order, vars, walkVars, knownVars

-----------------------------------------------------------------------------
(* A pass.                                                                 *)

Refusals(p) == {a \in answers : a[1] = p}

\* All that p offers has been asked, and it is on cooldown if all that was limited.
Settled(p) ==
  /\ {a[2] : a \in Refusals(p)} = offers[p]
  /\ p \in cooldowns <=> offers[p] # {} /\ \A a \in Refusals(p) : a[3] = "limited"

\* p has had its turn.
Past(p) == p \in attempted \/ p \notin conf.configured \/ ~available[p]

WalkInv ==
  /\ \A a \in answers : a[1] \in attempted
  /\ pc \in {"walk", "ask"} =>
       /\ \A k \in 1..(at - 1) : Past(Order[k])
       /\ \A p \in attempted :
            \E k \in 1..Len(Order) : Order[k] = p /\ (k < at \/ (pc = "ask" /\ k = at))
       /\ \A p \in attempted : (pc = "ask" /\ p = Order[at]) \/ Settled(p)

AskInv ==
  pc = "ask" =>
    /\ Order[at] \in attempted \ cooldowns /\ offers[Order[at]] = offered
    /\ failed \cup Elements(todo) = offered /\ failed \cap Elements(todo) = {}
    /\ \A i, j \in 1..Len(todo) : todo[i] = todo[j] => i = j
    /\ {a[2] : a \in Refusals(Order[at])} = failed
    /\ \A a \in Refusals(Order[at]) : a[3] = "limited" <=> a[2] \in limited

EndInv ==
  outcome \in {"all_limited", "failed"} =>
    /\ pc = "idle"
    /\ \A p \in attempted : Settled(p)
    /\ outcome = "all_limited" <=> AllOnCooldown
    /\ \A p \in conf.configured : Past(p)

\* A text that was begun belongs to a model that is being asked, or that failed in
\* another way than by a 429.
ShownInv ==
  \A s \in shown : \/ <<s[1], s[2], "error">> \in answers
                   \/ pc = "ask" /\ todo # <<>> /\ s = Asked

PassInv == WalkInv /\ AskInv /\ EndInv

Inv == TypeOK /\ PassInv /\ ShownInv

\* Nothing is attempted yet, or not any more.
LEMMA StartPassInv ==
  ASSUME at' = 1, FreshPass, pc' # "ask", outcome' \notin {"all_limited", "failed"}
  PROVE  PassInv'
<1>1. attempted' = {} /\ answers' = {}
  BY DEF FreshPass
<1>. QED  BY <1>1 DEF PassInv, WalkInv, AskInv, EndInv

\* The pass does not move.
LEMMA ElsewherePassInv ==
  ASSUME Inv, UNCHANGED <<conf, available, pc, walkVars, outcome>>
  PROVE  PassInv'
BY DEF Inv, PassInv, WalkInv, AskInv, EndInv, Settled, Past, Refusals, AllOnCooldown, Order,
       walkVars, Elements

LEMMA CallPassInv ==
  ASSUME Inv, NEW kind \in {"stream", "plain"}, Call(kind) PROVE PassInv'
BY StartPassInv DEF Call

LEMMA ProbePassInv == ASSUME Inv, Probe PROVE PassInv'
BY DEF Probe, Inv, PassInv, WalkInv, AskInv, EndInv

LEMMA ProbesDonePassInv == ASSUME Inv, ProbesDone PROVE PassInv'
<1>1. outcome' \notin {"all_limited", "failed"}
  BY DEF ProbesDone, Inv, PassInv, EndInv
<1>. QED  BY <1>1, StartPassInv DEF ProbesDone, StartPass

LEMMA SkipPassInv == ASSUME Inv, SkipProvider PROVE PassInv'
<1>1. at \in 1..Len(Order) /\ Order[at] \in Providers /\ Order' = Order /\ at' = at + 1
  BY ConfFacts DEF SkipProvider, Inv, TypeOK, Order
<1>2. UNCHANGED <<conf, answers, attempted, cooldowns, offers, pc, outcome>> /\ pc = "walk"
  BY DEF SkipProvider
<1>3. \A p \in Providers : available'[p] => available[p]
  BY <1>1 DEF SkipProvider, Inv, TypeOK
<1>4. PICK p \in Providers : p = Order[at] /\ Past(p)'
  <2>1. PICK p \in Providers : p = Order[at]
    BY <1>1
  <2>2. /\ conf' = conf /\ ~Usable(p) /\ available \in [Providers -> BOOLEAN]
        /\ available' = IF p \in conf.configured
                          THEN [available EXCEPT ![p] = FALSE] ELSE available
    BY <1>1, <2>1 DEF SkipProvider, Inv, TypeOK
  <2>3. Past(p)'
    <3>1. CASE p \in conf.configured
      BY <2>2, <3>1 DEF Past
    <3>2. CASE p \notin conf.configured
      BY <2>2, <3>2 DEF Past
    <3>. QED  BY <3>1, <3>2
  <2>. QED  BY <2>1, <2>3
<1>5. \A k \in 1..(at - 1) : Past(Order[k])'
  <2>1. \A k \in 1..(at - 1) : Past(Order[k]) /\ Order[k] \in Providers
    BY <1>1, <1>2, ConfFacts DEF Inv, TypeOK, PassInv, WalkInv
  <2>. QED  BY <1>1, <1>2, <1>3, <2>1 DEF Past
<1>6. \A q \in attempted : Settled(q)'
  BY <1>2 DEF Inv, PassInv, WalkInv, Settled, Refusals
<1>7. \A q \in attempted : \E k \in 1..Len(Order) : Order[k] = q /\ k < at'
  BY <1>1, <1>2 DEF Inv, PassInv, WalkInv
<1>8. WalkInv'
  <2>1. \A k \in 1..(at' - 1) : Past(Order[k])'
    <3>1. ASSUME NEW k \in 1..(at' - 1) PROVE Past(Order[k])'
      <4>1. k = at \/ k \in 1..(at - 1)
        BY <1>1
      <4>2. CASE k = at
        BY <1>1, <1>4, <4>2
      <4>. QED  BY <1>5, <4>1, <4>2
    <3>. QED  BY <3>1
  <2>2. \A a \in answers' : a[1] \in attempted'
    BY <1>2 DEF Inv, PassInv, WalkInv
  <2>. QED  BY <1>1, <1>2, <1>6, <1>7, <2>1, <2>2 DEF WalkInv
<1>. QED  BY <1>2, <1>8 DEF Inv, PassInv, AskInv, EndInv

LEMMA TryPassInv == ASSUME Inv, TryProvider PROVE PassInv'
<1>1. at \in 1..Len(Order) /\ Order[at] \in Providers /\ Order' = Order
  BY ConfFacts DEF TryProvider, Inv, TypeOK, Order
<1>2. Order[at] \notin attempted
  BY <1>1, ConfFacts DEF TryProvider, Inv, TypeOK, PassInv, WalkInv
<1>3. Refusals(Order[at])' = {}
  BY <1>1, <1>2 DEF TryProvider, Refusals, Inv, PassInv, WalkInv
<1>4. \A p \in attempted : Settled(p)'
  <2>1. \A p \in attempted : Settled(p) /\ offers'[p] = offers[p]
    BY <1>1, <1>2 DEF TryProvider, Inv, TypeOK, PassInv, WalkInv
  <2>. QED  BY <2>1 DEF TryProvider, Settled, Refusals
<1>5. WalkInv'
  <2>1. \A k \in 1..(at - 1) : Past(Order[k])'
    <3>1. \A k \in 1..(at - 1) : Past(Order[k])
      BY DEF TryProvider, Inv, PassInv, WalkInv
    <3>. QED  BY <1>1, <3>1 DEF TryProvider, Past, knownVars
  <2>2. \A p \in attempted' :
          \E k \in 1..Len(Order) : Order[k] = p /\ (k < at \/ k = at)
    BY <1>1 DEF TryProvider, Inv, PassInv, WalkInv
  <2>3. \A a \in answers' : a[1] \in attempted'
    BY DEF TryProvider, Inv, PassInv, WalkInv
  <2>. QED  BY <1>1, <1>4, <2>1, <2>2, <2>3 DEF TryProvider, WalkInv
<1>6. AskInv'
  <2>1. Elements(todo') = offered' /\ \A i, j \in 1..Len(todo') : todo'[i] = todo'[j] => i = j
    BY <1>1, OrdersTyped DEF TryProvider, Inv
  <2>2. offers'[Order[at]] = offered' /\ Order[at] \in attempted' \ cooldowns'
    BY <1>1, <1>2 DEF TryProvider, Inv, TypeOK
  <2>. QED  BY <1>1, <1>3, <2>1, <2>2 DEF TryProvider, AskInv
<1>7. EndInv'
  BY DEF TryProvider, Inv, PassInv, EndInv
<1>. QED  BY <1>5, <1>6, <1>7 DEF PassInv

LEMMA TokenPassInv == ASSUME Inv, Token PROVE PassInv'
<1>1. UNCHANGED <<conf, available, pc, at, todo, offered, limited, failed, attempted, cooldowns,
                  answers, offers, outcome>>
  BY DEF Token, knownVars
<1>. QED  BY <1>1 DEF Inv, PassInv, WalkInv, AskInv, EndInv, Settled, Past, Refusals,
                     AllOnCooldown, Order, Elements

LEMMA AnswerPassInv == ASSUME Inv, Answer PROVE PassInv'
BY StartPassInv DEF Answer

LEMMA RefusePassInv == ASSUME Inv, NEW kind \in Kinds, Refuse(kind) PROVE PassInv'
<1>. DEFINE p == Order[at]
            m == Head(todo)
<1>1. /\ at \in 1..Len(Order) /\ p \in Providers /\ Order' = Order /\ m \in Models
      /\ pc = "ask" /\ todo # <<>>
  BY HeadTyped DEF Refuse, Inv, Order
<1>2. /\ UNCHANGED <<pc, at, offered, offers, attempted, cooldowns, outcome, conf, available>>
      /\ answers' = answers \cup {<<p, m, kind>>}
      /\ failed' = failed \cup {m}
      /\ limited' = IF kind = "limited" THEN limited \cup {m} ELSE limited
      /\ todo' = Tail(todo)
  BY DEF Refuse, knownVars
<1>3. Refusals(p)' = Refusals(p) \cup {<<p, m, kind>>}
  BY <1>1, <1>2 DEF Refusals
<1>4. \A q \in Providers \ {p} : Refusals(q)' = Refusals(q)
  BY <1>1, <1>2 DEF Refusals
<1>5. m \in Elements(todo) /\ m \notin failed /\ m \notin limited
  <2>1. m = todo[1] /\ 1 \in DOMAIN todo
    BY <1>1, HeadTyped DEF Inv, TypeOK
  <2>. QED  BY <1>1, <2>1 DEF Elements, Inv, TypeOK, PassInv, AskInv
<1>6. Elements(todo') = Elements(todo) \ {m}
  <2>1. todo \in Seq(Models) /\ Len(todo') = Len(todo) - 1 /\ m = todo[1] /\ Len(todo) \in Nat \ {0}
    BY <1>1, <1>2, HeadTyped DEF Inv, TypeOK
  <2>2. \A i \in 1..Len(todo') : todo'[i] = todo[i + 1]
    BY <1>1, <1>2, HeadTyped DEF Inv
  <2>3. DOMAIN todo = 1..Len(todo) /\ DOMAIN todo' = 1..Len(todo')
    BY <1>1, <1>2, <2>1, HeadTyped DEF Inv
  <2>4. \A i, j \in 1..Len(todo) : todo[i] = todo[j] => i = j
    BY <1>1 DEF Inv, PassInv, AskInv
  <2>5. ASSUME NEW x \in Elements(todo') PROVE x \in Elements(todo) \ {m}
    <3>1. PICK i \in 1..Len(todo') : x = todo'[i]
      BY <2>3 DEF Elements
    <3>2. i + 1 \in 1..Len(todo) /\ x = todo[i + 1] /\ i + 1 # 1 /\ 1 \in 1..Len(todo)
      BY <2>1, <2>2, <3>1
    <3>. QED  BY <2>1, <2>3, <2>4, <3>2 DEF Elements
  <2>6. ASSUME NEW x \in Elements(todo) \ {m} PROVE x \in Elements(todo')
    <3>1. PICK i \in 1..Len(todo) : x = todo[i] /\ i # 1
      BY <2>1, <2>3, <2>6 DEF Elements
    <3>2. i - 1 \in 1..Len(todo') /\ x = todo'[i - 1]
      BY <2>1, <2>2, <3>1
    <3>. QED  BY <2>3, <3>2 DEF Elements
  <2>. QED  BY <2>5, <2>6
<1>7. WalkInv'
  <2>1. \A q \in attempted \ {p} : Settled(q)'
    <3>1. \A q \in attempted \ {p} : Settled(q) /\ q \in Providers
      BY <1>1 DEF Inv, TypeOK, PassInv, WalkInv
    <3>. QED  BY <1>2, <1>4, <3>1 DEF Settled
  <2>2. p \in attempted
    BY <1>1 DEF Inv, PassInv, AskInv
  <2>3. \A a \in answers' : a[1] \in attempted'
    BY <1>2, <2>2 DEF Inv, PassInv, WalkInv
  <2>4. \A k \in 1..(at - 1) : Past(Order[k])'
    BY <1>1, <1>2 DEF Inv, PassInv, WalkInv, Past
  <2>. QED  BY <1>1, <1>2, <2>1, <2>3, <2>4 DEF Inv, PassInv, WalkInv
<1>8. AskInv'
  <2>1. {a[2] : a \in Refusals(p)'} = failed'
    <3>1. {a[2] : a \in Refusals(p)} = failed
      BY <1>1 DEF Inv, PassInv, AskInv
    <3>2. <<p, m, kind>>[2] = m
      OBVIOUS
    <3>3. {a[2] : a \in Refusals(p) \cup {<<p, m, kind>>}} = failed \cup {m}
      BY <3>1, <3>2, Zenon
    <3>. QED  BY <1>2, <1>3, <3>3
  <2>2. \A a \in Refusals(p)' : a[3] = "limited" <=> a[2] \in limited'
    <3>1. \A a \in Refusals(p) : a[2] # m /\ (a[3] = "limited" <=> a[2] \in limited)
      BY <1>1, <1>5 DEF Inv, PassInv, AskInv
    <3>. QED  BY <1>2, <1>3, <1>5, <3>1
  <2>3. failed' \cup Elements(todo') = offered /\ failed' \cap Elements(todo') = {}
    BY <1>1, <1>2, <1>5, <1>6 DEF Inv, PassInv, AskInv
  <2>4. \A i, j \in 1..Len(todo') : todo'[i] = todo'[j] => i = j
    <3>1. /\ Len(todo) \in Nat \ {0} /\ Len(todo') = Len(todo) - 1
          /\ \A i \in 1..Len(todo') : todo'[i] = todo[i + 1]
      BY <1>1, <1>2, HeadTyped DEF Inv
    <3>2. \A i, j \in 1..Len(todo) : todo[i] = todo[j] => i = j
      BY <1>1 DEF Inv, PassInv, AskInv
    <3>. QED  BY <3>1, <3>2
  <2>5. p \in attempted' \ cooldowns' /\ offers'[p] = offered'
    BY <1>1, <1>2 DEF Inv, PassInv, AskInv
  <2>. QED  BY <1>1, <1>2, <2>1, <2>2, <2>3, <2>4, <2>5 DEF AskInv
<1>9. EndInv'
  BY <1>1, <1>2 DEF Inv, PassInv, EndInv
<1>. QED  BY <1>7, <1>8, <1>9 DEF PassInv

LEMMA GiveUpPassInv == ASSUME Inv, GiveUpProvider PROVE PassInv'
<1>. PICK p \in Providers : p = Order[at]
  BY ConfFacts DEF GiveUpProvider, Inv, TypeOK
<1>1. /\ at \in 1..Len(Order) /\ p = Order[at] /\ Order' = Order
      /\ pc = "ask" /\ pc' = "walk" /\ at' = at + 1
  BY ConfFacts DEF GiveUpProvider, Inv, TypeOK, Order
<1>2. /\ UNCHANGED <<offers, attempted, outcome, conf, available, answers>>
      /\ cooldowns' = IF AllLimited THEN cooldowns \cup {p} ELSE cooldowns
  BY DEF GiveUpProvider, knownVars
<1>3. /\ p \in attempted \ cooldowns /\ offers[p] = offered
      /\ {a[2] : a \in Refusals(p)} = failed
      /\ \A a \in Refusals(p) : a[3] = "limited" <=> a[2] \in limited
  BY <1>1 DEF Inv, PassInv, AskInv
<1>4. failed = offered /\ limited \subseteq failed
  <2>1. Elements(todo) = {}
    BY DEF GiveUpProvider, Elements
  <2>. QED  BY <1>1, <2>1 DEF Inv, TypeOK, PassInv, AskInv
<1>5. AllLimited <=> offers[p] # {} /\ \A a \in Refusals(p) : a[3] = "limited"
  <2>1. AllLimited <=> limited # {} /\ limited = failed
    BY <1>4 DEF AllLimited
  <2>2. limited = failed <=> \A a \in Refusals(p) : a[2] \in limited
    <3>1. \A m : m \in failed <=> \E a \in Refusals(p) : a[2] = m
      BY <1>3, Zenon
    <3>2. limited = failed <=> \A m \in failed : m \in limited
      BY <1>4
    <3>. QED  BY <3>1, <3>2, Zenon
  <2>. QED  BY <1>3, <1>4, <2>1, <2>2
<1>6. Settled(p)'
  <2>1. p \in cooldowns' <=> AllLimited
    BY <1>2, <1>3
  <2>2. Refusals(p)' = Refusals(p)
    BY <1>1, <1>2 DEF Refusals
  <2>. QED  BY <1>1, <1>2, <1>3, <1>4, <1>5, <2>1, <2>2 DEF Settled
<1>7. \A q \in attempted \ {p} : Settled(q)'
  <2>1. \A q \in attempted \ {p} : Settled(q)
    BY <1>1 DEF Inv, PassInv, WalkInv
  <2>. QED  BY <1>2, <2>1 DEF Settled, Refusals
<1>8. WalkInv'
  <2>1. ASSUME NEW k \in 1..(at' - 1) PROVE Past(Order[k])'
    <3>1. k = at \/ k \in 1..(at - 1)
      BY <1>1
    <3>2. Past(Order[k])
      BY <1>1, <1>3, <3>1 DEF Inv, PassInv, WalkInv, Past
    <3>. QED  BY <1>1, <1>2, <3>2 DEF Past
  <2>2. \A q \in attempted : \E k \in 1..Len(Order) : Order[k] = q /\ k < at'
    BY <1>1 DEF Inv, PassInv, WalkInv
  <2>3. \A q \in attempted' : Settled(q)'
    BY <1>2, <1>6, <1>7
  <2>4. \A a \in answers' : a[1] \in attempted'
    BY <1>2 DEF Inv, PassInv, WalkInv
  <2>. QED  BY <1>1, <1>2, <2>1, <2>2, <2>3, <2>4 DEF WalkInv
<1>9. EndInv'
  BY <1>1, <1>2 DEF Inv, PassInv, EndInv
<1>. QED  BY <1>1, <1>8, <1>9 DEF PassInv, AskInv

\* The walk has reached its end: every provider that is configured is past.
LEMMA EndPassInv == ASSUME Inv, EndPass PROVE PassInv'
<1>1. CASE AllOnCooldown \/ pass = "plain"
  <2>1. /\ pc = "walk" /\ pc' = "idle" /\ at > Len(Order) /\ Len(Order) \in Nat
        /\ UNCHANGED <<attempted, cooldowns, answers, offers, conf, available>>
        /\ outcome' = IF AllOnCooldown THEN "all_limited" ELSE "failed"
    BY <1>1, ConfFacts DEF EndPass, walkVars, knownVars, Inv
  <2>2. \A p \in attempted : Settled(p)'
    <3>1. \A p \in attempted : Settled(p)
      BY <2>1 DEF Inv, PassInv, WalkInv
    <3>. QED  BY <2>1, <3>1 DEF Settled, Refusals
  <2>3. \A p \in conf.configured : Past(p)'
    <3>1. ASSUME NEW p \in conf.configured PROVE Past(p)
      <4>1. PICK k \in 1..Len(Order) : Order[k] = p
        BY ConfFacts DEF Inv, TypeOK, Elements
      <4>2. k \in 1..(at - 1)
        BY <2>1, <4>1 DEF Inv, TypeOK
      <4>. QED  BY <2>1, <4>1, <4>2 DEF Inv, PassInv, WalkInv
    <3>. QED  BY <2>1, <3>1 DEF Past
  <2>4. EndInv'
    BY <2>1, <2>2, <2>3 DEF EndInv, AllOnCooldown
  <2>5. WalkInv'
    BY <2>1 DEF Inv, PassInv, WalkInv
  <2>. QED  BY <2>1, <2>4, <2>5 DEF PassInv, AskInv
<1>2. CASE ~(AllOnCooldown \/ pass = "plain")
  <2>1. outcome \notin {"all_limited", "failed"}
    BY DEF EndPass, Inv, PassInv, EndInv
  <2>. QED  BY <1>2, <2>1, StartPassInv DEF EndPass, StartPass
<1>. QED  BY <1>1, <1>2

LEMMA NewRunPassInv == ASSUME Inv, NewRun PROVE PassInv'
BY DEF NewRun, walkVars, Inv, PassInv, WalkInv, AskInv, EndInv

-----------------------------------------------------------------------------
(* What has been shown.                                                    *)

\* Nothing is being asked, and no answer is forgotten.
LEMMA NotAskedShownInv ==
  ASSUME ShownInv, UNCHANGED <<shown, answers>>, pc # "ask" \/ todo = <<>>
  PROVE  ShownInv'
<1>1. \A s \in shown : <<s[1], s[2], "error">> \in answers
  BY DEF ShownInv
<1>2. \A s \in shown' : <<s[1], s[2], "error">> \in answers'
  BY <1>1
<1>. QED  BY <1>2 DEF ShownInv

LEMMA TokenShownInv == ASSUME ShownInv, Token PROVE ShownInv'
<1>1. /\ shown' = shown \cup {Asked} /\ UNCHANGED <<answers, pc, todo>> /\ Asked' = Asked
      /\ pc = "ask" /\ todo # <<>>
  BY DEF Token, Asked, Order
<1>. QED  BY <1>1 DEF ShownInv

LEMMA RefuseShownInv == ASSUME ShownInv, NEW kind \in Kinds, Refuse(kind) PROVE ShownInv'
<1>1. /\ answers' = answers \cup {<<Order[at], Head(todo), kind>>} /\ shown' = shown
      /\ kind = "limited" => Asked \notin shown
  BY DEF Refuse
<1>2. ASSUME NEW s \in shown PROVE <<s[1], s[2], "error">> \in answers'
  <2>1. CASE <<s[1], s[2], "error">> \in answers
    BY <1>1, <2>1
  <2>2. CASE s = Asked
    <3>1. kind = "error" /\ s[1] = Order[at] /\ s[2] = Head(todo)
      BY <1>1, <1>2, <2>2 DEF Kinds, Asked
    <3>. QED  BY <1>1, <3>1
  <2>. QED  BY <1>2, <2>1, <2>2 DEF ShownInv
<1>3. \A s \in shown' : <<s[1], s[2], "error">> \in answers'
  BY <1>1, <1>2
<1>. QED  BY <1>3 DEF ShownInv

LEMMA EndShownInv == ASSUME ShownInv, EndPass PROVE ShownInv'
<1>1. CASE AllOnCooldown \/ pass = "plain"
  BY <1>1, NotAskedShownInv DEF EndPass, walkVars
<1>2. CASE ~(AllOnCooldown \/ pass = "plain")
  BY <1>2 DEF EndPass, StartPass, FreshPass, ShownInv
<1>. QED  BY <1>1, <1>2

\* Every other step of the pass asks nobody, or forgets the pass.
LEMMA OtherShownInv ==
  ASSUME ShownInv, FreshPass \/ SkipProvider \/ TryProvider \/ GiveUpProvider \/ Probe \/ NewRun
  PROVE  ShownInv'
<1>1. CASE FreshPass
  BY <1>1 DEF FreshPass, ShownInv
<1>2. CASE SkipProvider \/ TryProvider \/ GiveUpProvider \/ Probe \/ NewRun
  BY <1>2, NotAskedShownInv DEF SkipProvider, TryProvider, GiveUpProvider, Probe, NewRun, walkVars
<1>. QED  BY <1>1, <1>2

LEMMA ElsewhereShownInv ==
  ASSUME ShownInv, UNCHANGED <<conf, pc, walkVars>> PROVE ShownInv'
BY DEF ShownInv, walkVars, Asked, Order

-----------------------------------------------------------------------------
(* The invariant, and the theorems.                                        *)

LEMMA InitInv == ASSUME Init PROVE Inv
BY InitTyped DEF Init, Inv, PassInv, WalkInv, AskInv, EndInv, ShownInv

LEMMA StepInv == ASSUME Inv, [Next]_vars PROVE Inv'
<1>1. ASSUME NEW kind \in {"stream", "plain"}, Call(kind) PROVE Inv'
  BY <1>1, CallTyped, CallPassInv, OtherShownInv DEF Inv, Call
<1>2. CASE Probe
  BY <1>2, ProbeTyped, ProbePassInv, OtherShownInv DEF Inv
<1>3. CASE ProbesDone
  BY <1>3, ProbesDoneTyped, ProbesDonePassInv, OtherShownInv DEF Inv, ProbesDone, StartPass
<1>4. CASE SkipProvider
  BY <1>4, SkipTyped, SkipPassInv, OtherShownInv DEF Inv
<1>5. CASE TryProvider
  BY <1>5, TryTyped, TryPassInv, OtherShownInv DEF Inv
<1>6. CASE Answer
  BY <1>6, AnswerTyped, AnswerPassInv, OtherShownInv DEF Inv, Answer
<1>7. ASSUME NEW kind \in Kinds, Refuse(kind) PROVE Inv'
  BY <1>7, RefuseTyped, RefusePassInv, RefuseShownInv DEF Inv
<1>8. CASE GiveUpProvider
  <2>1. Order[at] \in attempted
    BY <1>8 DEF GiveUpProvider, Inv, PassInv, AskInv
  <2>. QED  BY <1>8, <2>1, GiveUpTyped, GiveUpPassInv, OtherShownInv DEF Inv
<1>9. CASE EndPass
  BY <1>9, EndTyped, EndPassInv, EndShownInv DEF Inv
<1>10. ASSUME NEW p \in Providers, AddKey(p) PROVE Inv'
  <2>1. UNCHANGED <<conf, available, pc, walkVars, outcome>>
    BY <1>10 DEF AddKey, knownVars
  <2>. QED  BY <1>10, <2>1, AddKeyTyped, ElsewherePassInv, ElsewhereShownInv DEF Inv
<1>11. CASE NewRun
  BY <1>11, NewRunTyped, NewRunPassInv, OtherShownInv DEF Inv
<1>12. CASE UNCHANGED vars
  <2>1. UNCHANGED <<conf, available, pc, walkVars, outcome>>
    BY <1>12 DEF vars, knownVars
  <2>. QED  BY <1>12, <2>1, StutterTyped, ElsewherePassInv, ElsewhereShownInv DEF Inv
<1>13. CASE Token
  BY <1>13, TokenTyped, TokenPassInv, TokenShownInv DEF Inv
<1>. QED  BY <1>1, <1>2, <1>3, <1>4, <1>5, <1>6, <1>7, <1>8, <1>9, <1>10, <1>11, <1>12,
             <1>13
          DEF Next, Step

LEMMA InvHolds == Spec => []Inv
BY InitInv, StepInv, PTL DEF Spec

\* Every variable keeps its type; in particular the walk along the providers stays
\* within their order, and a model counts as limited only if it counts as failed.
THEOREM ProvidersTypeCorrect == Spec => []TypeOK
<1>1. Inv => TypeOK
  BY DEF Inv
<1>. QED  BY <1>1, InvHolds, PTL

\* The runner is told to wait exactly if every provider attempted in the last pass
\* offers models and answered 429 for each of them; nobody has then been shown text of
\* that pass.
THEOREM LimitedOnlyIfLimited == Spec => []LimitedMeansLimited
<1>1. Inv => LimitedMeansLimited
  <2>. SUFFICES ASSUME Inv, outcome \in {"all_limited", "failed"}
                PROVE  /\ (outcome = "all_limited" <=>
                             /\ attempted # {}
                             /\ \A p \in attempted :
                                  /\ offers[p] # {}
                                  /\ \A a \in answers : a[1] = p => a[3] = "limited")
                       /\ outcome = "all_limited" => shown = {}
    BY DEF LimitedMeansLimited
  <2>1. \A p \in attempted :
          p \in cooldowns <=> /\ offers[p] # {}
                             /\ \A a \in answers : a[1] = p => a[3] = "limited"
    BY DEF Inv, PassInv, EndInv, Settled, Refusals
  <2>2. outcome = "all_limited" <=> AllOnCooldown
    BY DEF Inv, PassInv, EndInv
  <2>3. cooldowns \subseteq attempted
    BY DEF Inv, TypeOK
  <2>4. ASSUME outcome = "all_limited", NEW s \in shown PROVE FALSE
    <3>1. <<s[1], s[2], "error">> \in answers
      BY <2>4 DEF Inv, PassInv, EndInv, ShownInv
    <3>2. s[1] \in cooldowns
      BY <2>2, <2>4, <3>1 DEF AllOnCooldown, Inv, PassInv, WalkInv
    <3>. QED  BY <2>1, <2>3, <3>1, <3>2
  <2>. QED  BY <2>1, <2>2, <2>3, <2>4 DEF AllOnCooldown
<1>. QED  BY <1>1, InvHolds, PTL

\* A call that fails has asked every model on offer of every provider that is
\* configured and that nothing spoke against when its turn came.
THEOREM NobodyIsPassedOver == Spec => []NobodyPassedOver
<1>1. Inv => NobodyPassedOver
  BY DEF Inv, PassInv, EndInv, Settled, Refusals, Past, NobodyPassedOver
<1>. QED  BY <1>1, InvHolds, PTL

\* What the bridge and the process remember is what answered last.
StickyInv == sticky = lastAnswer /\ shared.sticky = lastAnswer

LEMMA StickyStep == ASSUME Inv, StickyInv, [Next]_vars PROVE StickyInv'
<1>1. CASE Answer
  <2>1. sticky' = lastAnswer'
    BY <1>1 DEF Answer, Remember, StickyInv
  <2>2. shared'.sticky = [shared.sticky EXCEPT ![Order[at]] = Head(todo)]
    BY <1>1 DEF Answer, Remember, Inv, TypeOK
  <2>. QED  BY <1>1, <2>1, <2>2 DEF Answer, StickyInv
<1>2. CASE Probe
  <2>1. shared'.sticky = shared.sticky
    BY <1>2 DEF Probe, Inv, TypeOK
  <2>. QED  BY <1>2, <2>1 DEF Probe, StickyInv
<1>3. CASE NewRun
  BY <1>3 DEF NewRun, StickyInv
<1>4. CASE ProbesDone \/ SkipProvider \/ TryProvider \/ Token \/ GiveUpProvider
  BY <1>4 DEF Token, ProbesDone, SkipProvider, TryProvider, GiveUpProvider, knownVars, StickyInv
<1>5. CASE EndPass \/ UNCHANGED vars
  BY <1>5 DEF EndPass, vars, knownVars, StickyInv
<1>6. CASE \/ \E kind \in {"stream", "plain"} : Call(kind)
           \/ \E kind \in Kinds : Refuse(kind)
           \/ \E p \in Providers : AddKey(p)
  BY <1>6 DEF Call, Refuse, AddKey, knownVars, StickyInv
<1>. QED  BY <1>1, <1>2, <1>3, <1>4, <1>5, <1>6 DEF Next, Step

LEMMA FirstOfConcat ==
  ASSUME NEW S, NEW x \in S, NEW s \in Seq(S)
  PROVE  1 \in DOMAIN (<<x>> \o s) /\ (<<x>> \o s)[1] = x
<1>1. <<x>> \in Seq(S) /\ Len(<<x>>) = 1 /\ <<x>>[1] = x /\ Len(s) \in Nat
  OBVIOUS
<1>2. <<x>> \o s \in Seq(S) /\ Len(<<x>> \o s) = 1 + Len(s) /\ (<<x>> \o s)[1] = x
  BY <1>1, ConcatProperties
<1>3. \A t \in Seq(S) : DOMAIN t = 1..Len(t)
  OBVIOUS
<1>4. DOMAIN (<<x>> \o s) = 1..(1 + Len(s))
  BY <1>2, <1>3
<1>. QED  BY <1>1, <1>2, <1>4

\* What answered last leads the models that a provider is asked for.
LEMMA LastLeads ==
  ASSUME Inv, StickyInv, TryProvider, conf.stickyFirst,
         lastAnswer[Order[at]] \in offered'
  PROVE  1 \in DOMAIN todo' /\ todo'[1] = lastAnswer[Order[at]]
<1>. DEFINE p == Order[at]
<1>1. /\ sticky[p] = lastAnswer[p] /\ sticky[p] \in Offered(p)
      /\ todo' \in ModelOrders(p) /\ p \in Providers
  BY ConfFacts DEF TryProvider, StickyInv, Inv, TypeOK
<1>2. 1 \in DOMAIN Lead(p) /\ Lead(p)[1] = sticky[p]
  <2>. DEFINE S == {sticky[p], conf.primary[p]}
  <2>1. \E s \in Seq(S) : Lead(p) = <<sticky[p]>> \o s
    <3>1. <<>> \in Seq(S) /\ <<conf.primary[p]>> \in Seq(S)
      OBVIOUS
    <3>2. \/ Lead(p) = <<sticky[p]>> \o <<>>
          \/ Lead(p) = <<sticky[p]>> \o <<conf.primary[p]>>
      BY <1>1 DEF Lead
    <3>. QED  BY <3>1, <3>2, Zenon
  <2>2. sticky[p] \in S
    OBVIOUS
  <2>. HIDE DEF S
  <2>3. PICK s \in Seq(S) : Lead(p) = <<sticky[p]>> \o s
    BY <2>1
  <2>4. 1 \in DOMAIN (<<sticky[p]>> \o s) /\ (<<sticky[p]>> \o s)[1] = sticky[p]
    BY <2>2, FirstOfConcat
  <2>. QED  BY <2>3, <2>4, Zenon
<1>3. todo'[1] = sticky[p]
  BY <1>1, <1>2 DEF ModelOrders
<1>4. 1 \in DOMAIN todo'
  <2>1. Elements(todo') = Offered(p)
    BY <1>1 DEF ModelOrders
  <2>2. todo' # <<>>
    BY <1>1, <2>1 DEF Elements
  <2>. QED  BY <1>1, <2>2, OrdersTyped DEF Inv
<1>. QED  BY <1>1, <1>3, <1>4

\* What a run learns of a provider's models is not lost on the next one: the model
\* that answered last is asked before every other but the user's, unless the provider
\* offers it no more.
THEOREM LastAnswerFirst == Spec => LastAnswersFirst
<1>1. Init => StickyInv
  BY DEF Init, NothingKnown, StickyInv
<1>2. Inv /\ StickyInv /\ [Next]_vars => StickyInv'
  BY StickyStep
<1>3. Inv /\ StickyInv /\ [Next]_vars =>
        [TryProvider /\ conf.stickyFirst =>
           LET last == lastAnswer[Order[at]] IN
             last \in offered' =>
               \E i \in DOMAIN todo' :
                 /\ todo'[i] = last
                 /\ \A j \in 1..(i - 1) : todo'[j] = conf.primary[Order[at]]]_vars
  <2>. SUFFICES ASSUME Inv, StickyInv, TryProvider, conf.stickyFirst,
                       lastAnswer[Order[at]] \in offered'
                PROVE  \E i \in DOMAIN todo' :
                         /\ todo'[i] = lastAnswer[Order[at]]
                         /\ \A j \in 1..(i - 1) : todo'[j] = conf.primary[Order[at]]
    OBVIOUS
  <2>1. 1 \in DOMAIN todo' /\ todo'[1] = lastAnswer[Order[at]]
    BY LastLeads
  <2>2. 1..(1 - 1) = {}
    OBVIOUS
  <2>. QED  BY <2>1, <2>2
<1>. QED  BY <1>1, <1>2, <1>3, InvHolds, PTL DEF Spec, LastAnswersFirst

-----------------------------------------------------------------------------
(* A call can always go on.                                                *)

\* s has every element of S once.
Enumerates(s, S) ==
  /\ s \in [1..Cardinality(S) -> S]
  /\ Elements(s) = S
  /\ \A i, j \in DOMAIN s : s[i] = s[j] => i = j

LEMMA Enumerable ==
  ASSUME NEW S, IsFiniteSet(S) PROVE \E s : Enumerates(s, S)
<1>1. PICK s : s \in Bijection(1..Cardinality(S), S)
  BY FS_CardinalityType DEF ExistsBijection
<1>2. /\ s \in [1..Cardinality(S) -> S]
      /\ \A i, j \in DOMAIN s : s[i] = s[j] => i = j
      /\ \A x \in S : \E i \in 1..Cardinality(S) : s[i] = x
  BY <1>1, Zenon DEF Bijection, Injection, Surjection, IsInjective
<1>3. DOMAIN s = 1..Cardinality(S)
  BY <1>2
<1>4. Elements(s) = S
  BY <1>2, <1>3 DEF Elements
<1>. QED
  BY <1>2, <1>4 DEF Enumerates

\* An element goes before an enumeration of the others.
LEMMA AddFirst ==
  ASSUME NEW S, IsFiniteSet(S), NEW x \in S, NEW s, Enumerates(s, S \ {x})
  PROVE  \E t : /\ Enumerates(t, S) /\ t[1] = x
                /\ \A i \in DOMAIN s : t[i + 1] = s[i]
<1>. DEFINE n == Cardinality(S)
            t == [i \in 1..n |-> IF i = 1 THEN x ELSE s[i - 1]]
<1>1. n \in Nat \ {0} /\ Cardinality(S \ {x}) = n - 1
  BY FS_RemoveElement, FS_CardinalityType, FS_EmptySet
<1>2. DOMAIN s = 1..(n - 1) /\ \A i \in 1..(n - 1) : s[i] \in S \ {x}
  BY <1>1 DEF Enumerates
<1>3. t \in [1..n -> S] /\ t[1] = x /\ \A i \in 1..(n - 1) : t[i + 1] = s[i]
  BY <1>1, <1>2
<1>4. \A i \in 1..n : i = 1 \/ (i - 1 \in 1..(n - 1) /\ t[i] = s[i - 1])
  BY <1>1
<1>5. \A i, j \in 1..n : t[i] = t[j] => i = j
  <2>. HIDE DEF n, t
  <2>. SUFFICES ASSUME NEW i \in 1..n, NEW j \in 1..n, t[i] = t[j] PROVE i = j
    OBVIOUS
  <2>1. CASE i = 1 \/ j = 1
    BY <1>2, <1>3, <1>4, <2>1
  <2>2. CASE i # 1 /\ j # 1
    <3>1. i - 1 \in DOMAIN s /\ j - 1 \in DOMAIN s /\ s[i - 1] = s[j - 1]
      BY <1>2, <1>4, <2>2
    <3>2. i - 1 = j - 1
      BY <3>1 DEF Enumerates
    <3>. QED
      BY <1>1, <3>2
  <2>. QED
    BY <2>1, <2>2
<1>6. Elements(t) = S
  <2>1. ASSUME NEW y \in S PROVE \E i \in 1..n : t[i] = y
    <3>1. CASE y = x
      BY <1>1, <1>3, <3>1
    <3>2. CASE y # x
      <4>1. PICK i \in 1..(n - 1) : s[i] = y
        <5>. HIDE DEF n, t
        <5>1. y \in Elements(s)
          BY <3>2 DEF Enumerates
        <5>. QED
          BY <1>2, <5>1 DEF Elements
      <4>. QED
        BY <1>1, <1>3, <4>1
    <3>. QED
      BY <3>1, <3>2
  <2>. QED
    BY <1>3, <2>1 DEF Elements
<1>7. Enumerates(t, S)
  <2>1. DOMAIN t = 1..n
    OBVIOUS
  <2>. HIDE DEF t
  <2>. QED
    BY <1>3, <1>5, <1>6, <2>1 DEF Enumerates
<1>8. \A i \in DOMAIN s : t[i + 1] = s[i]
  BY <1>2, <1>3, Zenon
<1>. QED
  BY <1>3, <1>7, <1>8, Zenon

\* One after the other.
LEMMA PairConcat ==
  ASSUME NEW x, NEW y
  PROVE  /\ DOMAIN (<<x>> \o <<y>>) = {1, 2}
         /\ (<<x>> \o <<y>>)[1] = x /\ (<<x>> \o <<y>>)[2] = y
<1>. DEFINE S == {x, y}
<1>1. /\ <<x>> \in Seq(S) /\ Len(<<x>>) = 1 /\ <<x>>[1] = x
      /\ <<y>> \in Seq(S) /\ Len(<<y>>) = 1 /\ <<y>>[1] = y
  OBVIOUS
<1>. HIDE DEF S
<1>2. /\ <<x>> \o <<y>> \in Seq(S) /\ Len(<<x>> \o <<y>>) = 1 + 1
      /\ \A i \in 1..(1 + 1) : (<<x>> \o <<y>>)[i] = IF i <= 1 THEN <<x>>[i] ELSE <<y>>[i - 1]
  BY <1>1, ConcatProperties
<1>3. \A t \in Seq(S) : DOMAIN t = 1..Len(t)
  OBVIOUS
<1>4. DOMAIN (<<x>> \o <<y>>) = 1..2
  BY <1>2, <1>3
<1>. QED
  BY <1>1, <1>2, <1>4

\* What leads is on offer, once.
LEMMA LeadForms ==
  ASSUME NEW p \in Providers
  PROVE  \/ DOMAIN Lead(p) = {}
         \/ \E x \in Offered(p) : DOMAIN Lead(p) = {1} /\ Lead(p)[1] = x
         \/ \E x, y \in Offered(p) :
              x # y /\ DOMAIN Lead(p) = {1, 2} /\ Lead(p)[1] = x /\ Lead(p)[2] = y
<1>. DEFINE a == sticky[p]
            b == conf.primary[p]
<1>1. /\ <<>> \o <<b>> = <<b>> /\ <<a>> \o <<>> = <<a>> /\ <<>> \o <<>> = <<>>
      /\ DOMAIN <<>> = {}
      /\ DOMAIN <<a>> = {1} /\ <<a>>[1] = a /\ DOMAIN <<b>> = {1} /\ <<b>>[1] = b
  <2>. DEFINE S == {a, b}
  <2>1. <<a>> \in Seq(S) /\ <<b>> \in Seq(S) /\ <<>> \in Seq(S)
    OBVIOUS
  <2>2. DOMAIN <<>> = {} /\ DOMAIN <<a>> = {1} /\ DOMAIN <<b>> = {1}
    OBVIOUS
  <2>. HIDE DEF S
  <2>3. <<>> \o <<b>> = <<b>> /\ <<a>> \o <<>> = <<a>> /\ <<>> \o <<>> = <<>>
    BY <2>1, ConcatEmptySeq
  <2>. QED
    BY <2>2, <2>3
<1>2. \/ Lead(p) = <<>> \o <<>>
      \/ Lead(p) = <<a>> \o <<>> /\ a \in Offered(p)
      \/ Lead(p) = <<>> \o <<b>> /\ b \in Offered(p)
      \/ Lead(p) = <<a>> \o <<b>> /\ a \in Offered(p) /\ b \in Offered(p) /\ a # b
  BY DEF Lead
<1>3. CASE Lead(p) = <<a>> \o <<b>> /\ a \in Offered(p) /\ b \in Offered(p) /\ a # b
  <2>. HIDE DEF a, b
  <2>0. /\ DOMAIN (<<a>> \o <<b>>) = {1, 2}
        /\ (<<a>> \o <<b>>)[1] = a /\ (<<a>> \o <<b>>)[2] = b
    BY PairConcat
  <2>1. DOMAIN Lead(p) = {1, 2} /\ Lead(p)[1] = a /\ Lead(p)[2] = b
    BY <1>3, <2>0
  <2>. QED
    BY <1>3, <2>1, Zenon
<1>. HIDE DEF a, b
<1>. QED
  BY <1>1, <1>2, <1>3, Zenon

\* Whatever a provider offers, there is an order in which to ask for it.
LEMMA SomeOrder ==
  ASSUME TypeOK, NEW p \in Providers PROVE ModelOrders(p) # {}
<1>. DEFINE S == Offered(p)
<1>1. IsFiniteSet(S)
  BY OfferedTyped, ModelsAssumption, FS_Subset
<1>. HIDE DEF S
<1>0. ASSUME NEW s, Enumerates(s, S), \A i \in DOMAIN Lead(p) : s[i] = Lead(p)[i]
      PROVE  s \in ModelOrders(p)
  BY <1>0 DEF ModelOrders, Enumerates, S
<1>2. CASE DOMAIN Lead(p) = {}
  <2>1. PICK s : Enumerates(s, S)
    BY <1>1, Enumerable
  <2>. QED
    BY <1>0, <1>2, <2>1
<1>3. CASE \E x \in S : DOMAIN Lead(p) = {1} /\ Lead(p)[1] = x
  <2>1. PICK x \in S : DOMAIN Lead(p) = {1} /\ Lead(p)[1] = x
    BY <1>3
  <2>2. PICK s : Enumerates(s, S \ {x})
    BY <1>1, Enumerable, FS_RemoveElement
  <2>3. PICK t : Enumerates(t, S) /\ t[1] = x
    BY <1>1, <2>2, AddFirst
  <2>. QED
    BY <1>0, <2>1, <2>3
<1>4. CASE \E x, y \in S :
              x # y /\ DOMAIN Lead(p) = {1, 2} /\ Lead(p)[1] = x /\ Lead(p)[2] = y
  <2>1. PICK x \in S, y \in S :
         x # y /\ DOMAIN Lead(p) = {1, 2} /\ Lead(p)[1] = x /\ Lead(p)[2] = y
    BY <1>4
  <2>0. PICK R : R = S \ {x}
    OBVIOUS
  <2>2. R = S \ {x} /\ IsFiniteSet(R) /\ IsFiniteSet(R \ {y}) /\ y \in R
    BY <1>1, <2>0, <2>1, FS_RemoveElement
  <2>3. PICK r : Enumerates(r, R \ {y})
    BY <2>2, Enumerable
  <2>4. PICK s : Enumerates(s, R) /\ s[1] = y
    BY <2>2, <2>3, AddFirst
  <2>5. Cardinality(R) \in Nat \ {0}
    <3>1. R # {}
      BY <2>2
    <3>. QED
      BY <2>2, <3>1, FS_CardinalityType, FS_EmptySet
  <2>6. 1 \in DOMAIN s
    BY <2>4, <2>5 DEF Enumerates
  <2>7. PICK t : Enumerates(t, S) /\ t[1] = x /\ t[1 + 1] = y
    BY <1>1, <2>2, <2>4, <2>6, AddFirst
  <2>. QED
    <3>1. t[2] = y
      <4>1. 1 + 1 = 2
        OBVIOUS
      <4>. QED
        BY <2>7, <4>1, Zenon
    <3>2. \A i \in DOMAIN Lead(p) : t[i] = Lead(p)[i]
      BY <2>1, <2>7, <3>1, Zenon
    <3>. QED
      BY <1>0, <2>7, <3>2
<1>. QED
  BY <1>2, <1>3, <1>4, LeadForms DEF S

\* Some step of a call can be taken: the probe of the next provider or its turn, a
\* question to its next model, or the end of one of them.
CallGoesOn ==
  /\ pc = "probe" /\ at \leq Len(Order) => HealthOf(Order[at]) # {}
  /\ pc = "walk" /\ at \leq Len(Order) /\ Usable(Order[at]) => ModelOrders(Order[at]) # {}

\* For any configuration, and whatever was learned of the models, no call ever
\* stands before a provider without a way to go on (_get_model_fallback_order).
THEOREM CallsGoOn == Spec => []CallGoesOn
<1>1. Inv => CallGoesOn
  <2>. SUFFICES ASSUME Inv PROVE CallGoesOn
    OBVIOUS
  <2>1. at \leq Len(Order) => Order[at] \in Providers
    BY ConfFacts DEF Inv, TypeOK
  <2>2. \A p : HealthOf(p) # {}
    BY DEF HealthOf
  <2>. QED
    BY <2>1, <2>2, SomeOrder DEF CallGoesOn, Inv
<1>. QED
  BY <1>1, InvHolds, PTL

-----------------------------------------------------------------------------
(* How long a call can be.                                                 *)

MaxModels == Cardinality(Models)

\* What a provider takes: its turn, two steps for each of its models, and its end.
TurnSteps == 2 * MaxModels + 2

PassSteps == Len(Order) * TurnSteps

\* What is left of the turn of a provider: a piece of text, and the end of it, for
\* each model still to be asked, less the piece that has arrived; and its own end.
LeftOfTurn ==
  2 * Len(todo) + 1 - (IF todo # <<>> /\ Asked \in shown THEN 1 ELSE 0)

\* What the providers from this one on take.
LeftOfOrder == (Len(Order) + 1 - at) * TurnSteps

LeftOfPass ==
  CASE pc = "walk" -> LeftOfOrder + 1
    [] pc = "ask" -> LeftOfOrder - TurnSteps + 1 + LeftOfTurn
    [] pc = "probe" -> PassSteps + 2 + (Len(Order) + 1 - at)
    [] OTHER -> 0

\* A streaming pass may be followed by another one.
LeftOfPasses == IF pc # "idle" /\ pass = "stream" THEN PassSteps + 2 ELSE 0

Budget == LeftOfPass + LeftOfPasses

\* Every step of a call costs it some of its budget.
BudgetIsSpent == [][Step => Budget' < Budget]_vars

LEMMA Product ==
  ASSUME NEW m \in Int, NEW T \in Nat
  PROVE  /\ m * T \in Int
         /\ (m - 1) * T = m * T - T
         /\ m \geq 0 => m * T \geq 0
         /\ m \geq 1 => m * T \geq T
<1>1. m * T \in Int /\ (m - 1) * T = m * T - T
  OBVIOUS
<1>2. \A n \in Nat : n * T \geq 0
  OBVIOUS
<1>. QED
  BY <1>1, <1>2

LEMMA StepSizes ==
  ASSUME TypeOK
  PROVE  /\ MaxModels \in Nat /\ TurnSteps = 2 * MaxModels + 2 /\ PassSteps \in Nat
         /\ Len(Order) \in Nat /\ at \in Nat \ {0} /\ at \leq Len(Order) + 1
         /\ (pc = "ask" => at \leq Len(Order))
         /\ todo \in Seq(Models) /\ Len(todo) \in Nat /\ LeftOfTurn \in Nat \ {0}
         /\ LeftOfOrder \in Nat /\ (at \leq Len(Order) => LeftOfOrder \geq TurnSteps)
<1>1. MaxModels \in Nat
  BY ModelsAssumption, FS_CardinalityType DEF MaxModels
<1>2. /\ Len(Order) \in Nat /\ at \in Nat \ {0} /\ at \leq Len(Order) + 1
      /\ pc = "ask" => at \leq Len(Order)
  BY ConfFacts DEF TypeOK
<1>3. TurnSteps \in Nat
  BY <1>1 DEF TurnSteps
<1>4. PassSteps \in Nat
  BY <1>2, <1>3, Product DEF PassSteps
<1>5. todo \in Seq(Models) /\ Len(todo) \in Nat /\ (todo # <<>> => Len(todo) \geq 1)
  BY DEF TypeOK
<1>6. LeftOfTurn \in Nat \ {0}
  BY <1>5 DEF LeftOfTurn
<1>7. LeftOfOrder \in Nat /\ (at \leq Len(Order) => LeftOfOrder \geq TurnSteps)
  <2>1. PICK m \in Int : m = Len(Order) + 1 - at
    BY <1>2
  <2>2. m \geq 0 /\ (at \leq Len(Order) => m \geq 1) /\ LeftOfOrder = m * TurnSteps
    BY <1>2, <2>1 DEF LeftOfOrder
  <2>. QED
    BY <1>3, <2>2, Product
<1>. QED
  BY <1>1, <1>2, <1>4, <1>5, <1>6, <1>7 DEF TurnSteps

\* The sizes are those of the configuration, and the place moves along the order.
LEMMA OrderMoves ==
  ASSUME TypeOK, conf' = conf
  PROVE  /\ TurnSteps' = TurnSteps /\ PassSteps' = PassSteps /\ Len(Order') = Len(Order)
         /\ at' = at => LeftOfOrder' = LeftOfOrder
         /\ at' = at + 1 => LeftOfOrder' = LeftOfOrder - TurnSteps
         /\ at' = 1 => LeftOfOrder' = PassSteps
<1>1. TurnSteps' = TurnSteps /\ PassSteps' = PassSteps /\ Order' = Order
  BY DEF TurnSteps, PassSteps, MaxModels, Order
<1>2. CASE at' = at + 1
  <2>1. PICK m \in Int : m = Len(Order) + 1 - at
    BY StepSizes
  <2>2. Len(Order') + 1 - at' = m - 1
    <3>1. \A n, a \in Int : n + 1 - a = m => n + 1 - (a + 1) = m - 1
      OBVIOUS
    <3>2. Len(Order) \in Int /\ at \in Int
      BY StepSizes
    <3>. QED
      BY <1>1, <1>2, <2>1, <3>1, <3>2, Zenon
  <2>3. LeftOfOrder = m * TurnSteps /\ LeftOfOrder' = (m - 1) * TurnSteps
    BY <1>1, <2>1, <2>2, Zenon DEF LeftOfOrder
  <2>4. TurnSteps \in Nat
    BY StepSizes
  <2>5. LeftOfOrder' = LeftOfOrder - TurnSteps
    BY <2>3, <2>4, Product
  <2>6. at' # at /\ (at' = 1 => FALSE)
    BY <1>2, StepSizes
  <2>. QED
    BY <1>1, <2>5, <2>6
<1>3. at' = 1 => LeftOfOrder' = PassSteps
  <2>1. Len(Order) + 1 - 1 = Len(Order)
    BY StepSizes
  <2>. QED
    BY <1>1, <2>1 DEF LeftOfOrder, PassSteps
<1>4. at' = at => LeftOfOrder' = LeftOfOrder
  BY <1>1 DEF LeftOfOrder
<1>. QED
  BY <1>1, <1>2, <1>3, <1>4, StepSizes

\* What is left of a pass is never negative, and something while it lasts.
LEMMA PassSizes ==
  ASSUME TypeOK
  PROVE  LeftOfPass \in Nat /\ (pc \in {"walk", "ask"} => LeftOfPass \in Nat \ {0})
<1>0. pc \in {"idle", "probe", "walk", "ask"}
  BY DEF TypeOK
<1>1. CASE pc = "ask"
  <2>1. /\ LeftOfOrder \in Nat /\ TurnSteps \in Nat /\ LeftOfOrder \geq TurnSteps
        /\ LeftOfTurn \in Nat
    BY <1>1, StepSizes
  <2>2. LeftOfPass = LeftOfOrder - TurnSteps + 1 + LeftOfTurn
    BY <1>1 DEF LeftOfPass
  <2>3. \A o, t, u \in Nat : o \geq t => o - t + 1 + u \in Nat \ {0}
    OBVIOUS
  <2>. QED
    BY <2>1, <2>2, <2>3, Zenon
<1>2. CASE pc = "walk"
  <2>1. LeftOfOrder \in Nat
    BY StepSizes
  <2>2. LeftOfPass = LeftOfOrder + 1
    BY <1>2 DEF LeftOfPass
  <2>. QED
    BY <2>1, <2>2
<1>3. CASE pc = "probe"
  <2>1. /\ PassSteps \in Nat /\ Len(Order) \in Nat /\ at \in Nat
        /\ at \leq Len(Order) + 1
    BY StepSizes
  <2>2. LeftOfPass = PassSteps + 2 + (Len(Order) + 1 - at)
    BY <1>3 DEF LeftOfPass
  <2>3. \A q, n, a \in Nat : a \leq n + 1 => q + 2 + (n + 1 - a) \in Nat
    OBVIOUS
  <2>. QED
    BY <1>3, <2>1, <2>2, <2>3, Zenon
<1>4. CASE pc = "idle"
  BY <1>4 DEF LeftOfPass
<1>. QED
  BY <1>0, <1>1, <1>2, <1>3, <1>4

\* A budget is never overdrawn.
LEMMA BudgetIsNatural == ASSUME TypeOK PROVE Budget \in Nat
<1>1. LeftOfPass \in Nat
  BY PassSizes
<1>2. LeftOfPasses \in Nat
  BY StepSizes DEF LeftOfPasses
<1>. QED
  BY <1>1, <1>2 DEF Budget

\* It is enough that less of the pass is left, or of the passes.
LEMMA Spends ==
  ASSUME TypeOK, LeftOfPass \in Int, LeftOfPass' \in Int, LeftOfPass' < LeftOfPass,
         conf' = conf, pc' = "idle" \/ pass' = pass, pc # "idle"
  PROVE  Budget' < Budget
<1>1. LeftOfPasses \in Nat /\ LeftOfPasses' \in Nat /\ LeftOfPasses' \leq LeftOfPasses
  <2>1. PassSteps \in Nat /\ PassSteps' = PassSteps
    BY StepSizes, OrderMoves
  <2>. QED
    BY <2>1 DEF LeftOfPasses
<1>2. Budget' = LeftOfPass' + LeftOfPasses' /\ Budget = LeftOfPass + LeftOfPasses
  BY DEF Budget
<1>3. \A a, b, c, d \in Int : a < b /\ c \leq d => a + c < b + d
  OBVIOUS
<1>4. LeftOfPass' \in Int /\ LeftOfPass \in Int /\ LeftOfPasses' \in Int /\ LeftOfPasses \in Int
  BY <1>1
<1>5. LeftOfPass' + LeftOfPasses' < LeftOfPass + LeftOfPasses
  BY <1>1, <1>3, <1>4, Zenon
<1>. QED
  BY <1>2, <1>5, Zenon

LEMMA ProbeSpends ==
  ASSUME TypeOK, Probe \/ ProbesDone PROVE Budget' < Budget
<1>1. UNCHANGED <<conf, pass>> /\ pc = "probe"
  BY DEF Probe, ProbesDone, StartPass
<1>2. LeftOfPass = PassSteps + 2 + (Len(Order) + 1 - at)
  BY <1>1 DEF LeftOfPass
<1>3. CASE Probe
  <2>1. LeftOfPass' = PassSteps + 2 + (Len(Order) + 1 - (at + 1))
    BY <1>1, <1>3, OrderMoves DEF Probe, LeftOfPass
  <2>2. LeftOfPass \in Int /\ LeftOfPass' \in Int /\ LeftOfPass' < LeftOfPass
    <3>1. \A q, n, a \in Int :
            LET left == q + 2 + (n + 1 - a)
                next == q + 2 + (n + 1 - (a + 1))
            IN  left \in Int /\ next \in Int /\ next < left
      OBVIOUS
    <3>2. PassSteps \in Int /\ Len(Order) \in Int /\ at \in Int
      BY StepSizes
    <3>. QED
      BY <1>2, <2>1, <3>1, <3>2, Zenon
  <2>. QED
    BY <1>1, <2>2, Spends
<1>4. CASE ProbesDone
  <2>1. LeftOfPass' = PassSteps + 1
    BY <1>1, <1>4, OrderMoves DEF ProbesDone, StartPass, LeftOfPass
  <2>2. LeftOfPass \in Int /\ LeftOfPass' \in Int /\ LeftOfPass' < LeftOfPass
    <3>1. \A q \in Int, n, a \in Int : a \leq n + 1 =>
            LET left == q + 2 + (n + 1 - a)
            IN  left \in Int /\ q + 1 \in Int /\ q + 1 < left
      OBVIOUS
    <3>2. /\ PassSteps \in Int /\ Len(Order) \in Int /\ at \in Int
          /\ at \leq Len(Order) + 1
      BY StepSizes
    <3>. QED
      BY <1>2, <2>1, <3>1, <3>2, Zenon
  <2>. QED
    BY <1>1, <2>2, Spends
<1>. QED
  BY <1>3, <1>4

LEMMA SkipSpends ==
  ASSUME TypeOK, SkipProvider PROVE Budget' < Budget
<1>1. /\ UNCHANGED <<conf, pass>> /\ pc # "idle" /\ at' = at + 1
      /\ LeftOfPass = LeftOfOrder + 1 /\ LeftOfPass' = LeftOfOrder' + 1
  BY DEF SkipProvider, LeftOfPass
<1>2. LeftOfPass \in Int /\ LeftOfPass' \in Int /\ LeftOfPass' < LeftOfPass
  <2>1. LeftOfOrder' = LeftOfOrder - TurnSteps
    BY <1>1, OrderMoves
  <2>2. LeftOfOrder \in Int /\ TurnSteps \in Nat \ {0}
    BY StepSizes
  <2>3. \A o \in Int, t \in Nat \ {0} :
          o + 1 \in Int /\ (o - t) + 1 \in Int /\ (o - t) + 1 < o + 1
    OBVIOUS
  <2>. QED
    BY <1>1, <2>1, <2>2, <2>3, Zenon
<1>. QED
  BY <1>1, <1>2, Spends

LEMMA GiveUpSpends ==
  ASSUME TypeOK, GiveUpProvider PROVE Budget' < Budget
<1>1. /\ UNCHANGED <<conf, pass>> /\ pc # "idle" /\ at' = at + 1
      /\ LeftOfPass = LeftOfOrder - TurnSteps + 1 + LeftOfTurn
      /\ LeftOfPass' = LeftOfOrder' + 1
  BY DEF GiveUpProvider, LeftOfPass
<1>2. LeftOfPass \in Int /\ LeftOfPass' \in Int /\ LeftOfPass' < LeftOfPass
  <2>1. LeftOfOrder' = LeftOfOrder - TurnSteps
    BY <1>1, OrderMoves
  <2>2. LeftOfOrder \in Int /\ TurnSteps \in Int /\ LeftOfTurn \in Nat \ {0}
    BY StepSizes
  <2>3. \A o, t \in Int, u \in Nat \ {0} :
          o - t + 1 + u \in Int /\ (o - t) + 1 \in Int /\ (o - t) + 1 < o - t + 1 + u
    OBVIOUS
  <2>. QED
    BY <1>1, <2>1, <2>2, <2>3, Zenon
<1>. QED
  BY <1>1, <1>2, Spends

LEMMA TrySpends ==
  ASSUME TypeOK, TryProvider PROVE Budget' < Budget
<1>1. /\ UNCHANGED <<conf, pass>> /\ pc # "idle" /\ at' = at /\ at \leq Len(Order)
      /\ LeftOfPass = LeftOfOrder + 1
      /\ LeftOfPass' = LeftOfOrder' - TurnSteps' + 1 + LeftOfTurn'
  BY DEF TryProvider, LeftOfPass
<1>2. Order[at] \in Providers /\ todo' \in ModelOrders(Order[at])
  BY ConfFacts DEF TryProvider, TypeOK
<1>3. Len(todo') \in Nat /\ Len(todo') \leq MaxModels
  <2>1. Offered(Order[at]) \subseteq Models
    BY <1>2, OfferedTyped
  <2>2. /\ Cardinality(Offered(Order[at])) \in Nat
        /\ Cardinality(Offered(Order[at])) \leq MaxModels
    BY <2>1, ModelsAssumption, FS_Subset, FS_CardinalityType DEF MaxModels
  <2>3. todo' \in [1..Cardinality(Offered(Order[at])) -> Offered(Order[at])]
    BY <1>2 DEF ModelOrders
  <2>. QED
    BY <2>2, <2>3
<1>4. LeftOfTurn' \in Int /\ LeftOfTurn' \leq 2 * MaxModels + 1
  BY <1>3, StepSizes DEF LeftOfTurn
<1>5. LeftOfPass \in Int /\ LeftOfPass' \in Int /\ LeftOfPass' < LeftOfPass
  <2>1. LeftOfOrder' = LeftOfOrder /\ TurnSteps' = TurnSteps
    BY <1>1, OrderMoves
  <2>2. LeftOfOrder \in Int /\ MaxModels \in Int /\ TurnSteps = 2 * MaxModels + 2
    BY StepSizes
  <2>3. \A o, m, u \in Int : u \leq 2 * m + 1 =>
          /\ o + 1 \in Int /\ o - (2 * m + 2) + 1 + u \in Int
          /\ o - (2 * m + 2) + 1 + u < o + 1
    OBVIOUS
  <2>. QED
    BY <1>1, <1>4, <2>1, <2>2, <2>3, Zenon
<1>. QED
  BY <1>1, <1>5, Spends

\* A piece of text arrives, or a model is done with.
LEMMA AskSpends ==
  ASSUME TypeOK, Token \/ \E kind \in Kinds : Refuse(kind) PROVE Budget' < Budget
<1>1. /\ UNCHANGED <<conf, pc, pass, at>> /\ pc = "ask" /\ todo # <<>>
      /\ LeftOfPass = LeftOfOrder - TurnSteps + 1 + LeftOfTurn
      /\ LeftOfPass' = LeftOfOrder' - TurnSteps' + 1 + LeftOfTurn'
  BY DEF Token, Refuse, LeftOfPass
<1>2. LeftOfTurn' \in Int /\ LeftOfTurn' < LeftOfTurn
  <2>1. CASE Token
    <3>1. todo' = todo /\ Asked' = Asked /\ Asked \notin shown /\ Asked \in shown'
      BY <1>1, <2>1 DEF Token, Asked, Order
    <3>2. LeftOfTurn = 2 * Len(todo) + 1 /\ LeftOfTurn' = 2 * Len(todo)
      BY <1>1, <3>1, StepSizes DEF LeftOfTurn
    <3>. QED
      BY <3>2, StepSizes
  <2>2. CASE \E kind \in Kinds : Refuse(kind)
    <3>1. todo' = Tail(todo) /\ Len(todo') = Len(todo) - 1 /\ Len(todo) \in Nat \ {0}
      BY <1>1, <2>2, HeadTyped DEF Refuse
    <3>2. LeftOfTurn \geq 2 * Len(todo) /\ LeftOfTurn \in Int
      BY <3>1, StepSizes DEF LeftOfTurn
    <3>3. LeftOfTurn' \leq 2 * (Len(todo) - 1) + 1 /\ LeftOfTurn' \in Int
      BY <3>1 DEF LeftOfTurn
    <3>. QED
      BY <3>1, <3>2, <3>3
  <2>. QED
    BY <2>1, <2>2
<1>3. LeftOfPass \in Int /\ LeftOfPass' \in Int /\ LeftOfPass' < LeftOfPass
  <2>1. LeftOfOrder' = LeftOfOrder /\ TurnSteps' = TurnSteps
    BY <1>1, OrderMoves
  <2>2. LeftOfOrder \in Int /\ TurnSteps \in Int /\ LeftOfTurn \in Int
    BY StepSizes
  <2>3. \A o, t, u, v \in Int : v < u =>
          /\ o - t + 1 + u \in Int /\ o - t + 1 + v \in Int
          /\ o - t + 1 + v < o - t + 1 + u
    OBVIOUS
  <2>. QED
    BY <1>1, <1>2, <2>1, <2>2, <2>3, Zenon
<1>. QED
  BY <1>1, <1>3, Spends

\* The call ends, or starts again without streaming.
LEMMA EndSpends ==
  ASSUME TypeOK, Answer \/ EndPass PROVE Budget' < Budget
<1>1. conf' = conf /\ pc \in {"walk", "ask"}
  BY DEF Answer, EndPass
<1>2. LeftOfPass \in Nat \ {0}
  BY <1>1, PassSizes
<1>3. CASE pc' = "idle"
  <2>1. LeftOfPass' = 0
    BY <1>3 DEF LeftOfPass
  <2>. QED
    BY <1>1, <1>2, <1>3, <2>1, Spends
<1>4. CASE EndPass /\ pass = "stream" /\ StartPass("plain")
  <2>1. LeftOfPass' = PassSteps + 1 /\ LeftOfPasses' = 0 /\ LeftOfPasses = PassSteps + 2
    <3>1. pc = "walk" /\ pc' = "walk" /\ pass' = "plain" /\ at' = 1
      BY <1>4 DEF EndPass, StartPass
    <3>2. LeftOfOrder' = PassSteps
      BY <1>1, <3>1, OrderMoves
    <3>. QED
      BY <1>4, <3>1, <3>2 DEF LeftOfPass, LeftOfPasses
  <2>2. Budget' = PassSteps + 1 + 0 /\ Budget = LeftOfPass + (PassSteps + 2)
    BY <2>1 DEF Budget
  <2>3. PassSteps \in Nat
    BY StepSizes
  <2>4. \A q \in Nat, left \in Nat \ {0} : q + 1 + 0 < left + (q + 2)
    OBVIOUS
  <2>. QED
    BY <1>2, <2>2, <2>3, <2>4, Zenon
<1>. QED
  BY <1>3, <1>4 DEF Answer, EndPass, TypeOK

\* However providers probe, answer, break off and refuse, a call has a budget of
\* steps, given by the order of its providers and the number of models, that each
\* of its steps diminishes (call_provider_streaming, call_provider).
THEOREM CallsEnd == Spec => [](Budget \in Nat) /\ BudgetIsSpent
<1>1. TypeOK => Budget \in Nat
  BY BudgetIsNatural
<1>2. TypeOK /\ [Next]_vars => [Step => Budget' < Budget]_vars
  BY ProbeSpends, SkipSpends, TrySpends, GiveUpSpends, AskSpends, EndSpends DEF Step
<1>. QED
  BY <1>1, <1>2, ProvidersTypeCorrect, PTL DEF Spec, BudgetIsSpent
=============================================================================
