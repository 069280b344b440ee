-------------------------- MODULE ProviderFallback -------------------------
(***************************************************************************)
(* The provider calls of a run: OrchestratorBridge                         *)
(* (engine/orchestrator_bridge.py).  A call probes the providers the first *)
(* time, then asks model after model of provider after provider, first     *)
(* streaming, then without, until one answers.  It returns the answer, or  *)
(* raises AllProvidersRateLimited, on which the runner waits and calls     *)
(* again, or another exception, on which the run ends.                     *)
(*                                                                         *)
(* A run has a bridge of its own; what answered last is shared by all runs *)
(* of the process.                                                         *)
(***************************************************************************)
EXTENDS Integers, Sequences, FiniteSets

CONSTANTS
  Providers,    \* names of providers
  Models,       \* names of models
  NoModel,      \* no model
  Probed,       \* the providers that the probe knows
  Listing,      \* those whose probe tells which models there are
  Callable,     \* the providers that _dispatch knows
  Streamable,   \* those that _dispatch_streaming knows
  Confs,        \* configurations
  MaxCalls      \* bound on the calls of all runs

VARIABLES
  conf,         \* the configuration
  keys,         \* the providers whose key is in the environment
  diagnosed,    \* _provider_diagnostics_done
  available,    \* _provider_availability
  supported,    \* _supported_models_by_provider, {} where nothing is known
  sticky,       \* _sticky_model_by_provider
  shared,       \* the class's copies of the last two
  pc,           \* "idle", "probe", "walk" along the providers, "ask" models
  pass,         \* "stream" or "plain"
  at,           \* where the call is in the order of the providers
  todo,         \* the models of this provider that are still to be asked
  offered,      \* all models in the order of this provider
  limited,      \* rate_limited_models: those that answered 429
  failed,       \* those that did not answer, model_errors
  attempted,    \* attempted_providers
  cooldowns,    \* the keys of provider_cooldowns
  outcome,      \* how the last call ended
  answers,      \* what came instead of a text in this pass: provider, model, kind
  offers,       \* what each provider attempted in the pass has to offer
  shown,        \* the models of which token_callback was given a text in the pass
  calls,        \* calls made
  lastAnswer    \* the model of a provider that answered last, in whatever run

walkVars == <<at, todo, offered, limited, failed, attempted, cooldowns, answers, offers,
             shown>>
knownVars == <<diagnosed, available, supported, sticky, shared>>
vars == <<conf, keys, knownVars, pc, pass, walkVars, outcome, calls, lastAnswer>>

\* What may come instead of a text: HTTP 429, or anything else, a blank text included.
Kinds == {"limited", "error"}

\* The names from which the order of the providers is made: the active one, the
\* configured fallback order, and whatever else is configured.
ProviderOrder(active, fallback, listed) ==
  LET first == <<active>> \o SelectSeq(fallback, LAMBDA p : p # active)
      Seen(p) == \E i \in DOMAIN first : first[i] = p
  IN  first \o SelectSeq(listed, LAMBDA p : ~Seen(p))

Elements(s) == {s[i] : i \in DOMAIN s}

\* order: the order of the providers; configured: those with a section of their
\* own; models: their available_models; primary: their model; stickyFirst: the
\* policy's sticky_model_first_on_subsequent_runs.
Conf == [order : Seq(Providers), configured : SUBSET Providers,
         models : [Providers -> SUBSET Models],
         primary : [Providers -> Models \cup {NoModel}], stickyFirst : BOOLEAN]

ASSUME ConfsAssumption ==
  \A c \in Confs :
    /\ c \in Conf /\ c.configured \subseteq Elements(c.order)
    /\ \A i, j \in DOMAIN c.order : c.order[i] = c.order[j] => i = j
ASSUME ModelsAssumption == NoModel \notin Models /\ IsFiniteSet(Models)
ASSUME ProbedAssumption == Probed \subseteq Providers /\ Listing \subseteq Probed
ASSUME DispatchAssumption == Streamable \subseteq Callable /\ Callable \subseteq Providers
ASSUME BoundsAssumption == MaxCalls \in Nat

Order == conf.order

NothingKnown == [supported |-> [p \in Providers |-> {}], sticky |-> [p \in Providers |-> NoModel]]

Init ==
  /\ conf \in Confs /\ keys \in SUBSET Providers
  /\ diagnosed = FALSE /\ available = [p \in Providers |-> TRUE]
  /\ shared = NothingKnown /\ supported = shared.supported /\ sticky = shared.sticky
  /\ pc = "idle" /\ pass = "plain" /\ at = 1
  /\ todo = <<>> /\ offered = {} /\ limited = {} /\ failed = {}
  /\ attempted = {} /\ cooldowns = {} /\ answers = {} /\ shown = {}
  /\ offers = [p \in Providers |-> {}]
  /\ outcome = "none" /\ calls = 0
  /\ lastAnswer = [p \in Providers |-> NoModel]

-----------------------------------------------------------------------------
(* Which models a provider is asked for, and in which order.               *)

\* _filter_supported_models
Filtered(p) ==
  LET known == conf.models[p] \cap supported[p]
  IN  IF known = {} THEN conf.models[p] ELSE known

\* MUTANT: a provider without a model of the user's choice is asked for none.
OfferedUnchecked(p) ==
  IF supported[p] = {} \/ conf.primary[p] \in supported[p]
    THEN Filtered(p) \cup {conf.primary[p]} ELSE Filtered(p)

Offered(p) ==
  LET primary == conf.primary[p]
      add == primary # NoModel /\ (supported[p] = {} \/ primary \in supported[p])
  IN  IF add \/ (Filtered(p) = {} /\ primary # NoModel)
        THEN Filtered(p) \cup {primary} ELSE Filtered(p)

\* The sticky model comes first, then the user's; or the user's comes first.
Lead(p) ==
  LET sticks == conf.stickyFirst /\ sticky[p] \in Offered(p)
      chosen == conf.primary[p]
  IN  (IF sticks THEN <<sticky[p]>> ELSE <<>>)
        \o IF chosen \in Offered(p) /\ ~(sticks /\ sticky[p] = chosen) THEN <<chosen>> ELSE <<>>

\* _get_model_fallback_order: every model once; the order of the rest is a matter of
\* scores.
ModelOrders(p) ==
  {s \in [1..Cardinality(Offered(p)) -> Offered(p)] :
     /\ Elements(s) = Offered(p)
     /\ \A i, j \in DOMAIN s : s[i] = s[j] => i = j
     /\ \A i \in DOMAIN Lead(p) : s[i] = Lead(p)[i]}

-----------------------------------------------------------------------------

\* The variables of a pass, and those of the models of one provider.
FreshPass ==
  /\ attempted' = {} /\ cooldowns' = {} /\ answers' = {} /\ shown' = {}
  /\ offers' = [p \in Providers |-> {}]

NoProvider == todo' = <<>> /\ offered' = {} /\ limited' = {} /\ failed' = {}

\* MUTANT: a streaming call that found no answer streams again.
StartPassAsBefore(kind) ==
  pc' = "walk" /\ pass' = pass /\ at' = 1 /\ FreshPass /\ NoProvider

StartPass(kind) == pc' = "walk" /\ pass' = kind /\ at' = 1 /\ FreshPass /\ NoProvider

\* call_provider_streaming or call_provider; the first call of a run probes first.
Call(kind) ==
  /\ pc = "idle" /\ calls < MaxCalls
  /\ calls' = calls + 1
  /\ outcome' = "none"
  /\ pc' = IF diagnosed THEN "walk" ELSE "probe"
  /\ pass' = kind /\ at' = 1 /\ FreshPass /\ NoProvider
  /\ UNCHANGED <<conf, keys, knownVars, lastAnswer>>

\* _test_provider_health: only a provider that the probe knows can pass.
HealthOf(p) == IF p \in conf.configured \cap keys \cap Probed THEN BOOLEAN ELSE {FALSE}

\* One round of _diagnose_providers; what the models endpoint lists is remembered.
Probe ==
  /\ pc = "probe" /\ at \leq Len(Order)
  /\ LET p == Order[at] IN
       \E ok \in HealthOf(p), names \in SUBSET Models :
         /\ available' = [available EXCEPT ![p] = ok]
         /\ IF ok /\ p \in Listing /\ names # {}
              THEN /\ supported' = [supported EXCEPT ![p] = names]
                   /\ shared' = [shared EXCEPT !.supported[p] = names]
              ELSE names = {} /\ UNCHANGED <<supported, shared>>
  /\ at' = at + 1
  /\ UNCHANGED <<conf, keys, diagnosed, sticky, pc, pass, todo, offered, limited, failed,
                 attempted, cooldowns, answers, offers, shown, outcome, calls, lastAnswer>>

ProbesDone ==
  /\ pc = "probe" /\ at > Len(Order)
  /\ diagnosed' = TRUE
  /\ StartPass(pass)
  /\ UNCHANGED <<conf, keys, available, supported, sticky, shared, outcome, calls, lastAnswer>>

Usable(p) == p \in conf.configured /\ available[p] /\ p \in keys

\* A provider without a key is unavailable from now on.
SkipProvider ==
  /\ pc = "walk" /\ at \leq Len(Order) /\ ~Usable(Order[at])
  /\ LET p == Order[at] IN
       available' = IF p \in conf.configured THEN [available EXCEPT ![p] = FALSE] ELSE available
  /\ at' = at + 1
  /\ UNCHANGED <<conf, keys, diagnosed, supported, sticky, shared, pc, pass, todo, offered, limited,
                 failed, attempted, cooldowns, answers, offers, shown, outcome, calls, lastAnswer>>

TryProvider ==
  /\ pc = "walk" /\ at \leq Len(Order) /\ Usable(Order[at])
  /\ LET p == Order[at] IN
       /\ attempted' = attempted \cup {p}
       /\ todo' \in ModelOrders(p)
       /\ offered' = Offered(p)
       /\ offers' = [offers EXCEPT ![p] = Offered(p)]
  /\ limited' = {} /\ failed' = {}
  /\ pc' = "ask"
  /\ UNCHANGED <<conf, keys, knownVars, pass, at, cooldowns, answers, shown, outcome, calls,
                 lastAnswer>>

\* MUTANT: only the bridge itself remembers.
RememberHere(p, m) == sticky' = [sticky EXCEPT ![p] = m] /\ UNCHANGED shared

\* _set_sticky_success
Remember(p, m) ==
  /\ sticky' = [sticky EXCEPT ![p] = m]
  /\ shared' = [shared EXCEPT !.sticky[p] = m]

\* The model that is asked.
Asked == <<Order[at], Head(todo)>>

\* The providers that this kind of call knows how to ask; of another one every model
\* fails.
Dispatched == IF pass = "stream" THEN Streamable ELSE Callable

\* A piece of the next model's text arrives and is handed on at once.
Token ==
  /\ pc = "ask" /\ todo # <<>>
  /\ pass = "stream" /\ Order[at] \in Dispatched
  /\ Asked \notin shown
  /\ shown' = shown \cup {Asked}
  /\ UNCHANGED <<conf, keys, knownVars, pc, pass, at, todo, offered, limited, failed, attempted,
                 cooldowns, answers, offers, outcome, calls, lastAnswer>>

\* The next model answers: its text ends, and is not blank ...
Answer ==
  /\ pc = "ask" /\ todo # <<>>
  /\ Order[at] \in Dispatched
  /\ pass = "stream" => Asked \in shown
  /\ Remember(Order[at], Head(todo))
  /\ lastAnswer' = [lastAnswer EXCEPT ![Order[at]] = Head(todo)]
  /\ outcome' = "answer"
  /\ pc' = "idle" /\ at' = 1 /\ FreshPass /\ NoProvider
  /\ UNCHANGED <<conf, keys, diagnosed, available, supported, pass, calls>>

\* MUTANT: an error ends the loop over the models.
RefuseGivingUp(kind) ==
  /\ pc = "ask" /\ todo # <<>>
  /\ kind = "limited" => Order[at] \in Dispatched /\ Asked \notin shown
  /\ todo' = IF kind = "error" THEN <<>> ELSE Tail(todo)
  /\ failed' = failed \cup {Head(todo)}
  /\ limited' = IF kind = "limited" THEN limited \cup {Head(todo)} ELSE limited
  /\ answers' = answers \cup {<<Order[at], Head(todo), kind>>}
  /\ UNCHANGED <<conf, keys, knownVars, pc, pass, at, offered, attempted, cooldowns, offers,
                 shown, outcome, calls, lastAnswer>>

\* ... or it does not: 429 comes in place of a text, while an error may also break off a
\* text that has begun.
Refuse(kind) ==
  /\ pc = "ask" /\ todo # <<>>
  /\ kind = "limited" => Order[at] \in Dispatched /\ Asked \notin shown
  /\ todo' = Tail(todo)
  /\ failed' = failed \cup {Head(todo)}
  /\ limited' = IF kind = "limited" THEN limited \cup {Head(todo)} ELSE limited
  /\ answers' = answers \cup {<<Order[at], Head(todo), kind>>}
  /\ UNCHANGED <<conf, keys, knownVars, pc, pass, at, offered, attempted, cooldowns, offers,
                 shown, outcome, calls, lastAnswer>>

\* MUTANT: one 429 is enough.
AnyLimited == limited # {}

\* Streaming compares the number of 429s with the models in the order, the other
\* pass with the errors.
AllLimited ==
  limited # {} /\ limited = IF pass = "stream" THEN offered ELSE failed

GiveUpProvider ==
  /\ pc = "ask" /\ todo = <<>>
  /\ cooldowns' = IF AllLimited THEN cooldowns \cup {Order[at]} ELSE cooldowns
  /\ pc' = "walk" /\ at' = at + 1
  /\ NoProvider
  /\ UNCHANGED <<conf, keys, knownVars, pass, attempted, answers, offers, shown, outcome, calls,
                 lastAnswer>>

AllOnCooldown == cooldowns # {} /\ cooldowns = attempted

\* No provider is left: the call ends, or a streaming one starts again without.
EndPass ==
  /\ pc = "walk" /\ at > Len(Order)
  /\ IF AllOnCooldown \/ pass = "plain"
       THEN /\ outcome' = IF AllOnCooldown THEN "all_limited" ELSE "failed"
            /\ pc' = "idle"
            /\ UNCHANGED <<pass, walkVars>>
       ELSE StartPass("plain") /\ UNCHANGED outcome
  /\ UNCHANGED <<conf, keys, knownVars, calls, lastAnswer>>

-----------------------------------------------------------------------------
(* The rest of the process.                                                *)

\* The user enters a key (api/setup.py).
AddKey(p) ==
  /\ p \notin keys
  /\ keys' = keys \cup {p}
  /\ UNCHANGED <<conf, knownVars, pc, pass, walkVars, outcome, calls, lastAnswer>>

\* The next run, with a bridge of its own.
NewRun ==
  /\ pc = "idle" /\ calls \in 1..(MaxCalls - 1)
  /\ diagnosed' = FALSE /\ available' = [p \in Providers |-> TRUE]
  /\ supported' = shared.supported /\ sticky' = shared.sticky
  /\ outcome' = "none"
  /\ UNCHANGED <<conf, keys, shared, pc, pass, walkVars, calls, lastAnswer>>

-----------------------------------------------------------------------------

Step ==
  \/ Probe \/ ProbesDone \/ SkipProvider \/ TryProvider
  \/ Token \/ Answer \/ \E kind \in Kinds : Refuse(kind)
  \/ GiveUpProvider \/ EndPass

Next ==
  \/ Step
  \/ \E kind \in {"stream", "plain"} : Call(kind)
  \/ \E p \in Providers : AddKey(p)
  \/ NewRun

Spec == Init /\ [][Next]_vars

\* A call goes on: HTTP requests have timeouts.
FairSpec == Spec /\ WF_vars(Step)

-----------------------------------------------------------------------------

TypeOK ==
  /\ conf \in Confs /\ keys \subseteq Providers
  /\ diagnosed \in BOOLEAN /\ available \in [Providers -> BOOLEAN]
  /\ supported \in [Providers -> SUBSET Models]
  /\ sticky \in [Providers -> Models \cup {NoModel}]
  /\ shared \in [supported : [Providers -> SUBSET Models],
                 sticky : [Providers -> Models \cup {NoModel}]]
  /\ pc \in {"idle", "probe", "walk", "ask"} /\ pass \in {"stream", "plain"}
  /\ at \in 1..(Len(Order) + 1)
  /\ pc = "ask" => at \in DOMAIN Order
  /\ todo \in Seq(Models) /\ offered \subseteq Models
  /\ limited \subseteq failed /\ failed \subseteq Models
  /\ cooldowns \subseteq attempted /\ attempted \subseteq Providers
  /\ answers \subseteq Providers \X Models \X Kinds /\ offers \in [Providers -> SUBSET Models]
  /\ shown \subseteq Providers \X Models
  /\ outcome \in {"none", "answer", "all_limited", "failed"}
  /\ calls \in 0..MaxCalls
  /\ lastAnswer \in [Providers -> Models \cup {NoModel}]

\* A call tells the runner to wait exactly if every provider attempted in its last
\* pass has models, and every one of them answered 429.  Then nobody has been shown a
\* piece of text in that pass, which the call after the wait would show once more.
LimitedMeansLimited ==
  outcome \in {"all_limited", "failed"} =>
    /\ (outcome = "all_limited" <=>
       /\ attempted # {}
       /\ \A p \in attempted :
            /\ offers[p] # {}
            /\ \A a \in answers : a[1] = p => a[3] = "limited")
    /\ outcome = "all_limited" => shown = {}

\* A call does not give up before it has asked every model on offer of every
\* provider that is configured and that nothing spoke against when its turn came.
NobodyPassedOver ==
  outcome \in {"all_limited", "failed"} =>
    \A p \in conf.configured : available[p] =>
      /\ p \in attempted
      /\ {a[2] : a \in {b \in answers : b[1] = p}} = offers[p]

\* A provider's model that answered last, in this run or in one before it, is asked
\* before every other of its models but the user's, unless it is offered no more.
\* Which of these two comes first is left open: the docstring of
\* _get_model_fallback_order has the user's model first, the comment at its end the
\* last one, and the code does as the comment.
LastAnswersFirst ==
  [][TryProvider /\ conf.stickyFirst =>
       LET last == lastAnswer[Order[at]] IN
         last \in offered' =>
           \E i \in DOMAIN todo' :
             /\ todo'[i] = last
             /\ \A j \in 1..(i - 1) : todo'[j] = conf.primary[Order[at]]]_vars

\* Every call ends.
CallEnds == pc # "idle" ~> pc = "idle"
=============================================================================
