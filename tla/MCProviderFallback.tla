------------------------ MODULE MCProviderFallback -------------------------
(***************************************************************************)
(* Small configurations of ProviderFallback for TLC: a provider whose      *)
(* probe lists models, one whose probe does not, and one that the probe    *)
(* does not know, with models of the same names.                           *)
(***************************************************************************)
EXTENDS ProviderFallback, TLC

CONSTANTS Anthropic, Gemini, Nim, Model1, Model2, Model3

OwnModels ==
  (Anthropic :> {Model1, Model2}) @@ (Gemini :> {Model1, Model2}) @@ (Nim :> {Model1})

\* The user's model may be one that the provider does not list, or none.
ChosenModels ==
  {(Anthropic :> Model1) @@ (Gemini :> Model2) @@ (Nim :> Model1),
   (Anthropic :> NoModel) @@ (Gemini :> Model3) @@ (Nim :> NoModel)}

\* The fallback order may name the active provider again, or a provider that is not
\* configured, and need not name every one that is.
SmallConfs ==
  {[order |-> ProviderOrder(Gemini, <<Anthropic, Gemini>>, listed),
    configured |-> Elements(listed), models |-> OwnModels,
    primary |-> chosen, stickyFirst |-> sticks] :
      listed \in {<<Gemini, Nim>>, <<Anthropic, Gemini, Nim>>},
      chosen \in ChosenModels, sticks \in BOOLEAN}
=============================================================================
