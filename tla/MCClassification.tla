--------------------------- MODULE MCClassification ---------------------------
(* Model values for model checking Classification.                         *)
EXTENDS Classification

CONSTANTS openai, ollama, w, c1, r1, r2, m1, m2

OneRow    == {r1}
TwoRows   == {r1, r2}
OneCaller == {c1}
TwoModels == {m1, m2}
Cloud     == {openai}
AtHome    == {ollama}
TwoProjects == {1, 2}

Config(p, model, fallback, auto) ==
  [provider |-> p, model |-> model, fast |-> Unset, quality |-> Unset, fallback |-> fallback,
   auto |-> auto]

\* The environment names a provider, a model, and another as fallback.
Environment == Config(openai, m1, m2, FALSE)

\* Stored are: a local provider; a fallback model that is the quality model.
Stored == {Config(ollama, Unset, Unset, FALSE),
           [Config(Unset, Unset, Unset, TRUE) EXCEPT !.quality = m2]}
==============================================================================
