--------------------------- MODULE MCComposition ---------------------------
(* Small settings for TLC: recipes a to d, each a step of the one before.  *)
EXTENDS Composition

RecipeIds == <<"a", "b", "c", "d">>

Provider(backend) == [backend |-> backend, model |-> "", effort |-> 0]
Step(id, turns)   == [backend |-> "child", model |-> id, effort |-> turns]

BackendProfiles ==
  [claude |-> Provider("claude"), codex |-> Provider("codex"), gemini |-> Provider("gemini"),
   broken |-> Provider("other"),
   step_a |-> Step("a", 0), step_b |-> Step("b", 1), step_c |-> Step("c", 9),
   step_d |-> Step("d", 0)]

Base == [participants |-> <<"codex", "claude">>, facilitator |-> "codex", reducer |-> "codex",
         source |-> "last_turn", turns |-> 2, rounds |-> 1, depth |-> 1, approval |-> "never",
         retry |-> "allow", resume |-> TRUE, dynamic |-> TRUE]

With(step, depth) == [Base EXCEPT !.participants = <<"codex", step>>, !.depth = depth]

\* A chain of four with varied depths, whose last recipe reduces with a backend
\* that nothing else uses.
Chains ==
  {[a |-> With("step_b", da), b |-> With("step_c", db), c |-> With("step_d", dc),
    d |-> [Base EXCEPT !.depth = 3, !.source = "reducer", !.reducer = "gemini"]]
     : da \in {2, 3}, db \in {1, 2}, dc \in {1, 2}}

\* Two recipes that name each other, and may ask for more; one that is no step.
Circles ==
  {[a |-> [With("step_b", 3) EXCEPT !.approval = "auto-safe"],
    b |-> [With("step_a", 3) EXCEPT !.approval = how, !.dynamic = open]]
     : how \in {"ask", "auto-safe"}, open \in BOOLEAN}

\* A long or short recipe to request, settings that do not all resolve, and one that
\* asks but does not resume.
Requests ==
  {[a |-> [Base EXCEPT !.turns = IF f = "broken" THEN 1 ELSE 20, !.approval = "auto-safe", !.depth = 2, !.retry = "forbid"],
    b |-> [Base EXCEPT !.facilitator = f, !.approval = "ask", !.resume = again]]
     : f \in {"codex", "broken", "step_a"}, again \in BOOLEAN}

Installations == Chains \cup Circles \cup Requests

Supplied(order, policy) ==
  [provenance |-> "supplied", recipe |-> "",
   actors |-> [one |-> [backend |-> "codex", recipe |-> "", turns |-> 0],
               two |-> [backend |-> "child", recipe |-> "a", turns |-> 1]],
   kind |-> "sequence", turns |-> 3, order |-> order, converge |-> FALSE, facilitator |-> "",
   reducer |-> "", source |-> "last_turn", retry |-> "allow", attempts |-> 2,
   policy |-> policy, resume |-> TRUE, dynamic |-> TRUE]

\* The second one leaves an actor out, which Validate refuses; the third says
\* that it comes from a recipe.
Sequences ==
  LET first == Supplied(<<"one", "two", "one">>, [defaultPolicy("allow") EXCEPT !.depth = 2])
  IN {first, Supplied(<<"one", "one", "one">>, defaultPolicy("deny")),
      [first EXCEPT !.provenance = "recipe", !.recipe = "a"]}
=============================================================================
