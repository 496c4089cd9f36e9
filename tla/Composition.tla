---------------------------- MODULE Composition ----------------------------
(***************************************************************************)
(* Where plans come from: the recipes of the settings (internal/recipes,   *)
(* internal/relayv2/runtime.go), the compiler of plans (internal/plan),    *)
(* the check of a plan (plan/plan.go), the preflight of "recipes compile"  *)
(* and the backends that readiness asks for (internal/readiness).          *)
(*                                                                         *)
(* tree is a session with the sessions under it, each with its plan: the   *)
(* launch puts the root there, a child step of a plan or a request of a    *)
(* facilitator adds a child.  The order in which the engine does this, and *)
(* how each session runs, are Engine's; here a session may take its next   *)
(* child at any time.                                                      *)
(*                                                                         *)
(* Texts, inputs, timeouts and instructions of a plan are left out, and so *)
(* are spellings that normalisation mends: config is what                  *)
(* NormalizeRelayRecipes returns.  A plan of a recipe is a dialogue; a     *)
(* sequence comes only from a supplied plan.                               *)
(***************************************************************************)
EXTENDS Integers, Sequences, FiniteSets, SequencesExt

CONSTANTS
  Names,        \* the ids of recipes, in their order
  Profiles,     \* backend profiles; a backend is a profile of its own
  Settings,     \* the recipes an installation may have
  SuppliedPlans,\* plans that "run --plan" may bring
  MaxSessions   \* bound of the tree

ASSUME NamesAssumption == Names \in Seq(STRING)
ASSUME IdsAssumption   == "" \notin Range(Names)   \* mergeNamedRecords drops it
ASSUME BoundAssumption == MaxSessions \in Nat
ASSUME ProfilesAssumption ==
  \A ref \in DOMAIN Profiles :
    Profiles[ref] \in [backend : STRING, model : STRING, effort : Nat]

Providers == {"claude", "codex", "gemini"}
Ids       == Range(Names)

Recipe == [participants : STRING \X STRING, facilitator : STRING, reducer : STRING,
           source : {"last_turn", "reducer"}, depth : Nat \ {0},
           turns : Nat \ {0}, rounds : Nat \ {0},    \* participant_turns and max_rounds
           approval : {"never", "ask", "auto-safe"}, retry : {"allow", "forbid"},
           resume : BOOLEAN, dynamic : BOOLEAN]    \* lifecycle: allow or forbid

ASSUME SettingsAssumption ==
  \A s \in Settings : DOMAIN s \subseteq Ids /\ \A id \in DOMAIN s : s[id] \in Recipe

Actor  == [backend : STRING, recipe : STRING, turns : Nat]
Policy == [mode : {"deny", "ask", "allow"}, depth : Int, children : Int, turns : Int,
           allowed : Seq(STRING)]

VARIABLES
  config,   \* the recipes of this installation
  tree,     \* the sessions, the root first
  refused   \* the launches, steps and requests for which no plan was compiled

vars == <<config, tree, refused>>

-----------------------------------------------------------------------------
(* Plans.                                                                  *)

Minimum(a, b) == IF a < b THEN a ELSE b

Controls(p)     == {slot \in DOMAIN p.actors : slot \in {p.facilitator, p.reducer}}
Participants(p) == DOMAIN p.actors \ Controls(p)

ValidActor(a) == \/ a.backend \in Providers /\ a.recipe = "" /\ a.turns = 0
                 \/ a.backend = "child" /\ a.recipe # ""

\* What plan.Validate asks of a plan.
Valid(p) ==
  /\ p.provenance \in {"ordinary", "recipe", "child", "supplied"}
  /\ p.provenance \in {"recipe", "child"} => p.recipe # ""
  /\ \A slot \in DOMAIN p.actors : ValidActor(p.actors[slot])
  /\ {p.facilitator, p.reducer} \subseteq DOMAIN p.actors \cup {""}
  /\ \A slot \in Controls(p) : p.actors[slot].backend # "child"
  /\ p.turns \in Nat \ {0}
  /\ CASE p.kind = "dialogue" -> p.order = <<>> /\ Cardinality(Participants(p)) = 2
       [] p.kind = "sequence" -> /\ p.facilitator = "" /\ Len(p.order) = p.turns
                                 /\ Range(p.order) = Participants(p)
  /\ p.attempts >= 1 /\ (p.retry = "forbid" => p.attempts = 1)
  /\ p.policy \in Policy
  /\ \A n \in {p.policy.depth, p.policy.children, p.policy.turns} : n >= 0
  /\ p.source = "reducer" => p.reducer # ""
  /\ ~p.dynamic => p.policy.mode = "deny"
  /\ ~p.resume => p.policy.mode # "ask"

childPolicyMode(approval) ==
  CASE approval = "never" -> "deny" [] approval = "ask" -> "ask"
    [] approval = "auto-safe" -> "allow"

\* What normalizeChildPolicy puts where nothing is configured, with a mode.
defaultPolicy(mode) == [mode |-> mode, depth |-> 1, children |-> 2, turns |-> 8, allowed |-> <<>>]

-----------------------------------------------------------------------------
(* Recipes.                                                                *)

IsStep(ref)  == ref \in DOMAIN Profiles /\ Profiles[ref].backend = "child"
Steps(id)    == {Profiles[ref].model : ref \in {r \in Range(config[id].participants) : IsStep(r)}}

ActorResolves(ref) ==
  /\ ref \in DOMAIN Profiles
  /\ IF IsStep(ref) THEN Profiles[ref].model \in DOMAIN config
     ELSE Profiles[ref].backend \in Providers

actorFromProfile(ref) ==
  LET profile == Profiles[ref]
  IN IF ~IsStep(ref) THEN [backend |-> profile.backend, recipe |-> "", turns |-> 0]
     ELSE [backend |-> "child", recipe |-> profile.model,
           turns |-> IF profile.effort > 0 THEN profile.effort ELSE config[profile.model].rounds]

\* The slots of a recipe and the profiles that fill them.
Slots(id) ==
  LET r == config[id]
      roles == [slot_0 |-> r.participants[1], slot_1 |-> r.participants[2],
                facilitator |-> r.facilitator, reducer |-> r.reducer]
  IN Restrict(roles, {slot \in DOMAIN roles : slot = "reducer" => r.source = "reducer"})

\* RecipeFromRuntime finds and types it; RecipesFromRuntime skips the others.
Resolves(id) == /\ id \in DOMAIN config
                /\ \A slot \in DOMAIN Slots(id) : ActorResolves(Slots(id)[slot])
Catalog      == {id \in DOMAIN config : Resolves(id)}

recipeChildPolicy(r) ==
  [defaultPolicy(IF r.dynamic THEN childPolicyMode(r.approval) ELSE "deny")
     EXCEPT !.depth = r.depth]

planFromRecipe(id, provenance) ==
  LET r == config[id]
  IN [provenance |-> provenance, recipe |-> id,
      actors |-> [slot \in DOMAIN Slots(id) |-> actorFromProfile(Slots(id)[slot])],
      kind |-> "dialogue", turns |-> r.turns, order |-> <<>>, converge |-> FALSE,
      facilitator |-> "facilitator", reducer |-> IF r.source = "reducer" THEN "reducer" ELSE "",
      source |-> r.source, retry |-> r.retry, attempts |-> IF r.retry = "forbid" THEN 1 ELSE 7,
      policy |-> recipeChildPolicy(r), resume |-> r.resume, dynamic |-> r.dynamic]

\* What a plan of the ordinary run flags is; rounds = 0 is the default.
FromFlags(agents, dynamic, rounds, maxRounds) ==
  [provenance |-> "ordinary", recipe |-> "",
   actors |-> [slot_0 |-> [backend |-> agents[1], recipe |-> "", turns |-> 0],
               slot_1 |-> [backend |-> Last(agents), recipe |-> "", turns |-> 0],
               facilitator |-> [backend |-> IF Len(agents) = 1 THEN agents[1] ELSE "codex",
                                recipe |-> "", turns |-> 0]],
   kind |-> "dialogue",
   turns |-> CASE rounds > 0 -> rounds [] rounds = 0 /\ maxRounds = 0 -> 50 [] OTHER -> maxRounds,
   order |-> <<>>, converge |-> rounds = 0, facilitator |-> "facilitator", reducer |-> "",
   source |-> "last_turn", retry |-> "allow", attempts |-> 7,
   policy |-> defaultPolicy(CASE dynamic = "off" -> "deny" [] dynamic = "ask" -> "ask"
                              [] dynamic = "auto-safe" -> "allow"),
   resume |-> TRUE, dynamic |-> TRUE]

-----------------------------------------------------------------------------
(* The tree.                                                               *)

Children(i) == {j \in DOMAIN tree : tree[j].parent = i}

\* i and the sessions above it: what is in every set that has i and the parents
\* of its members.
Line(i) ==
  {a \in DOMAIN tree :
     \A S \in SUBSET DOMAIN tree :
       i \in S /\ (\A b \in S : tree[b].parent \in S \cup {0}) => a \in S}

Spent(i) == FoldSet(LAMBDA j, sum : tree[j].plan.turns + sum, 0, Children(i))

\* A child's plan: the recipe's, with what its parent leaves it.
childPlan(id, turns, policy) ==
  [planFromRecipe(id, "child") EXCEPT !.turns = Minimum(@, turns), !.policy = policy]

\* Mutant of the remaining policies: a child may nest as deep as its parent.
remainingStaticChildPolicyLevel(own, parent) == [own EXCEPT !.depth = Minimum(@, parent.depth)]

remainingStaticChildPolicy(own, parent) == [own EXCEPT !.depth = Minimum(@, parent.depth - 1)]

remainingChildPolicy(own, parent) ==
  [own EXCEPT !.depth    = Minimum(@, parent.depth - 1),
              !.children = Minimum(@, parent.children - 1),
              !.turns    = Minimum(@, parent.turns - 1)]

ForStaticChild(parent, id, turns) ==
  childPlan(id, IF turns > 0 THEN turns ELSE config[id].turns,
            remainingStaticChildPolicy(recipeChildPolicy(config[id]), parent.policy))

\* Mutant of ForChild: the turns of a child are the recipe's.
ForChildAtLength(parent, id) ==
  childPlan(id, parent.turns, remainingChildPolicy(recipeChildPolicy(config[id]), parent.policy))

ForChild(parent, id) ==
  childPlan(id, Minimum(parent.turns, parent.policy.turns),
            remainingChildPolicy(recipeChildPolicy(config[id]), parent.policy))

childRequestAllowed(policy, id) ==
  /\ policy.mode # "deny" /\ policy.depth > 0 /\ policy.children > 0 /\ policy.turns > 0
  /\ policy.allowed # <<>> => id \in Range(policy.allowed)

\* Whether the compiler returns a plan for a recipe, a step and a request.
LaunchCompiles(id)   == Resolves(id) /\ Valid(planFromRecipe(id, "recipe"))
StepCompiles(p, id, turns) ==
  p.policy.depth > 0 /\ id \in Catalog /\ Valid(ForStaticChild(p, id, turns))
RequestCompiles(p, id) ==
  id \in Catalog /\ childRequestAllowed(p.policy, id) /\ Valid(ForChild(p, id))

FirstOf(ids) == Names[CHOOSE n \in DOMAIN Names :
                        Names[n] \in ids /\ \A m \in 1..(n - 1) : Names[m] \notin ids]

\* The recipe that the extractor requests: the first that the policy allows and
\* the catalog has, or review-panel, or the first of the catalog.
childRecipeForItem(policy) ==
  LET listed == {n \in DOMAIN policy.allowed : policy.allowed[n] \in Catalog}
  IN IF listed # {} THEN policy.allowed[CHOOSE n \in listed : \A m \in listed : n <= m]
     ELSE IF "review-panel" \in Catalog THEN "review-panel" ELSE FirstOf(Catalog)

\* admitChild of the engine: the limits on all the children of a session.
Admissible(i, id) ==
  LET p == tree[i].plan
  IN /\ Cardinality(Children(i)) < p.policy.children
     /\ RequestCompiles(p, id)
     /\ Spent(i) + ForChild(p, id).turns <= p.policy.turns

-----------------------------------------------------------------------------
(* The preflight.                                                          *)

\* The ways of n steps down from a recipe, each as the recipes it passes.
Ways(root) ==
  LET down[n \in 0..Len(Names)] ==
        IF n = 0 THEN {<<root>>}
        ELSE UNION {{Append(way, id) : id \in Steps(Last(way)) \cap DOMAIN config}
                      : way \in down[n - 1]}
  IN down

Compositions(root) == UNION Range(Ways(root))

\* validateRecipeComposition at the end of a way: its references, and the depth
\* that the recipe itself declares.
Executable(way) ==
  LET r == config[Last(way)]
  IN /\ IsInjective(way)
     /\ \A ref \in Range(r.participants) : ActorResolves(ref)
     /\ \A ref \in {r.facilitator} \cup (IF r.source = "reducer" THEN {r.reducer} ELSE {}) :
          ActorResolves(ref) /\ ~IsStep(ref)
     /\ Len(way) - 1 <= r.depth \/ Len(way) = 1

rootExecutableIssues(root) == {way \in Compositions(root) : ~Executable(way)}

\* Mutant of Preflight: only against the depth that each one declares.
PreflightOwnDepth(root) == rootExecutableIssues(root) = {}

\* CompileRecipe with ValidateExecutable: then the nested recipes once more,
\* against the depth that the root declares, with their reducers.
Preflight(root) ==
  /\ rootExecutableIssues(root) = {}
  /\ \A way \in Compositions(root) :
       Len(way) > 1 => /\ config[Last(way)].reducer \in DOMAIN Profiles
                       /\ Len(way) > 2 => Len(way) - 1 <= config[root].depth

\* Mutant of ResolveBackendClosure: without the reducers of nested recipes.
ResolveBackendClosureShallow(root) ==
  LET BackendOf(ref) == Profiles[ref].backend
  IN UNION {{BackendOf(ref) : ref \in {config[Last(way)].facilitator}
                \cup {r \in Range(config[Last(way)].participants) : ~IsStep(r)}}
              : way \in Compositions(root)}
     \cup (IF config[root].source = "reducer" THEN {BackendOf(config[root].reducer)} ELSE {})

\* The backends that readiness asks for before a recipe is called usable.
ResolveBackendClosure(root) ==
  LET BackendOf(ref) == Profiles[ref].backend
      Refs(r)        == {ref \in Range(r.participants) : ~IsStep(ref)} \cup {r.facilitator}
  IN UNION {{BackendOf(ref) : ref \in Refs(config[Last(way)])
                \cup (IF Len(way) > 1 \/ config[root].source = "reducer"
                      THEN {config[Last(way)].reducer} ELSE {})}
              : way \in Compositions(root)}

-----------------------------------------------------------------------------
(* What happens.                                                           *)

\* What makes a session: a launch by flags, recipe or plan, or its parent.
Origins == {"flags", "recipe", "plan", "step", "request"}

Session(p, parent, by) ==
  [plan |-> p, parent |-> parent, by |-> by,
   level |-> IF parent = 0 THEN 0 ELSE tree[parent].level + 1]
Refusal(parent, by, id) == [parent |-> parent, by |-> by, recipe |-> id]

Grows(session) == /\ Len(tree) < MaxSessions /\ tree' = Append(tree, session)
                  /\ UNCHANGED <<config, refused>>
Refuses(parent, by, id) == /\ refused' = refused \cup {Refusal(parent, by, id)}
                           /\ UNCHANGED <<config, tree>>

Init == /\ config \in Settings /\ tree = <<>> /\ refused = {}

v2RunOrdinary(agents, dynamic, rounds, maxRounds) ==
  LET p == FromFlags(agents, dynamic, rounds, maxRounds)
  IN tree = <<>> /\ Valid(p) /\ Grows(Session(p, 0, "flags"))

v2RunRecipe(id) ==
  /\ tree = <<>>
  /\ IF LaunchCompiles(id) THEN Grows(Session(planFromRecipe(id, "recipe"), 0, "recipe"))
     ELSE Refuses(0, "recipe", id)

\* Mutant of v2RunSuppliedPlan: it trusts the plan.
v2RunSuppliedPlanUnchecked(p) == tree = <<>> /\ Grows(Session(p, 0, "plan"))

v2RunSuppliedPlan(p) == tree = <<>> /\ Valid(p) /\ Grows(Session(p, 0, "plan"))

\* admitStaticChild, for a participant of session i that is a child step.
TakeStep(i, slot) ==
  LET actor == tree[i].plan.actors[slot]
  IN /\ slot \in Participants(tree[i].plan) /\ actor.backend = "child"
     /\ IF StepCompiles(tree[i].plan, actor.recipe, actor.turns)
        THEN Grows(Session(ForStaticChild(tree[i].plan, actor.recipe, actor.turns), i, "step"))
        ELSE Refuses(i, "step", actor.recipe)

\* A contested item: decideChild rejects it, or admitChild has it, by policy or
\* by an operator (who may also reject it: Engine).
Admit(i) ==
  LET id == childRecipeForItem(tree[i].plan.policy)
  IN /\ Catalog # {} /\ tree[i].plan.facilitator # ""
     /\ IF Admissible(i, id) THEN Grows(Session(ForChild(tree[i].plan, id), i, "request"))
        ELSE Refuses(i, "request", id)

Next ==
  \/ \E agents \in {<<b>> : b \in Providers} \cup {<<"codex", b>> : b \in Providers},
        dynamic \in {"off", "ask", "auto-safe"}, rounds \in {0, 3}, maxRounds \in {0, 4} :
       v2RunOrdinary(agents, dynamic, rounds, maxRounds)
  \/ \E id \in Ids : v2RunRecipe(id)
  \/ \E p \in SuppliedPlans : v2RunSuppliedPlan(p)
  \/ \E i \in DOMAIN tree : \E slot \in DOMAIN tree[i].plan.actors : TakeStep(i, slot)
  \/ \E i \in DOMAIN tree : Admit(i)

Spec == Init /\ [][Next]_vars

-----------------------------------------------------------------------------
(* Properties.                                                             *)

\* Every plan in the tree is one that Validate takes, whichever way it came,
\* and a session comes after its parent.
CompositionTypeOK ==
  /\ config \in Settings /\ Len(tree) <= MaxSessions
  /\ \A i \in DOMAIN tree :
       /\ tree[i].parent \in 0..(i - 1) /\ (tree[i].parent = 0 <=> i = 1)
       /\ tree[i].by \in Origins /\ Valid(tree[i].plan)
  /\ \A x \in refused : x.parent \in 0..Len(tree) /\ x.by \in Origins

\* However children nest, by steps and by requests and in recipes that name each
\* other in a circle, the depth below a session and the levels above it stay
\* within the max_depth of the root: the tree is never deeper (child.go).
DepthSpent ==
  \A i \in DOMAIN tree :
    /\ tree[i].plan.policy.depth >= 0
    /\ tree[i].level + tree[i].plan.policy.depth <= tree[1].plan.policy.depth

\* Sessions that only child steps lead to, from a root that is a recipe.  (The
\* provenance of the root is no proof of this: a supplied plan writes its own.)
Declared(i) == \A a \in Line(i) : tree[a].by \in {"recipe", "step"}

\* lifecycle.resume forbid with auto_approval ask: only Validate refuses it.
AsksWithoutResume(id) ==
  config[id].dynamic /\ config[id].approval = "ask" /\ ~config[id].resume

\* What "recipes compile" passes can be launched, and each of its child steps
\* can be compiled when the engine comes to it.  Two things the preflight does
\* not see: a recipe that asks and does not resume, and a nested recipe that
\* declares less depth than there is below it.
PreflightSound ==
  \A x \in refused :
    /\ x.by = "recipe" /\ x.recipe \in DOMAIN config /\ Preflight(x.recipe)
         => AsksWithoutResume(x.recipe)
    /\ x.by = "step" /\ Declared(x.parent) /\ Preflight(tree[1].plan.recipe)
         => \/ AsksWithoutResume(x.recipe)
            \/ \E a \in Line(x.parent) \ {1} :
                 config[tree[a].plan.recipe].depth <= tree[x.parent].level - tree[a].level

\* Every backend that a session of a recipe may call, at any level of its child
\* steps, is one whose installation was asked for before the recipe was called
\* usable (readiness/closure.go, recipes/report.go).
BackendsProbed ==
  \A i \in DOMAIN tree :
    Declared(i) /\ rootExecutableIssues(tree[1].plan.recipe) = {}
      => \A slot \in DOMAIN tree[i].plan.actors :
           tree[i].plan.actors[slot].backend
             \in ResolveBackendClosure(tree[1].plan.recipe) \cup {"child"}

\* A session with no child yet, whose policy admits children and has depth,
\* children and turns left, is not refused a recipe that can be launched: what
\* ForChild compiles fits the limits that admitChild checks after it.
FirstRequestServed ==
  \A i \in DOMAIN tree :
    LET p == tree[i].plan
        id == childRecipeForItem(p.policy)
    IN (/\ Children(i) = {} /\ p.policy.mode # "deny" /\ p.policy.allowed = <<>>
        /\ p.policy.depth > 0 /\ p.policy.children > 0 /\ p.policy.turns > 0
        /\ Catalog # {} /\ LaunchCompiles(id))
       => Admissible(i, id)
=============================================================================
