--------------------------- MODULE Preflight_proofs ---------------------------
(* Proofs about Composition: what "recipes compile" and readiness saw of a *)
(* recipe is what the sessions of its tree meet, however the recipes of an *)
(* installation name each other.  The preflight speaks of ways, from recipe*)
(* to recipe by child steps; a session that only child steps lead to has a *)
(* way that ends in its recipe (OnAWay), and the rest follows from what    *)
(* Executable says of that way.                                            *)
EXTENDS Composition_proofs, WellFoundedInduction

-----------------------------------------------------------------------------
(* Ways.                                                                   *)

\* A set of numbers that has a member has a least one.
LEMMA LeastNumber ==
  ASSUME NEW S \in SUBSET Nat, S # {}
  PROVE  \E m \in S : \A i \in S : m <= i
<1> DEFINE Less == {ss \in Nat \X Nat : ss[1] < ss[2]}
<1>1. IsWellFoundedOn(Less, Nat)
  BY NatLessThanWellFounded, Zenon DEF OpToRel
<1>2. PICK m \in S : \A i \in S : ~(<<i, m>> \in Less)
  <2> HIDE DEF Less
  <2> QED
    BY <1>1, WFMin, Zenon
<1>3. \A i \in S : ~(i < m)
  BY <1>2
<1> QED
  BY <1>3

\* The ways that are one step longer.
Longer(ways) ==
  UNION {{Append(way, id) : id \in Steps(Last(way)) \cap DOMAIN config} : way \in ways}

\* Ways is the function that its recursion describes.
LEMMA WaysAre ==
  ASSUME NEW root, Len(Names) \in Nat
  PROVE  Ways(root) = [n \in 0..Len(Names) |-> IF n = 0 THEN {<<root>>}
                                               ELSE Longer(Ways(root)[n - 1])]
<1> DEFINE Is(f, k) == f = [n \in 0..k |-> IF n = 0 THEN {<<root>>} ELSE Longer(f[n - 1])]
           Missing  == {k \in Nat : ~(\E f : Is(f, k))}
<1>1. Ways(root) = CHOOSE f : Is(f, Len(Names))
  BY DEF Ways, Longer
<1>2. \E f : Is(f, 0)
  <2>1. Is([n \in 0..0 |-> {<<root>>}], 0)
    OBVIOUS
  <2> QED
    BY <2>1
<1>3. ASSUME NEW k \in Nat, NEW f, Is(f, k) PROVE \E g : Is(g, k + 1)
  <2> DEFINE g == [n \in 0..(k + 1) |-> IF n <= k THEN f[n] ELSE Longer(f[k])]
             h == [n \in 0..(k + 1) |-> IF n = 0 THEN {<<root>>} ELSE Longer(g[n - 1])]
  <2>1. ASSUME NEW n \in 0..(k + 1) PROVE g[n] = h[n]
    <3>1. CASE n = 0
      <4>1. 0 \in 0..k /\ g[0] = f[0]
        OBVIOUS
      <4>2. f[0] = {<<root>>}
        BY <1>3, <4>1
      <4> QED
        BY <3>1, <4>1, <4>2
    <3>2. CASE n \in 1..k
      <4>1. n \in 0..k /\ n - 1 \in 0..k /\ n # 0 /\ n - 1 \in 0..(k + 1) /\ n - 1 <= k /\ n <= k
        BY <3>2
      <4>2. g[n] = f[n] /\ g[n - 1] = f[n - 1]
        BY <4>1
      <4>3. f[n] = Longer(f[n - 1])
        BY <1>3, <4>1
      <4>4. h[n] = Longer(g[n - 1])
        BY <4>1
      <4> QED
        BY <4>2, <4>3, <4>4
    <3>3. CASE n = k + 1
      <4>1. n # 0 /\ n - 1 = k /\ k \in 0..(k + 1) /\ ~(n <= k)
        BY <3>3
      <4>2. g[n] = Longer(f[k]) /\ g[k] = f[k] /\ h[n] = Longer(g[k])
        BY <4>1
      <4> QED
        BY <4>2
    <3> QED
      BY <3>1, <3>2, <3>3
  <2>2. g = h
    <3>1. DOMAIN g = 0..(k + 1) /\ DOMAIN h = 0..(k + 1)
      OBVIOUS
    <3> HIDE DEF g, h
    <3>2. \A n \in 0..(k + 1) : g[n] = h[n]
      BY <2>1
    <3>3. g = [n \in 0..(k + 1) |-> g[n]] /\ h = [n \in 0..(k + 1) |-> h[n]]
      BY <3>1 DEF g, h
    <3> QED
      BY <3>2, <3>3
  <2> HIDE DEF g
  <2> QED
    BY <2>2
<1>4. Missing = {}
  <2> SUFFICES ASSUME Missing # {} PROVE FALSE
    OBVIOUS
  <2>1. Missing \in SUBSET Nat
    OBVIOUS
  <2> HIDE DEF Missing
  <2>2. PICK k \in Missing : \A m \in Missing : k <= m
    BY <2>1, LeastNumber
  <2> USE DEF Missing
  <2> HIDE DEF Is
  <2>3. k # 0 /\ k \in Nat
    BY <2>2, <1>2
  <2>4. k - 1 \in Nat /\ k - 1 \notin Missing
    <3>1. k - 1 \in Nat /\ ~(k <= k - 1)
      BY <2>3
    <3> QED
      BY <2>2, <3>1
  <2>5. PICK f : Is(f, k - 1)
    BY <2>4
  <2>6. \E g : Is(g, (k - 1) + 1)
    BY <2>4, <2>5, <1>3 DEF Is
  <2>7. (k - 1) + 1 = k
    BY <2>3
  <2> QED
    BY <2>2, <2>6, <2>7
<1>5. Is(Ways(root), Len(Names))
  BY <1>1, <1>4
<1> QED
  BY <1>5

\* From the root, and from each way by the steps of its last recipe.
LEMMA WaysGrow ==
  ASSUME NEW root
  PROVE  /\ Len(Names) \in Nat
         /\ <<root>> \in Ways(root)[0]
         /\ \A n \in 0..Len(Names) :
              /\ Ways(root)[n] \subseteq Compositions(root)
              /\ n > 0 => \A way \in Ways(root)[n - 1] :
                            \A id \in Steps(Last(way)) \cap DOMAIN config :
                              Append(way, id) \in Ways(root)[n]
<1> DEFINE N == Len(Names)
           ways == Ways(root)
<1>1. N \in Nat
  BY NamesAssumption
<1>2. ways = [n \in 0..N |-> IF n = 0 THEN {<<root>>} ELSE Longer(ways[n - 1])]
  BY <1>1, WaysAre
<1> HIDE DEF N, ways
<1>3. /\ DOMAIN ways = 0..N
      /\ \A n \in 0..N : ways[n] = IF n = 0 THEN {<<root>>} ELSE Longer(ways[n - 1])
  BY <1>2
<1>4. ways[0] = {<<root>>}
  BY <1>1, <1>3
<1>5. ASSUME NEW n \in 0..N PROVE ways[n] \subseteq Compositions(root)
  BY <1>3 DEF Compositions, Range, ways
<1>6. ASSUME NEW n \in 0..N, n > 0, NEW way \in ways[n - 1],
             NEW id \in Steps(Last(way)) \cap DOMAIN config
      PROVE  Append(way, id) \in ways[n]
  <2>1. ways[n] = Longer(ways[n - 1])
    BY <1>1, <1>3, <1>6
  <2> DEFINE branch(w) == {Append(w, x) : x \in Steps(Last(w)) \cap DOMAIN config}
  <2>2. Append(way, id) \in branch(way)
    BY <1>6
  <2>3. Longer(ways[n - 1]) = UNION {branch(w) : w \in ways[n - 1]}
    BY DEF Longer
  <2> HIDE DEF branch
  <2> QED
    BY <2>1, <2>2, <2>3, <1>6
<1> QED
  BY <1>1, <1>4, <1>5, <1>6 DEF N, ways

\* Where no recipe comes twice, a way is no longer than the recipes are many.
LEMMA NoRecipeTwice ==
  ASSUME NEW way \in Seq(Ids), IsInjective(way)
  PROVE  Len(way) <= Len(Names)
<1> DEFINE N == Len(Names)
           n == Len(way)
<1>1. N \in Nat /\ n \in Nat /\ DOMAIN Names = 1..N /\ DOMAIN way = 1..n
  BY NamesAssumption
<1>2. Names \in [1..N -> Ids] /\ \A id \in Ids : \E k \in 1..N : Names[k] = id
  BY <1>1, NamesAssumption DEF Ids, Range
<1>3. Names \in Surjection(1..N, Ids)
  BY <1>2 DEF Surjection
<1>4. IsFiniteSet(1..N) /\ Cardinality(1..N) = N /\ IsFiniteSet(1..n) /\ Cardinality(1..n) = n
  <2>1. ASSUME NEW k \in Nat PROVE IsFiniteSet(1..k) /\ Cardinality(1..k) = k
    <3>1. 1 \in Int /\ k \in Int
      OBVIOUS
    <3>2. IsFiniteSet(1..k) /\ Cardinality(1..k) = IF 1 > k THEN 0 ELSE k - 1 + 1
      BY <3>1, FS_Interval
    <3> QED
      BY <3>2
  <2> HIDE DEF N, n
  <2> QED
    BY <1>1, <2>1
<1>5. IsFiniteSet(Ids) /\ Cardinality(Ids) <= Cardinality(1..N)
  BY <1>3, <1>4, FS_Surjection
<1>6. way \in [1..n -> Ids]
  BY <1>1
<1>7. \A a, b \in 1..n : way[a] = way[b] => a = b
  BY <1>1 DEF IsInjective
<1>8. way \in Injection(1..n, Ids)
  BY <1>6, <1>7 DEF Injection
<1>9. Cardinality(1..n) <= Cardinality(Ids)
  BY <1>5, <1>8, FS_Injection
<1>10. Cardinality(Ids) \in Nat
  BY <1>5, FS_CardinalityType
<1> QED
  BY <1>1, <1>4, <1>5, <1>9, <1>10

-----------------------------------------------------------------------------
(* Recipes and the plans that are made of them.                            *)

\* Every profile of a recipe resolves, a facilitator or reducer to a provider.
Resolved(id) ==
  LET r == config[id]
  IN /\ \A ref \in Range(r.participants) : ActorResolves(ref)
     /\ \A ref \in {r.facilitator} \cup (IF r.source = "reducer" THEN {r.reducer} ELSE {}) :
          ActorResolves(ref) /\ ~IsStep(ref)

\* What a plan keeps of the recipe of which it was made, as a root or a child.
OfRecipe(p, id) ==
  LET q == planFromRecipe(id, "recipe")
  IN /\ id \in DOMAIN config /\ p.recipe = id /\ p.actors = q.actors
     /\ p.kind = q.kind /\ p.order = q.order
     /\ p.facilitator = q.facilitator /\ p.reducer = q.reducer /\ p.source = q.source
     /\ p.retry = q.retry /\ p.attempts = q.attempts
     /\ p.resume = q.resume /\ p.dynamic = q.dynamic

\* The type of a recipe, whose id is not empty.
LEMMA RecipeType ==
  ASSUME config \in Settings, NEW id \in DOMAIN config
  PROVE  config[id] \in Recipe /\ id \in Ids /\ id # ""
<1>1. config[id] \in Recipe /\ id \in Ids
  BY SettingsAssumption
<1>2. id # ""
  BY <1>1, IdsAssumption, Zenon DEF Ids
<1> QED
  BY <1>1, <1>2, Zenon

\* The slots of a recipe by name.
LEMMA SlotsAre ==
  ASSUME NEW id
  PROVE  /\ DOMAIN Slots(id) = {"slot_0", "slot_1", "facilitator"}
                                 \cup (IF config[id].source = "reducer" THEN {"reducer"} ELSE {})
         /\ Slots(id)["slot_0"] = config[id].participants[1]
         /\ Slots(id)["slot_1"] = config[id].participants[2]
         /\ Slots(id)["facilitator"] = config[id].facilitator
         /\ config[id].source = "reducer" => Slots(id)["reducer"] = config[id].reducer
BY DEF Slots, Restrict

\* The actors of a plan that was made of a recipe.
LEMMA ActorsOf ==
  ASSUME config \in Settings, NEW id, NEW p, OfRecipe(p, id)
  PROVE  /\ DOMAIN p.actors = DOMAIN Slots(id)
         /\ \A slot \in DOMAIN Slots(id) : p.actors[slot] = actorFromProfile(Slots(id)[slot])
         /\ Controls(p) = {"facilitator"}
                            \cup (IF config[id].source = "reducer" THEN {"reducer"} ELSE {})
         /\ Participants(p) = {"slot_0", "slot_1"}
<1>1. p.actors = [slot \in DOMAIN Slots(id) |-> actorFromProfile(Slots(id)[slot])]
  BY DEF OfRecipe, planFromRecipe
<1>2. /\ p.facilitator = "facilitator"
      /\ p.reducer = IF config[id].source = "reducer" THEN "reducer" ELSE ""
  BY Zenon DEF OfRecipe, planFromRecipe
<1>3. DOMAIN p.actors = {"slot_0", "slot_1", "facilitator"}
                          \cup (IF config[id].source = "reducer" THEN {"reducer"} ELSE {})
  BY <1>1, SlotsAre
<1>4. CASE config[id].source = "reducer"
  <2>1. p.reducer = "reducer"
    BY <1>2, <1>4
  <2>2. Controls(p) = {"facilitator", "reducer"}
    BY <1>2, <1>3, <1>4, <2>1 DEF Controls
  <2> QED
    BY <1>1, <1>3, <1>4, <2>2 DEF Participants
<1>5. CASE config[id].source # "reducer"
  <2>1. /\ p.reducer = "" /\ "slot_0" # "" /\ "slot_1" # ""
        /\ DOMAIN p.actors = {"slot_0", "slot_1", "facilitator"}
    BY <1>2, <1>3, <1>5, Zenon
  <2> DEFINE blank == ""
  <2>2. p.reducer = blank /\ "slot_0" # blank /\ "slot_1" # blank
    BY <2>1, Zenon
  <2> HIDE DEF blank
  <2>3. Controls(p) = {"facilitator"}
    BY <1>2, <2>1, <2>2 DEF Controls
  <2> QED
    BY <1>1, <1>5, <2>1, <2>3 DEF Participants
<1> QED
  BY <1>4, <1>5

\* The profiles of its slots are those of the recipe.
LEMMA RefsAre ==
  ASSUME config \in Settings, NEW id \in DOMAIN config
  PROVE  /\ \A slot \in {"slot_0", "slot_1"} :
              slot \in DOMAIN Slots(id) /\ Slots(id)[slot] \in Range(config[id].participants)
         /\ \A slot \in DOMAIN Slots(id) \ {"slot_0", "slot_1"} :
              Slots(id)[slot] \in
                {config[id].facilitator}
                  \cup (IF config[id].source = "reducer" THEN {config[id].reducer} ELSE {})
         /\ \A ref \in Range(config[id].participants) :
              \E slot \in {"slot_0", "slot_1"} : Slots(id)[slot] = ref
<1> DEFINE r == config[id]
<1>1. r.participants \in STRING \X STRING
  BY RecipeType DEF Recipe
<1>2. Range(r.participants) = {r.participants[1], r.participants[2]}
  <2>1. ASSUME NEW A, NEW pair \in A \X A PROVE Range(pair) = {pair[1], pair[2]}
    <3>1. PICK a \in A, b \in A : pair = <<a, b>>
      BY <2>1
    <3> QED
      BY <3>1 DEF Range
  <2> HIDE DEF r
  <2> QED
    BY <1>1, <2>1, Zenon
<1> DEFINE roles == Slots(id)
           controls == {r.facilitator} \cup (IF r.source = "reducer" THEN {r.reducer} ELSE {})
<1>3. /\ DOMAIN roles = {"slot_0", "slot_1", "facilitator"}
                          \cup (IF r.source = "reducer" THEN {"reducer"} ELSE {})
      /\ roles["slot_0"] = r.participants[1] /\ roles["slot_1"] = r.participants[2]
      /\ roles["facilitator"] = r.facilitator
      /\ r.source = "reducer" => roles["reducer"] = r.reducer
  BY SlotsAre
<1> HIDE DEF r, roles
<1>4. ASSUME NEW slot \in {"slot_0", "slot_1"}
      PROVE  slot \in DOMAIN roles /\ roles[slot] \in Range(r.participants)
  BY <1>2, <1>3
<1>5. ASSUME NEW slot \in DOMAIN roles \ {"slot_0", "slot_1"} PROVE roles[slot] \in controls
  BY <1>3
<1>6. ASSUME NEW ref \in Range(r.participants)
      PROVE  \E slot \in {"slot_0", "slot_1"} : roles[slot] = ref
  BY <1>2, <1>3
<1> QED
  BY <1>4, <1>5, <1>6 DEF r, roles

\* A recipe whose profiles resolve is one that RecipesFromRuntime returns.
LEMMA ResolvedIsListed ==
  ASSUME config \in Settings, NEW id \in DOMAIN config, Resolved(id)
  PROVE  Resolves(id)
<1>1. \A slot \in DOMAIN Slots(id) : ActorResolves(Slots(id)[slot])
  BY RefsAre DEF Resolved
<1> QED
  BY <1>1 DEF Resolves

\* The participants of a listed recipe that are child steps are its steps.
LEMMA StepsAre ==
  ASSUME config \in Settings, NEW id, NEW p, OfRecipe(p, id), Resolves(id),
         NEW slot \in Participants(p), p.actors[slot].backend = "child"
  PROVE  p.actors[slot].recipe \in Steps(id) \cap DOMAIN config /\ p.actors[slot].turns \in Nat
<1> DEFINE ref == Slots(id)[slot]
<1>1. id \in DOMAIN config /\ slot \in {"slot_0", "slot_1"}
  BY ActorsOf DEF OfRecipe
<1>2. slot \in DOMAIN Slots(id) /\ ref \in Range(config[id].participants) /\ ActorResolves(ref)
  BY <1>1, RefsAre DEF Resolves
<1>3. p.actors[slot] = actorFromProfile(ref)
  BY <1>2, ActorsOf
<1> HIDE DEF ref
<1>4. IsStep(ref)
  <2> SUFFICES ASSUME ~IsStep(ref) PROVE FALSE
    OBVIOUS
  <2>1. actorFromProfile(ref).backend = Profiles[ref].backend
    BY Zenon DEF actorFromProfile
  <2>2. p.actors[slot].backend = Profiles[ref].backend
    BY <1>3, <2>1
  <2> QED
    BY <1>2, <2>2 DEF ActorResolves, Providers
<1>5. /\ p.actors[slot].recipe = Profiles[ref].model
      /\ p.actors[slot].turns = IF Profiles[ref].effort > 0 THEN Profiles[ref].effort
                                ELSE config[Profiles[ref].model].rounds
  BY <1>3, <1>4 DEF actorFromProfile
<1>6. Profiles[ref].model \in DOMAIN config
  BY <1>2, <1>4 DEF ActorResolves
<1>7. Profiles[ref].effort \in Nat
  BY <1>4, ProfilesAssumption DEF IsStep
<1>8. config[Profiles[ref].model].rounds \in Nat
  BY <1>6, RecipeType DEF Recipe
<1>9. Profiles[ref].model \in Steps(id)
  BY <1>2, <1>4 DEF Steps
<1> QED
  BY <1>5, <1>6, <1>7, <1>8, <1>9

\* The actor of a profile that resolves is one that Validate takes.
LEMMA ActorIsValid ==
  ASSUME config \in Settings, NEW ref, ActorResolves(ref)
  PROVE  /\ ValidActor(actorFromProfile(ref))
         /\ ~IsStep(ref) => actorFromProfile(ref).backend \in Providers
<1>1. ASSUME IsStep(ref)
      PROVE  /\ actorFromProfile(ref).backend = "child"
             /\ actorFromProfile(ref).recipe = Profiles[ref].model
  BY <1>1, Zenon DEF actorFromProfile
<1>2. ASSUME IsStep(ref) PROVE Profiles[ref].model # ""
  <2>1. Profiles[ref].model \in DOMAIN config
    BY <1>2 DEF ActorResolves
  <2> QED
    BY <2>1, RecipeType, Zenon
<1>3. ASSUME ~IsStep(ref)
      PROVE  /\ actorFromProfile(ref).backend = Profiles[ref].backend
             /\ actorFromProfile(ref).recipe = "" /\ actorFromProfile(ref).turns = 0
  BY <1>3, Zenon DEF actorFromProfile
<1>4. ASSUME ~IsStep(ref) PROVE Profiles[ref].backend \in Providers
  BY <1>4 DEF ActorResolves
<1> QED
  BY <1>1, <1>2, <1>3, <1>4, Zenon DEF ValidActor

\* The policy that a recipe gives its sessions.
LEMMA RecipePolicy ==
  ASSUME config \in Settings, NEW id \in DOMAIN config
  PROVE  LET policy == recipeChildPolicy(config[id])
         IN /\ policy \in Policy /\ policy.depth = config[id].depth /\ policy.depth \in Nat \ {0}
            /\ policy.children = 2 /\ policy.turns = 8
            /\ ~config[id].dynamic => policy.mode = "deny"
            /\ ~config[id].resume /\ ~AsksWithoutResume(id) => policy.mode # "ask"
<1> DEFINE r == config[id]
           mode == IF r.dynamic THEN childPolicyMode(r.approval) ELSE "deny"
           policy == recipeChildPolicy(r)
<1>1. r \in Recipe
  BY RecipeType
<1>2. /\ r.dynamic \in BOOLEAN /\ r.resume \in BOOLEAN /\ r.depth \in Nat \ {0}
      /\ r.approval \in {"never", "ask", "auto-safe"}
  BY <1>1 DEF Recipe
<1>3. /\ r.approval = "never" => childPolicyMode(r.approval) = "deny"
      /\ r.approval = "ask" => childPolicyMode(r.approval) = "ask"
      /\ r.approval = "auto-safe" => childPolicyMode(r.approval) = "allow"
  BY Zenon DEF childPolicyMode
<1>4. /\ mode \in {"deny", "ask", "allow"}
      /\ ~r.dynamic => mode = "deny"
      /\ ~r.resume /\ ~AsksWithoutResume(id) => mode # "ask"
  BY <1>2, <1>3 DEF AsksWithoutResume
<1>5. policy = [defaultPolicy(mode) EXCEPT !.depth = r.depth]
  BY DEF recipeChildPolicy
<1> HIDE DEF r, mode
<1>6. policy = [mode |-> mode, depth |-> r.depth, children |-> 2, turns |-> 8, allowed |-> <<>>]
  BY <1>5 DEF defaultPolicy
<1>7. <<>> \in Seq(STRING)
  OBVIOUS
<1>8. policy \in Policy
  BY <1>2, <1>4, <1>6, <1>7 DEF Policy
<1> HIDE DEF policy
<1> QED
  BY <1>2, <1>4, <1>6, <1>8 DEF r, policy

\* A plan of a recipe whose profiles resolve is valid, with any turns and with
\* what any parent leaves of the recipe's policy, unless the recipe asks and
\* does not resume.
LEMMA RecipePlanValid ==
  ASSUME config \in Settings, NEW id, NEW p, OfRecipe(p, id), Resolved(id), ~AsksWithoutResume(id),
         p.provenance \in {"recipe", "child"}, p.turns \in Nat \ {0},
         p.policy \in Policy, p.policy.mode = recipeChildPolicy(config[id]).mode,
         p.policy.depth >= 0, p.policy.children >= 0, p.policy.turns >= 0
  PROVE  Valid(p)
<1> DEFINE r == config[id]
<1>1. /\ id \in DOMAIN config /\ p.recipe = id /\ p.kind = "dialogue" /\ p.order = <<>>
      /\ p.source = r.source /\ p.retry = r.retry /\ p.resume = r.resume /\ p.dynamic = r.dynamic
      /\ p.attempts = IF r.retry = "forbid" THEN 1 ELSE 7
  BY DEF OfRecipe, planFromRecipe
<1>2. /\ p.facilitator = "facilitator"
      /\ p.reducer = IF r.source = "reducer" THEN "reducer" ELSE ""
  BY Zenon DEF OfRecipe, planFromRecipe
<1>3. r \in Recipe /\ id # ""
  BY <1>1, RecipeType
<1>4. \A slot \in DOMAIN p.actors : ValidActor(p.actors[slot])
  <2> SUFFICES ASSUME NEW slot \in DOMAIN p.actors PROVE ValidActor(p.actors[slot])
    OBVIOUS
  <2>1. Resolves(id) /\ slot \in DOMAIN Slots(id)
    BY <1>1, ResolvedIsListed, ActorsOf
  <2>2. p.actors[slot] = actorFromProfile(Slots(id)[slot]) /\ ActorResolves(Slots(id)[slot])
    BY <2>1, ActorsOf DEF Resolves
  <2> QED
    BY <2>2, ActorIsValid
<1>5. \A slot \in Controls(p) : p.actors[slot].backend # "child"
  <2> SUFFICES ASSUME NEW slot \in Controls(p) PROVE p.actors[slot].backend # "child"
    OBVIOUS
  <2>1. slot \in DOMAIN Slots(id) \ {"slot_0", "slot_1"}
    <3> DEFINE reduces == config[id].source = "reducer"
    <3>1. slot \in {"facilitator"} \cup (IF reduces THEN {"reducer"} ELSE {})
      BY ActorsOf
    <3>2. DOMAIN Slots(id) = {"slot_0", "slot_1", "facilitator"}
                               \cup (IF reduces THEN {"reducer"} ELSE {})
      BY SlotsAre
    <3> HIDE DEF reduces
    <3> QED
      BY <3>1, <3>2
  <2>2. ActorResolves(Slots(id)[slot]) /\ ~IsStep(Slots(id)[slot])
    BY <2>1, <1>1, RefsAre DEF Resolved
  <2>3. p.actors[slot].backend \in Providers
    BY <2>1, <2>2, ActorsOf, ActorIsValid
  <2> QED
    BY <2>3 DEF Providers
<1>6. {p.facilitator, p.reducer} \subseteq DOMAIN p.actors \cup {""}
  <2>1. "facilitator" \in DOMAIN p.actors /\ (r.source = "reducer" => "reducer" \in DOMAIN p.actors)
    BY ActorsOf, SlotsAre
  <2>2. p.reducer \in DOMAIN p.actors \cup {""}
    BY <2>1, <1>2, Zenon
  <2> QED
    BY <2>1, <2>2, <1>2, Zenon
<1>7. Cardinality(Participants(p)) = 2
  <2>1. Participants(p) = {"slot_0"} \cup {"slot_1"} /\ "slot_1" \notin {"slot_0"}
    BY ActorsOf
  <2>2. IsFiniteSet({"slot_0"}) /\ Cardinality({"slot_0"}) = 1
    BY FS_Singleton
  <2>3. Cardinality({"slot_0"} \cup {"slot_1"}) = Cardinality({"slot_0"}) + 1
    BY <2>1, <2>2, FS_AddElement, Zenon
  <2> QED
    BY <2>1, <2>2, <2>3
<1>8. p.attempts >= 1 /\ (p.retry = "forbid" => p.attempts = 1)
  BY <1>1
<1>9. p.source = "reducer" => p.reducer # ""
  BY <1>1, <1>2, Zenon
<1>10. (~p.dynamic => p.policy.mode = "deny") /\ (~p.resume => p.policy.mode # "ask")
  BY <1>1, RecipePolicy
<1>11. p.provenance \in {"ordinary", "recipe", "child", "supplied"}
  OBVIOUS
<1>12. p.provenance \in {"recipe", "child"} => p.recipe # ""
  BY <1>1, <1>3, Zenon
<1>13. \A n \in {p.policy.depth, p.policy.children, p.policy.turns} : n >= 0
  OBVIOUS
<1>14. (CASE p.kind = "dialogue" -> p.order = <<>> /\ Cardinality(Participants(p)) = 2
          [] p.kind = "sequence" -> /\ p.facilitator = "" /\ Len(p.order) = p.turns
                                    /\ Range(p.order) = Participants(p))
  <2>1. p.kind # "sequence"
    BY <1>1
  <2> QED
    BY <1>1, <1>7, <2>1, Zenon
<1> QED
  BY <1>4, <1>5, <1>6, <1>8, <1>9, <1>10, <1>11, <1>12, <1>13, <1>14, Zenon DEF Valid

-----------------------------------------------------------------------------
(* The settings stay as they are.                                          *)

\* Ways, of some settings.
WaysIn(settings, root) ==
  LET down[n \in 0..Len(Names)] ==
        IF n = 0 THEN {<<root>>}
        ELSE UNION {{Append(way, id) :
                       id \in {Profiles[ref].model :
                                ref \in {r \in Range(settings[Last(way)].participants) : IsStep(r)}}
                             \cap DOMAIN settings}
                      : way \in down[n - 1]}
  IN down

\* Nothing that is said of the settings alone changes.
LEMMA SettingsStay ==
  ASSUME config' = config
  PROVE  /\ \A id : Resolves(id)' <=> Resolves(id)
         /\ \A id : LaunchCompiles(id)' <=> LaunchCompiles(id)
         /\ \A p, id, turns : StepCompiles(p, id, turns)' <=> StepCompiles(p, id, turns)
         /\ \A p, id : OfRecipe(p, id)' <=> OfRecipe(p, id)
         /\ \A root : Ways(root)' = Ways(root)
         /\ \A root : rootExecutableIssues(root)' = rootExecutableIssues(root)
<1>1. \A id : Slots(id)' = Slots(id)
  BY Zenon DEF Slots
<1>2. \A ref : ActorResolves(ref)' <=> ActorResolves(ref)
  BY Zenon DEF ActorResolves, IsStep
<1>3. \A ref : actorFromProfile(ref)' = actorFromProfile(ref)
  BY Zenon DEF actorFromProfile, IsStep
<1>4. \A id : Resolves(id)' <=> Resolves(id)
  BY <1>1, <1>2, Zenon DEF Resolves
<1>5. \A id, provenance : planFromRecipe(id, provenance)' = planFromRecipe(id, provenance)
  BY <1>1, <1>3, Zenon DEF planFromRecipe, recipeChildPolicy
<1>6. \A p, id, turns : ForStaticChild(p, id, turns)' = ForStaticChild(p, id, turns)
  BY <1>5, Zenon DEF ForStaticChild, childPlan, recipeChildPolicy
<1>7. Catalog' = Catalog
  BY <1>4, Zenon DEF Catalog
<1>8. \A id : Steps(id)' = Steps(id)
  BY Zenon DEF Steps, IsStep
<1>9. \A root : Ways(root)' = Ways(root)
  <2>1. \A root : Ways(root) = WaysIn(config, root)
    BY Zenon DEF Ways, WaysIn, Steps
  <2>2. \A root : Ways(root)' = WaysIn(config', root)
    BY Zenon DEF Ways, WaysIn, Steps
  <2> QED
    BY <2>1, <2>2, Zenon
<1>10. \A way : Executable(way)' <=> Executable(way)
  BY <1>2, Zenon DEF Executable, IsStep
<1>11. \A root : Compositions(root)' = Compositions(root)
  BY <1>9, Zenon DEF Compositions
<1>12. \A root : rootExecutableIssues(root)' = rootExecutableIssues(root)
  BY <1>10, <1>11, Zenon DEF rootExecutableIssues
<1>13. \A id : LaunchCompiles(id)' <=> LaunchCompiles(id)
  BY <1>4, <1>5, Zenon DEF LaunchCompiles
<1>14. \A p, id, turns : StepCompiles(p, id, turns)' <=> StepCompiles(p, id, turns)
  BY <1>6, <1>7, Zenon DEF StepCompiles
<1>15. \A p, id : OfRecipe(p, id)' <=> OfRecipe(p, id)
  BY <1>5, Zenon DEF OfRecipe
<1> QED
  BY <1>4, <1>9, <1>12, <1>13, <1>14, <1>15, Zenon

-----------------------------------------------------------------------------
(* Lines.                                                                  *)

\* Line, of some tree.
LineIn(t, i) ==
  {a \in DOMAIN t :
     \A S \in SUBSET DOMAIN t :
       i \in S /\ (\A b \in S : t[b].parent \in S \cup {0}) => a \in S}

\* The line of a session stays, and a child's has it and the child.
LEMMA LinesGrow ==
  ASSUME NEW X, NEW t \in Seq(X), \A b \in DOMAIN t : t[b].parent \in 0..(b - 1),
         NEW s, NEW u, u = Append(t, s)
  PROVE  /\ \A i \in DOMAIN u : i \in LineIn(u, i)
         /\ \A i \in DOMAIN t : LineIn(t, i) \subseteq LineIn(u, i)
         /\ s.parent \in DOMAIN t => LineIn(t, s.parent) \subseteq LineIn(u, Len(t) + 1)
<1> DEFINE n == Len(t)
           Closed(v, S) == \A b \in S : v[b].parent \in S \cup {0}
<1>1. /\ n \in Nat /\ DOMAIN t = 1..n /\ DOMAIN u = 1..(n + 1)
      /\ u[n + 1] = s /\ \A b \in 1..n : u[b] = t[b]
  <2>1. u \in Seq(X \cup {s}) /\ t \in Seq(X \cup {s})
    OBVIOUS
  <2>2. Len(u) = Len(t) + 1
    BY <2>1
  <2> QED
    BY <2>1, <2>2
<1> HIDE DEF n
<1>2. ASSUME NEW i \in DOMAIN u PROVE i \in LineIn(u, i)
  BY DEF LineIn
<1>3. ASSUME NEW S \in SUBSET DOMAIN u, Closed(u, S) PROVE Closed(t, S \cap DOMAIN t)
  <2> SUFFICES ASSUME NEW b \in S \cap DOMAIN t
               PROVE  t[b].parent \in (S \cap DOMAIN t) \cup {0}
    OBVIOUS
  <2>1. u[b] = t[b] /\ t[b].parent \in S \cup {0} /\ t[b].parent \in 0..(b - 1)
    BY <1>1, <1>3
  <2>2. b \in 1..n
    BY <1>1
  <2>3. t[b].parent = 0 \/ t[b].parent \in 1..n
    BY <1>1, <2>1, <2>2
  <2> QED
    BY <1>1, <2>1, <2>3
<1>4. ASSUME NEW i \in DOMAIN t, NEW a \in LineIn(t, i),
             NEW S \in SUBSET DOMAIN u, i \in S, Closed(u, S)
      PROVE  a \in S
  <2> DEFINE R == S \cap DOMAIN t
  <2>1. R \in SUBSET DOMAIN t /\ i \in R /\ Closed(t, R)
    BY <1>3, <1>4
  <2>2. a \in R
    BY <2>1, <1>4, Zenon DEF LineIn
  <2> QED
    BY <2>2
<1>5. \A i : \A a \in LineIn(t, i) : a \in DOMAIN u
  BY <1>1 DEF LineIn
<1>6. ASSUME NEW i \in DOMAIN t PROVE LineIn(t, i) \subseteq LineIn(u, i)
  <2> SUFFICES ASSUME NEW a \in LineIn(t, i) PROVE a \in LineIn(u, i)
    OBVIOUS
  <2>1. \A S \in SUBSET DOMAIN u : i \in S /\ Closed(u, S) => a \in S
    BY <1>4
  <2> QED
    BY <1>5, <2>1, Zenon DEF LineIn
<1>7. ASSUME s.parent \in DOMAIN t PROVE LineIn(t, s.parent) \subseteq LineIn(u, n + 1)
  <2> SUFFICES ASSUME NEW a \in LineIn(t, s.parent) PROVE a \in LineIn(u, n + 1)
    OBVIOUS
  <2>1. ASSUME NEW S \in SUBSET DOMAIN u, n + 1 \in S, Closed(u, S) PROVE a \in S
    <3>1. s.parent \in S \cup {0}
      BY <1>1, <2>1
    <3>2. s.parent \in S
      BY <1>1, <1>7, <3>1
    <3> QED
      BY <1>4, <1>7, <2>1, <3>2
  <2> QED
    BY <1>5, <2>1, Zenon DEF LineIn
<1> QED
  BY <1>2, <1>6, <1>7 DEF n

-----------------------------------------------------------------------------
(* What holds of the sessions that only child steps lead to.               *)

\* The recipes from the root's down to that of session s are a way.
OnAWay(s, root) ==
  /\ s.level \in 0..Len(Names)
  /\ \E way \in Ways(root)[s.level] :
       way \in Seq(Ids) /\ Len(way) = s.level + 1 /\ Last(way) = s.plan.recipe

\* s is a session of a recipe; its depth is what some session above it, or it
\* itself, declares, less the levels between the two.
Descends(s, root, above) ==
  /\ OfRecipe(s.plan, s.plan.recipe) /\ Resolves(s.plan.recipe)
  /\ \E a \in above : /\ a.plan.recipe \in DOMAIN config
                      /\ config[a.plan.recipe].depth
                           = s.plan.policy.depth + s.level - a.level
  /\ rootExecutableIssues(root) = {} => OnAWay(s, root)

\* Some participant of plan p is a child step for the recipe, and has no plan.
Denied(id, p) ==
  \E slot \in Participants(p) :
    /\ p.actors[slot].backend = "child" /\ p.actors[slot].recipe = id
    /\ ~StepCompiles(p, id, p.actors[slot].turns)

\* The sessions that only child steps lead to descend from the root's recipe.
DescentInv ==
  /\ config \in Settings
  /\ tree # <<>> => tree[1].level = 0
  /\ \A i \in DOMAIN tree :
       Declared(i) => \E s, root, above : /\ s = tree[i] /\ root = tree[1].plan.recipe
                                          /\ above = {tree[a] : a \in Line(i)}
                                          /\ Descends(s, root, above)

\* What was refused was refused because no plan compiled, and none would now.
DenialsInv ==
  \A x \in refused :
    /\ x.by = "recipe" => ~LaunchCompiles(x.recipe)
    /\ x.by = "step" => /\ x.parent \in DOMAIN tree
                        /\ \E p : p = tree[x.parent].plan /\ Denied(x.recipe, p)

\* The inductive invariant.
PreflightInv == DescentInv /\ DenialsInv

\* None of this changes while the settings stay.
LEMMA DescentStays ==
  ASSUME config' = config
  PROVE  /\ \A s, root, above : Descends(s, root, above)' <=> Descends(s, root, above)
         /\ \A id, p : Denied(id, p)' <=> Denied(id, p)
<1>1. \A s, root : OnAWay(s, root)' <=> OnAWay(s, root)
  BY SettingsStay, Zenon DEF OnAWay
<1>2. \A s, root, above : Descends(s, root, above)' <=> Descends(s, root, above)
  BY <1>1, SettingsStay, Zenon DEF Descends
<1>3. \A id, p : Denied(id, p)' <=> Denied(id, p)
  BY SettingsStay, Zenon DEF Denied
<1> QED
  BY <1>2, <1>3, Zenon

\* A way on which everything is executable goes on by every step of its last
\* recipe, to another that is.
LEMMA WayGoesOn ==
  ASSUME config \in Settings, NEW root, rootExecutableIssues(root) = {},
         NEW l \in 0..Len(Names), NEW way \in Ways(root)[l], way \in Seq(Ids), Len(way) = l + 1,
         NEW id \in Steps(Last(way)) \cap DOMAIN config
  PROVE  LET on == Append(way, id)
         IN /\ l + 1 \in 0..Len(Names) /\ on \in Ways(root)[l + 1] /\ on \in Seq(Ids)
            /\ Len(on) = l + 2 /\ Last(on) = id
            /\ on \in Compositions(root) /\ Executable(on)
<1> DEFINE on == Append(way, id)
           N == Len(Names)
<1>1. N \in Nat /\ way \in Compositions(root)
  BY WaysGrow
<1>2. Executable(way)
  BY <1>1 DEF rootExecutableIssues
<1>3. Len(way) <= N
  BY <1>2, NoRecipeTwice DEF Executable
<1> HIDE DEF N
<1>4. l \in Nat /\ l + 1 \in 0..N /\ l + 1 > 0 /\ (l + 1) - 1 = l
  BY <1>1, <1>3 DEF N
<1>5. on \in Ways(root)[l + 1] /\ on \in Compositions(root)
  BY <1>4, WaysGrow DEF N
<1>6. Executable(on)
  BY <1>5 DEF rootExecutableIssues
<1>7. id \in Ids
  BY RecipeType
<1>8. on \in Seq(Ids) /\ Len(on) = l + 2 /\ on[Len(on)] = id
  BY <1>4, <1>7
<1> QED
  BY <1>4, <1>5, <1>6, <1>8 DEF N, Last

\* The plan of a child step is one of its recipe.
LEMMA StepIsOfRecipe ==
  ASSUME config \in Settings, NEW p, p.policy.depth \in Nat, NEW id \in DOMAIN config,
         NEW turns \in Nat
  PROVE  LET q == ForStaticChild(p, id, turns)
         IN /\ OfRecipe(q, id) /\ q.provenance = "child" /\ q.turns \in Nat \ {0}
            /\ q.policy.mode = recipeChildPolicy(config[id]).mode
            /\ q.policy.depth = Minimum(config[id].depth, p.policy.depth - 1)
            /\ p.policy.depth > 0
                 => /\ q.policy \in Policy /\ q.policy.depth >= 0
                    /\ q.policy.children >= 0 /\ q.policy.turns >= 0
<1> DEFINE q == ForStaticChild(p, id, turns)
           own == recipeChildPolicy(config[id])
           plan == planFromRecipe(id, "child")
           given == IF turns > 0 THEN turns ELSE config[id].turns
           left == remainingStaticChildPolicy(own, p.policy)
<1>1. config[id].turns \in Nat \ {0} /\ config[id].depth \in Nat \ {0}
  BY RecipeType DEF Recipe
<1>2. /\ own \in Policy /\ own.depth = config[id].depth /\ own.children = 2 /\ own.turns = 8
  BY RecipePolicy
<1>3. q = [plan EXCEPT !.turns = Minimum(@, given), !.policy = left]
  BY DEF ForStaticChild, childPlan
<1>4. plan.turns = config[id].turns /\ plan.provenance = "child"
  BY Zenon DEF planFromRecipe
<1>5. OfRecipe(q, id) /\ q.provenance = "child" /\ q.turns = Minimum(config[id].turns, given)
      /\ q.policy = left
  BY <1>3 DEF planFromRecipe, OfRecipe
<1>6. left = [own EXCEPT !.depth = Minimum(@, p.policy.depth - 1)]
  BY DEF remainingStaticChildPolicy
<1> HIDE DEF q, own, plan, left
<1>7. q.turns \in Nat \ {0}
  BY <1>1, <1>5 DEF Minimum
<1>8. DOMAIN own = {"mode", "depth", "children", "turns", "allowed"}
  BY <1>2 DEF Policy
<1>9. /\ left.mode = own.mode /\ left.children = 2 /\ left.turns = 8
      /\ left.depth = Minimum(config[id].depth, p.policy.depth - 1)
  BY <1>2, <1>6, <1>8
<1>10. ASSUME p.policy.depth > 0 PROVE left \in Policy /\ left.depth >= 0
  <2>1. left.depth \in Int /\ left.depth >= 0
    BY <1>1, <1>9, <1>10 DEF Minimum
  <2> QED
    BY <1>2, <1>6, <1>9, <2>1 DEF Policy
<1> QED
  BY <1>5, <1>7, <1>9, <1>10 DEF q, own

\* What a child step of a session adds descends as the session does.
LEMMA StepDescends ==
  ASSUME config \in Settings, NEW s, NEW root, NEW above, Descends(s, root, above),
         s.level \in Nat, s.plan.policy.depth \in Nat, \A a \in above : a.level \in Nat,
         NEW slot \in Participants(s.plan), s.plan.actors[slot].backend = "child",
         s.plan.actors[slot].recipe \in Catalog,
         NEW t, NEW below, above \cup {t} \subseteq below, t.level = s.level + 1,
         t.plan = ForStaticChild(s.plan, s.plan.actors[slot].recipe, s.plan.actors[slot].turns)
  PROVE  Descends(t, root, below)
<1> DEFINE id == s.plan.actors[slot].recipe
           turns == s.plan.actors[slot].turns
           of == s.plan.recipe
<1>1. OfRecipe(s.plan, of) /\ Resolves(of)
  BY DEF Descends
<1>2. id \in Steps(of) \cap DOMAIN config /\ turns \in Nat
  BY <1>1, StepsAre
<1> HIDE DEF id, turns
<1>3. /\ OfRecipe(t.plan, id)
      /\ t.plan.policy.depth = Minimum(config[id].depth, s.plan.policy.depth - 1)
  BY <1>2, StepIsOfRecipe DEF id, turns
<1>4. t.plan.recipe = id /\ Resolves(id)
  BY <1>3 DEF OfRecipe, Catalog, id
<1>5. config[id].depth \in Nat
  BY <1>2, RecipeType DEF Recipe
<1>6. \E a \in below : /\ a.plan.recipe \in DOMAIN config
                       /\ config[a.plan.recipe].depth
                            = t.plan.policy.depth + t.level - a.level
  <2>1. CASE t.plan.policy.depth = config[id].depth
    <3>1. config[id].depth = t.plan.policy.depth + t.level - t.level
      BY <1>5, <2>1
    <3> QED
      BY <1>2, <1>4, <3>1
  <2>2. CASE t.plan.policy.depth = s.plan.policy.depth - 1
    <3>1. PICK a \in above : /\ a.plan.recipe \in DOMAIN config
                             /\ config[a.plan.recipe].depth
                                  = s.plan.policy.depth + s.level - a.level
      BY DEF Descends
    <3>2. a.level \in Nat /\ t.plan.policy.depth \in Int
      BY <2>2
    <3>3. config[a.plan.recipe].depth = t.plan.policy.depth + t.level - a.level
      BY <2>2, <3>1, <3>2
    <3> QED
      BY <3>1, <3>3
  <2> QED
    BY <1>3, <2>1, <2>2 DEF Minimum
<1>7. ASSUME rootExecutableIssues(root) = {} PROVE OnAWay(t, root)
  <2>1. OnAWay(s, root)
    BY <1>7 DEF Descends
  <2>2. PICK way \in Ways(root)[s.level] :
          way \in Seq(Ids) /\ Len(way) = s.level + 1 /\ Last(way) = of
    BY <2>1 DEF OnAWay
  <2>3. s.level \in 0..Len(Names)
    BY <2>1 DEF OnAWay
  <2> DEFINE on == Append(way, id)
  <2>4. /\ s.level + 1 \in 0..Len(Names) /\ on \in Ways(root)[s.level + 1] /\ on \in Seq(Ids)
        /\ Len(on) = s.level + 2 /\ Last(on) = id
    BY <1>2, <1>7, <2>2, <2>3, WayGoesOn
  <2> HIDE DEF on
  <2>5. s.level + 2 = t.level + 1
    OBVIOUS
  <2> QED
    BY <1>4, <2>4, <2>5 DEF OnAWay
<1> QED
  BY <1>3, <1>4, <1>6, <1>7 DEF Descends

-----------------------------------------------------------------------------
(* The invariant is inductive.                                             *)

\* At the start there is no session.
LEMMA PreflightInit == Init => PreflightInv
BY DEF Init, PreflightInv, DescentInv, DenialsInv

\* Line and Declared before and after a step.
LEMMA LinesAre ==
  ASSUME NEW i
  PROVE  /\ Line(i) = LineIn(tree, i)
         /\ Line(i)' = LineIn(tree', i)
         /\ Declared(i) <=> \A a \in LineIn(tree, i) : tree[a].by \in {"recipe", "step"}
         /\ Declared(i)' <=> \A a \in LineIn(tree', i) : tree'[a].by \in {"recipe", "step"}
<1>1. Line(i) = LineIn(tree, i)
  BY Zenon DEF Line, LineIn
<1>2. Line(i)' = LineIn(tree', i)
  BY Zenon DEF Line, LineIn
<1> QED
  BY <1>1, <1>2, Zenon DEF Declared

\* A step that adds no session changes nothing of what descends.
LEMMA DescentSame ==
  ASSUME DescentInv, UNCHANGED <<config, tree>>
  PROVE  DescentInv'
<1>1. \A i : Line(i)' = Line(i)
  BY LinesAre
<1>2. \A i : Declared(i)' <=> Declared(i)
  BY LinesAre
<1>3. /\ config' \in Settings
      /\ tree' # <<>> => tree'[1].level = 0
  BY DEF DescentInv
<1>4. ASSUME NEW i \in DOMAIN tree', Declared(i)'
      PROVE  \E s, root, above : /\ s = tree'[i] /\ root = tree'[1].plan.recipe
                                 /\ above = {tree'[a] : a \in Line(i)'}
                                 /\ Descends(s, root, above)'
  <2>1. i \in DOMAIN tree /\ Declared(i)
    BY <1>2, <1>4
  <2>2. PICK s, root, above : /\ s = tree[i] /\ root = tree[1].plan.recipe
                              /\ above = {tree[a] : a \in Line(i)}
                              /\ Descends(s, root, above)
    BY <2>1 DEF DescentInv
  <2>3. Descends(s, root, above)'
    BY <2>2, DescentStays
  <2>4. above = {tree'[a] : a \in Line(i)'}
    BY <1>1, <2>2
  <2> QED
    BY <2>2, <2>3, <2>4
<1> QED
  BY <1>3, <1>4 DEF DescentInv

\* A refusal stays one while sessions are added.
LEMMA DenialsSame ==
  ASSUME DenialsInv, config' = config, NEW X, tree \in Seq(X),
         tree' = tree \/ \E s : tree' = Append(tree, s),
         NEW x \in refused
  PROVE  /\ x.by = "recipe" => ~LaunchCompiles(x.recipe)'
         /\ x.by = "step" => /\ x.parent \in DOMAIN tree'
                             /\ \E p : p = tree'[x.parent].plan /\ Denied(x.recipe, p)'
<1>1. x.by = "recipe" => ~LaunchCompiles(x.recipe)'
  BY SettingsStay DEF DenialsInv
<1>2. ASSUME x.by = "step"
      PROVE  /\ x.parent \in DOMAIN tree'
             /\ \E p : p = tree'[x.parent].plan /\ Denied(x.recipe, p)'
  <2>1. x.parent \in DOMAIN tree
    BY <1>2 DEF DenialsInv
  <2>2. PICK p : p = tree[x.parent].plan /\ Denied(x.recipe, p)
    BY <1>2 DEF DenialsInv
  <2>3. Denied(x.recipe, p)'
    BY <2>2, DescentStays
  <2>4. x.parent \in DOMAIN tree' /\ tree'[x.parent] = tree[x.parent]
    <3>1. CASE tree' = tree
      BY <2>1, <3>1
    <3>2. ASSUME NEW s, tree' = Append(tree, s)
          PROVE  x.parent \in DOMAIN tree' /\ tree'[x.parent] = tree[x.parent]
      <4>1. tree \in Seq(X \cup {s})
        OBVIOUS
      <4>2. x.parent \in 1..Len(tree)
        BY <2>1
      <4> QED
        BY <3>2, <4>1, <4>2
    <3> QED
      BY <3>1, <3>2
  <2> QED
    BY <2>2, <2>3, <2>4
<1> QED
  BY <1>1, <1>2

\* A launch, step or request that got no plan.
LEMMA RefusalKeeps ==
  ASSUME TreeInv, PreflightInv, NEW i, NEW by, NEW id, Refuses(i, by, id),
         by = "recipe" => ~LaunchCompiles(id),
         by = "step" => i \in DOMAIN tree /\ \E p : p = tree[i].plan /\ Denied(id, p)
  PROVE  PreflightInv'
<1> DEFINE y == Refusal(i, by, id)
<1>1. UNCHANGED <<config, tree>> /\ refused' = refused \cup {y}
  BY DEF Refuses
<1>2. y.parent = i /\ y.by = by /\ y.recipe = id
  BY DEF Refusal
<1>3. DescentInv'
  BY <1>1, DescentSame DEF PreflightInv
<1> HIDE DEF y
<1>4. ASSUME NEW x \in refused'
      PROVE  /\ x.by = "recipe" => ~LaunchCompiles(x.recipe)'
             /\ x.by = "step" => /\ x.parent \in DOMAIN tree'
                                 /\ \E p : p = tree'[x.parent].plan /\ Denied(x.recipe, p)'
  <2>1. CASE x \in refused
    BY <1>1, <2>1, DenialsSame DEF TreeInv, PreflightInv
  <2>2. CASE x = y
    <3>1. by = "recipe" => ~LaunchCompiles(id)'
      BY <1>1, SettingsStay
    <3>2. by = "step" => i \in DOMAIN tree' /\ \E p : p = tree'[i].plan /\ Denied(id, p)'
      BY <1>1, DescentStays
    <3> QED
      BY <1>2, <2>2, <3>1, <3>2
  <2> QED
    BY <1>1, <1>4, <2>1, <2>2
<1> QED
  BY <1>3, <1>4 DEF PreflightInv, DenialsInv

\* A new session: a recipe launched, a step of one that descends, or another.
LEMMA GrowthKeeps ==
  ASSUME TreeInv, PreflightInv, NEW s, Grows(s),
         tree = <<>> => s.level = 0,
         \/ s.by \notin {"recipe", "step"}
         \/ tree = <<>> /\ \A below : s \in below => Descends(s, s.plan.recipe, below)
         \/ /\ s.parent \in DOMAIN tree
            /\ Declared(s.parent)
                 => \A below : {tree[a] : a \in Line(s.parent)} \cup {s} \subseteq below
                                 => Descends(s, tree[1].plan.recipe, below)
  PROVE  PreflightInv'
<1> DEFINE n == Len(tree)
<1>1. config' = config /\ refused' = refused /\ tree' = Append(tree, s)
  BY DEF Grows
<1>2. PICK X : tree \in Seq(X)
  BY DEF TreeInv
<1>3. \A b \in DOMAIN tree : tree[b].parent \in 0..(b - 1)
  BY DEF TreeInv, Sound
<1>4. /\ n \in Nat /\ DOMAIN tree = 1..n /\ DOMAIN tree' = 1..(n + 1)
      /\ tree'[n + 1] = s /\ \A b \in 1..n : tree'[b] = tree[b]
      /\ tree = <<>> <=> n = 0
  <2>1. tree \in Seq(X \cup {s}) /\ tree' = Append(tree, s)
    BY <1>1, <1>2
  <2>2. Len(tree') = n + 1 /\ n \in Nat /\ tree' \in Seq(X \cup {s})
    BY <2>1
  <2> QED
    BY <2>1, <2>2
<1>5. /\ \A i \in DOMAIN tree' : i \in LineIn(tree', i)
      /\ \A i \in DOMAIN tree : LineIn(tree, i) \subseteq LineIn(tree', i)
      /\ s.parent \in DOMAIN tree => LineIn(tree, s.parent) \subseteq LineIn(tree', n + 1)
  BY <1>1, <1>2, <1>3, LinesGrow
<1> HIDE DEF n
<1>6. config' \in Settings /\ tree'[1].level = 0
  <2>1. CASE tree = <<>>
    BY <1>1, <1>4, <2>1 DEF PreflightInv, DescentInv
  <2>2. CASE tree # <<>>
    <3>1. 1 \in 1..n /\ tree[1].level = 0
      BY <1>4, <2>2 DEF PreflightInv, DescentInv
    <3> QED
      BY <1>1, <1>4, <3>1 DEF PreflightInv, DescentInv
  <2> QED
    BY <2>1, <2>2
<1>7. ASSUME NEW i \in DOMAIN tree,
             \A a \in LineIn(tree', i) : tree'[a].by \in {"recipe", "step"}
      PROVE  Declared(i)
  <2>1. \A a \in LineIn(tree, i) : a \in 1..n /\ a \in LineIn(tree', i)
    BY <1>4, <1>5 DEF LineIn
  <2>2. \A a \in LineIn(tree, i) : tree[a].by \in {"recipe", "step"}
    BY <1>4, <1>7, <2>1
  <2> QED
    BY <2>2, LinesAre
<1>8. ASSUME NEW i \in DOMAIN tree
      PROVE  {tree[a] : a \in Line(i)} \subseteq {tree'[a] : a \in LineIn(tree', i)}
  <2>1. Line(i) = LineIn(tree, i)
    BY LinesAre
  <2>2. \A a \in Line(i) : a \in 1..n /\ a \in LineIn(tree', i) /\ tree'[a] = tree[a]
    BY <1>4, <1>5, <2>1 DEF LineIn
  <2> QED
    BY <2>2
<1>9. ASSUME NEW i \in DOMAIN tree', Declared(i)'
      PROVE  \E t, root, above : /\ t = tree'[i] /\ root = tree'[1].plan.recipe
                                 /\ above = {tree'[a] : a \in LineIn(tree', i)}
                                 /\ Descends(t, root, above)'
  <2>0. \A a \in LineIn(tree', i) : tree'[a].by \in {"recipe", "step"}
    BY <1>9, LinesAre
  <2> DEFINE Found == \E t, root, above : /\ t = tree'[i] /\ root = tree'[1].plan.recipe
                                          /\ above = {tree'[a] : a \in LineIn(tree', i)}
                                          /\ Descends(t, root, above)
  <2>1. ASSUME i \in 1..n PROVE Found
    <3>1. i \in DOMAIN tree /\ Declared(i)
      BY <1>4, <1>7, <2>0, <2>1
    <3>2. PICK t, root, above : /\ t = tree[i] /\ root = tree[1].plan.recipe
                                /\ above = {tree[a] : a \in Line(i)}
                                /\ Descends(t, root, above)
      BY <3>1 DEF PreflightInv, DescentInv
    <3>3. PICK below : below = {tree'[a] : a \in LineIn(tree', i)}
      OBVIOUS
    <3>4. Descends(t, root, below)
      <4>1. above \subseteq below
        BY <1>8, <3>1, <3>2, <3>3
      <4> QED
        BY <3>2, <4>1 DEF Descends
    <3>5. 1 \in 1..n /\ t = tree'[i] /\ root = tree'[1].plan.recipe
      BY <1>4, <2>1, <3>2
    <3> QED
      BY <3>3, <3>4, <3>5
  <2>2. ASSUME i = n + 1 PROVE Found
    <3>1. tree'[i] = s /\ s \in {tree'[a] : a \in LineIn(tree', i)}
      BY <1>4, <1>5, <2>2
    <3>2. PICK below : below = {tree'[a] : a \in LineIn(tree', i)}
      OBVIOUS
    <3>3. s.by \in {"recipe", "step"}
      BY <1>5, <2>0, <3>1
    <3>4. ASSUME tree = <<>>, Descends(s, s.plan.recipe, below) PROVE Found
      <4>1. tree'[1] = s
        BY <1>4, <3>4
      <4> QED
        BY <3>1, <3>2, <3>4, <4>1
    <3>5. ASSUME s.parent \in DOMAIN tree,
                 Declared(s.parent)
                   => \A b : {tree[a] : a \in Line(s.parent)} \cup {s} \subseteq b
                               => Descends(s, tree[1].plan.recipe, b)
          PROVE  Found
      <4>1. 1 \in 1..n /\ tree'[1] = tree[1]
        BY <1>4, <3>5
      <4>2. \A a \in LineIn(tree, s.parent) : a \in 1..n /\ a \in LineIn(tree', i)
        BY <1>4, <1>5, <2>2, <3>5 DEF LineIn
      <4>3. Line(s.parent) = LineIn(tree, s.parent)
        BY LinesAre
      <4>4. Declared(s.parent)
        <5>1. \A a \in LineIn(tree, s.parent) : tree[a].by \in {"recipe", "step"}
          BY <1>4, <2>0, <4>2
        <5> QED
          BY <5>1, <4>3, Zenon DEF Declared
      <4>5. {tree[a] : a \in Line(s.parent)} \cup {s} \subseteq below
        BY <1>4, <3>1, <3>2, <4>2, <4>3
      <4>6. Descends(s, tree[1].plan.recipe, below)
        BY <3>5, <4>4, <4>5
      <4>7. PICK root : root = tree[1].plan.recipe
        OBVIOUS
      <4>8. Descends(s, root, below)
        BY <4>6, <4>7
      <4> QED
        BY <3>1, <3>2, <4>1, <4>7, <4>8
    <3> QED
      BY <3>1, <3>2, <3>3, <3>4, <3>5
  <2>3. Found
    BY <1>4, <2>1, <2>2
  <2>4. PICK t, root, above : /\ t = tree'[i] /\ root = tree'[1].plan.recipe
                              /\ above = {tree'[a] : a \in LineIn(tree', i)}
                              /\ Descends(t, root, above)
    BY <2>3
  <2>5. Descends(t, root, above)'
    BY <1>1, <2>4, DescentStays
  <2> QED
    BY <2>4, <2>5
<1>10. DescentInv'
  <2>1. \A i : Line(i)' = LineIn(tree', i)
    BY LinesAre
  <2> QED
    BY <1>6, <1>9, <2>1 DEF DescentInv
<1>11. ASSUME NEW x \in refused'
       PROVE  /\ x.by = "recipe" => ~LaunchCompiles(x.recipe)'
              /\ x.by = "step" => /\ x.parent \in DOMAIN tree'
                                  /\ \E p : p = tree'[x.parent].plan /\ Denied(x.recipe, p)'
  BY <1>1, <1>2, DenialsSame DEF PreflightInv
<1> QED
  BY <1>10, <1>11 DEF PreflightInv, DenialsInv

\* A recipe that is launched is at the head of its ways.
LEMMA LaunchDescends ==
  ASSUME config \in Settings, NEW id, LaunchCompiles(id),
         NEW s, s.plan = planFromRecipe(id, "recipe"), s.level = 0, NEW below, s \in below
  PROVE  s.plan.recipe = id /\ Descends(s, id, below)
<1> DEFINE p == planFromRecipe(id, "recipe")
<1>1. Resolves(id) /\ id \in DOMAIN config
  BY DEF LaunchCompiles, Resolves
<1>2. OfRecipe(p, id)
  <2>1. p.recipe = id
    BY DEF planFromRecipe
  <2> QED
    BY <1>1, <2>1, Zenon DEF OfRecipe
<1>3. p.recipe = id /\ p.policy = recipeChildPolicy(config[id])
  BY DEF planFromRecipe
<1>4. p.policy.depth = config[id].depth /\ config[id].depth \in Nat
  BY <1>1, <1>3, RecipePolicy
<1> HIDE DEF p
<1>5. config[id].depth = s.plan.policy.depth + s.level - s.level
  BY <1>4 DEF p
<1>6. OnAWay(s, id)
  <2>1. Len(Names) \in Nat /\ <<id>> \in Ways(id)[0]
    BY WaysGrow
  <2>2. id \in Ids
    BY <1>1, RecipeType
  <2>3. <<id>> \in Seq(Ids) /\ Len(<<id>>) = 1 /\ Last(<<id>>) = id
    BY <2>2 DEF Last
  <2>4. 0 \in 0..Len(Names) /\ s.plan.recipe = id /\ s.level + 1 = 1
    BY <1>3, <2>1 DEF p
  <2> QED
    BY <2>1, <2>3, <2>4 DEF OnAWay
<1> QED
  BY <1>1, <1>2, <1>3, <1>5, <1>6 DEF Descends, p

\* Every step of Next keeps it: a launch begins a line, a step goes on with
\* one, flags, plans and requests are in no line of recipes and steps.
LEMMA PreflightStep == TreeInv /\ PreflightInv /\ [Next]_vars => PreflightInv'
<1> SUFFICES ASSUME TreeInv, PreflightInv, [Next]_vars PROVE PreflightInv'
  OBVIOUS
<1>0. config \in Settings
  BY DEF PreflightInv, DescentInv
<1>1. ASSUME NEW agents, NEW dynamic, NEW rounds, NEW maxRounds,
             v2RunOrdinary(agents, dynamic, rounds, maxRounds)
      PROVE  PreflightInv'
  <2> DEFINE p == FromFlags(agents, dynamic, rounds, maxRounds)
  <2>1. Grows(Session(p, 0, "flags"))
    BY <1>1 DEF v2RunOrdinary
  <2>2. Session(p, 0, "flags").by = "flags" /\ Session(p, 0, "flags").level = 0
    BY DEF Session
  <2> HIDE DEF p
  <2> QED
    BY <2>1, <2>2, GrowthKeeps
<1>2. ASSUME NEW id, v2RunRecipe(id) PROVE PreflightInv'
  <2> DEFINE s == Session(planFromRecipe(id, "recipe"), 0, "recipe")
  <2>1. CASE LaunchCompiles(id)
    <3>1. tree = <<>> /\ Grows(s)
      BY <1>2, <2>1 DEF v2RunRecipe
    <3>2. s.plan = planFromRecipe(id, "recipe") /\ s.level = 0
      BY DEF Session
    <3> HIDE DEF s
    <3>3. \A below : s \in below => Descends(s, s.plan.recipe, below)
      BY <1>0, <2>1, <3>2, LaunchDescends
    <3> QED
      BY <3>1, <3>2, <3>3, GrowthKeeps
  <2>2. CASE ~LaunchCompiles(id)
    <3>1. Refuses(0, "recipe", id)
      BY <1>2, <2>2 DEF v2RunRecipe
    <3> QED
      BY <2>2, <3>1, RefusalKeeps
  <2> QED
    BY <2>1, <2>2
<1>3. ASSUME NEW p, v2RunSuppliedPlan(p) PROVE PreflightInv'
  <2>1. Grows(Session(p, 0, "plan"))
    BY <1>3 DEF v2RunSuppliedPlan
  <2>2. Session(p, 0, "plan").by = "plan" /\ Session(p, 0, "plan").level = 0
    BY DEF Session
  <2> QED
    BY <2>1, <2>2, GrowthKeeps
<1>4. ASSUME NEW i \in DOMAIN tree, NEW slot, TakeStep(i, slot) PROVE PreflightInv'
  <2> DEFINE p == tree[i].plan
             actor == p.actors[slot]
             q == ForStaticChild(p, actor.recipe, actor.turns)
             t == Session(q, i, "step")
  <2>0. i \in 1..Len(tree) /\ tree # <<>> /\ i # 0
    BY DEF TreeInv
  <2>1. slot \in Participants(p) /\ actor.backend = "child"
    BY <1>4 DEF TakeStep
  <2>2. CASE StepCompiles(p, actor.recipe, actor.turns)
    <3>1. Grows(t)
      BY <1>4, <2>2 DEF TakeStep
    <3>2. t.plan = q /\ t.parent = i /\ t.level = tree[i].level + 1
      BY <2>0 DEF Session
    <3>3. actor.recipe \in Catalog
      BY <2>2 DEF StepCompiles
    <3>4. \A a \in DOMAIN tree : tree[a].level \in Nat /\ tree[a].plan.policy.depth \in Nat
      BY DEF TreeInv, Sound
    <3> HIDE DEF t
    <3>5. ASSUME Declared(i), NEW below, {tree[a] : a \in Line(i)} \cup {t} \subseteq below
          PROVE  Descends(t, tree[1].plan.recipe, below)
      <4>1. PICK s, root, above : /\ s = tree[i] /\ root = tree[1].plan.recipe
                                  /\ above = {tree[a] : a \in Line(i)}
                                  /\ Descends(s, root, above)
        BY <3>5 DEF PreflightInv, DescentInv
      <4>2. \A a \in above : a.level \in Nat
        BY <3>4, <4>1 DEF Line
      <4>3. /\ s.level \in Nat /\ s.plan.policy.depth \in Nat /\ s.plan = p
            /\ t.level = s.level + 1
            /\ t.plan = ForStaticChild(s.plan, s.plan.actors[slot].recipe,
                                       s.plan.actors[slot].turns)
        BY <3>2, <3>4, <4>1
      <4>4. Descends(t, root, below)
        BY <1>0, <2>1, <3>3, <3>5, <4>1, <4>2, <4>3, StepDescends
      <4> QED
        BY <4>1, <4>4
    <3> QED
      BY <2>0, <3>1, <3>2, <3>5, GrowthKeeps
  <2>3. CASE ~StepCompiles(p, actor.recipe, actor.turns)
    <3>1. Refuses(i, "step", actor.recipe)
      BY <1>4, <2>3 DEF TakeStep
    <3>2. Denied(actor.recipe, p)
      BY <2>1, <2>3 DEF Denied
    <3> QED
      BY <3>1, <3>2, RefusalKeeps
  <2> QED
    BY <2>2, <2>3
<1>5. ASSUME NEW i \in DOMAIN tree, Admit(i) PROVE PreflightInv'
  <2> DEFINE id == childRecipeForItem(tree[i].plan.policy)
             t == Session(ForChild(tree[i].plan, id), i, "request")
  <2>1. tree # <<>> /\ t.by = "request"
    BY DEF Session
  <2>2. Grows(t) \/ Refuses(i, "request", id)
    BY <1>5 DEF Admit
  <2> HIDE DEF t, id
  <2> QED
    BY <2>1, <2>2, GrowthKeeps, RefusalKeeps
<1>6. CASE UNCHANGED vars
  <2>1. DescentInv'
    BY <1>6, DescentSame DEF PreflightInv, vars
  <2>2. ASSUME NEW x \in refused'
        PROVE  /\ x.by = "recipe" => ~LaunchCompiles(x.recipe)'
               /\ x.by = "step" => /\ x.parent \in DOMAIN tree'
                                   /\ \E p : p = tree'[x.parent].plan /\ Denied(x.recipe, p)'
    BY <1>6, DenialsSame DEF PreflightInv, TreeInv, vars
  <2> QED
    BY <2>1, <2>2 DEF PreflightInv, DenialsInv
<1> QED
  BY <1>1, <1>2, <1>3, <1>4, <1>5, <1>6 DEF Next

\* It holds in every behaviour.
LEMMA PreflightHolds == Spec => []PreflightInv
  BY PreflightInit, PreflightStep, TreeSound, PTL DEF Spec

-----------------------------------------------------------------------------
(* What was said of a recipe before it was launched is true of its tree.   *)

\* What is executable has profiles that resolve.
LEMMA ExecutableResolved ==
  ASSUME NEW way, Executable(way), NEW id, Last(way) = id
  PROVE  Resolved(id)
BY DEF Executable, Resolved

\* A recipe that is executable, alone, is launched unless it asks and does not
\* resume.
LEMMA ExecutableLaunches ==
  ASSUME config \in Settings, NEW id \in DOMAIN config, rootExecutableIssues(id) = {},
         ~AsksWithoutResume(id)
  PROVE  LaunchCompiles(id)
<1> DEFINE p == planFromRecipe(id, "recipe")
<1>1. <<id>> \in Compositions(id)
  BY WaysGrow
<1>2. Last(<<id>>) = id
  BY DEF Last
<1>3. Resolved(id)
  BY <1>1, <1>2, ExecutableResolved DEF rootExecutableIssues
<1>4. Resolves(id)
  BY <1>3, ResolvedIsListed
<1>5. OfRecipe(p, id)
  <2>1. p.recipe = id
    BY DEF planFromRecipe
  <2> QED
    BY <2>1, Zenon DEF OfRecipe
<1>6. p.policy = recipeChildPolicy(config[id]) /\ p.turns = config[id].turns
      /\ p.provenance = "recipe"
  BY DEF planFromRecipe
<1>7. config[id].turns \in Nat \ {0}
  BY RecipeType DEF Recipe
<1> HIDE DEF p
<1>8. /\ p.policy \in Policy /\ p.policy.depth >= 0 /\ p.policy.children >= 0
      /\ p.policy.turns >= 0
  BY <1>6, RecipePolicy
<1>9. Valid(p)
  BY <1>3, <1>5, <1>6, <1>7, <1>8, RecipePlanValid
<1> QED
  BY <1>4, <1>9 DEF LaunchCompiles, p

\* A step of a session of an executable recipe is compiled while there is
\* depth, unless the recipe of the step asks and does not resume.
LEMMA ExecutableSteps ==
  ASSUME config \in Settings, NEW s, NEW root, NEW above, Descends(s, root, above),
         rootExecutableIssues(root) = {}, s.plan.policy.depth \in Nat,
         NEW id, Denied(id, s.plan), ~AsksWithoutResume(id)
  PROVE  /\ s.plan.policy.depth = 0
         /\ \E way \in Compositions(root) : Len(way) = s.level + 2 /\ Last(way) = id
<1> DEFINE of == s.plan.recipe
<1>1. OfRecipe(s.plan, of) /\ Resolves(of) /\ OnAWay(s, root)
  BY DEF Descends
<1>2. PICK slot \in Participants(s.plan) :
        /\ s.plan.actors[slot].backend = "child" /\ s.plan.actors[slot].recipe = id
        /\ ~StepCompiles(s.plan, id, s.plan.actors[slot].turns)
  BY DEF Denied
<1>3. PICK turns \in Nat : id \in Steps(of) \cap DOMAIN config /\ ~StepCompiles(s.plan, id, turns)
  BY <1>1, <1>2, StepsAre
<1>4. PICK way \in Ways(root)[s.level] :
        way \in Seq(Ids) /\ Len(way) = s.level + 1 /\ Last(way) = of
  BY <1>1 DEF OnAWay
<1>5. s.level \in 0..Len(Names)
  BY <1>1 DEF OnAWay
<1> DEFINE on == Append(way, id)
<1>6. Len(on) = s.level + 2 /\ Last(on) = id /\ on \in Compositions(root) /\ Executable(on)
  BY <1>3, <1>4, <1>5, WayGoesOn
<1> HIDE DEF on
<1>7. Resolved(id)
  BY <1>6, ExecutableResolved
<1>8. id \in Catalog
  BY <1>3, <1>7, ResolvedIsListed DEF Catalog
<1>9. ASSUME s.plan.policy.depth > 0 PROVE Valid(ForStaticChild(s.plan, id, turns))
  <2> DEFINE q == ForStaticChild(s.plan, id, turns)
  <2>1. /\ OfRecipe(q, id) /\ q.provenance = "child" /\ q.turns \in Nat \ {0}
        /\ q.policy.mode = recipeChildPolicy(config[id]).mode
        /\ q.policy \in Policy /\ q.policy.depth >= 0
        /\ q.policy.children >= 0 /\ q.policy.turns >= 0
    BY <1>3, <1>9, StepIsOfRecipe
  <2> HIDE DEF q
  <2>2. Valid(q)
    BY <1>7, <2>1, RecipePlanValid
  <2> QED
    BY <2>2 DEF q
<1>10. ~(s.plan.policy.depth > 0)
  BY <1>3, <1>8, <1>9 DEF StepCompiles
<1> QED
  BY <1>6, <1>10

\* What "recipes compile" passes can be launched and its child steps compiled,
\* whatever the recipes and profiles: the plan made of a checked recipe passes
\* Validate, and where the depth has run out at a step the preflight has counted
\* the levels down from the root, so a recipe between the two declared too few
\* (validation.go, child.go).
THEOREM PreflightIsSound == Spec => []PreflightSound
<1>1. TreeInv /\ PreflightInv => PreflightSound
  <2> SUFFICES ASSUME TreeInv, PreflightInv PROVE PreflightSound
    OBVIOUS
  <2>0. config \in Settings
    BY DEF PreflightInv, DescentInv
  <2>1. ASSUME NEW x \in refused, x.by = "recipe", x.recipe \in DOMAIN config, Preflight(x.recipe)
        PROVE  AsksWithoutResume(x.recipe)
    <3>1. ~LaunchCompiles(x.recipe)
      BY <2>1 DEF PreflightInv, DenialsInv
    <3>2. rootExecutableIssues(x.recipe) = {}
      BY <2>1 DEF Preflight
    <3> QED
      BY <2>0, <2>1, <3>1, <3>2, ExecutableLaunches
  <2>2. ASSUME NEW x \in refused, x.by = "step", Declared(x.parent),
               Preflight(tree[1].plan.recipe), ~AsksWithoutResume(x.recipe)
        PROVE  \E a \in Line(x.parent) \ {1} :
                 config[tree[a].plan.recipe].depth <= tree[x.parent].level - tree[a].level
    <3> DEFINE i == x.parent
               root == tree[1].plan.recipe
    <3>1. i \in DOMAIN tree
      BY <2>2 DEF PreflightInv, DenialsInv
    <3>2. Denied(x.recipe, tree[i].plan)
      BY <2>2 DEF PreflightInv, DenialsInv
    <3>3. Descends(tree[i], root, {tree[a] : a \in Line(i)})
      BY <2>2, <3>1 DEF PreflightInv, DescentInv
    <3>4. \A a \in DOMAIN tree : tree[a].level \in Nat /\ tree[a].plan.policy.depth \in Nat
      BY DEF TreeInv, Sound
    <3>5. rootExecutableIssues(root) = {}
      BY <2>2 DEF Preflight
    <3>6. /\ tree[i].plan.policy.depth = 0
          /\ \E way \in Compositions(root) : Len(way) = tree[i].level + 2 /\ Last(way) = x.recipe
      BY <2>0, <2>2, <3>1, <3>2, <3>3, <3>4, <3>5, ExecutableSteps
    <3>7. PICK a \in Line(i) : /\ tree[a].plan.recipe \in DOMAIN config
                               /\ config[tree[a].plan.recipe].depth
                                    = tree[i].plan.policy.depth + tree[i].level - tree[a].level
      BY <3>3 DEF Descends
    <3>8. a \in DOMAIN tree
      BY DEF Line
    <3>9. config[tree[a].plan.recipe].depth = tree[i].level - tree[a].level
      BY <3>1, <3>4, <3>6, <3>7, <3>8
    <3>10. a # 1
      <4> SUFFICES ASSUME a = 1 PROVE FALSE
        OBVIOUS
      <4>1. tree[1].level = 0
        BY <3>1 DEF PreflightInv, DescentInv
      <4>2. config[root].depth = tree[i].level /\ config[root].depth \in Nat \ {0}
        <5>1. root \in DOMAIN config /\ config[root].depth = tree[i].level - tree[1].level
          BY <3>7, <3>9
        <5>2. config[root] \in Recipe
          BY <2>0, <5>1, RecipeType
        <5>3. config[root].depth \in Nat \ {0}
          BY <5>2 DEF Recipe
        <5>4. tree[i].level \in Nat
          BY <3>1, <3>4
        <5> HIDE DEF root, i
        <5> QED
          BY <4>1, <5>1, <5>3, <5>4
      <4>3. PICK way \in Compositions(root) : Len(way) = tree[i].level + 2
        BY <3>6
      <4>4. Len(way) > 1 /\ Len(way) > 2
        BY <3>1, <3>4, <4>2, <4>3
      <4>5. Len(way) - 1 <= config[root].depth
        BY <2>2, <4>4 DEF Preflight
      <4> QED
        BY <4>2, <4>3, <4>5
    <3> QED
      BY <3>1, <3>4, <3>8, <3>9, <3>10
  <2> QED
    BY <2>1, <2>2 DEF PreflightSound
<1> QED
  BY <1>1, TreeSound, PreflightHolds, PTL

\* The providers of a recipe on a way are in the closure of the root.
LEMMA ClosureHas ==
  ASSUME NEW root, NEW way \in Compositions(root), NEW ref, ~IsStep(ref),
         \/ ref \in Range(config[Last(way)].participants)
         \/ ref = config[Last(way)].facilitator
         \/ /\ Len(way) > 1 \/ config[root].source = "reducer"
            /\ ref = config[Last(way)].reducer
  PROVE  Profiles[ref].backend \in ResolveBackendClosure(root)
<1> DEFINE BackendOf(p) == Profiles[p].backend
           Refs(r) == {p \in Range(r.participants) : ~IsStep(p)} \cup {r.facilitator}
           Asked(w) == Refs(config[Last(w)])
                         \cup (IF Len(w) > 1 \/ config[root].source = "reducer"
                               THEN {config[Last(w)].reducer} ELSE {})
           branch(w) == {BackendOf(p) : p \in Asked(w)}
<1>1. ResolveBackendClosure(root) = UNION {branch(w) : w \in Compositions(root)}
  BY Zenon DEF ResolveBackendClosure
<1>2. ref \in Asked(way)
  OBVIOUS
<1> HIDE DEF Asked
<1>3. BackendOf(ref) \in branch(way)
  BY <1>2
<1> HIDE DEF branch
<1> QED
  BY <1>1, <1>3

\* Every backend that a session of an executable recipe may call, however deep
\* below it, is in the closure that readiness asks for, whatever the recipes and
\* profiles: its actors are made of profiles of a recipe on one of the root's
\* ways (readiness/closure.go).
THEOREM BackendsAreProbed == Spec => []BackendsProbed
<1>1. TreeInv /\ PreflightInv => BackendsProbed
  <2> SUFFICES ASSUME TreeInv, PreflightInv, NEW i \in DOMAIN tree, Declared(i),
                      rootExecutableIssues(tree[1].plan.recipe) = {},
                      NEW slot \in DOMAIN tree[i].plan.actors
               PROVE  tree[i].plan.actors[slot].backend
                        \in ResolveBackendClosure(tree[1].plan.recipe) \cup {"child"}
    BY DEF BackendsProbed
  <2>0. config \in Settings
    BY DEF PreflightInv, DescentInv
  <2>1. PICK s, root, above : /\ s = tree[i] /\ root = tree[1].plan.recipe
                              /\ Descends(s, root, above)
    BY DEF PreflightInv, DescentInv
  <2> DEFINE id == s.plan.recipe
             ref == Slots(id)[slot]
  <2>2. OfRecipe(s.plan, id) /\ OnAWay(s, root)
    BY <2>1 DEF Descends
  <2>3. PICK way \in Ways(root)[s.level] : Len(way) = s.level + 1 /\ Last(way) = id
    BY <2>2 DEF OnAWay
  <2>4. s.level \in 0..Len(Names) /\ way \in Compositions(root)
    BY <2>2, <2>3, WaysGrow DEF OnAWay
  <2>5. slot \in DOMAIN Slots(id) /\ s.plan.actors[slot] = actorFromProfile(ref)
    BY <2>0, <2>1, <2>2, ActorsOf
  <2>6. ASSUME Len(way) = 1 PROVE id = root
    <3>1. Len(Names) \in Nat
      BY WaysGrow
    <3>2. Ways(root)[0] = {<<root>>}
      <4>1. 0 \in 0..Len(Names)
        BY <3>1
      <4> HIDE DEF id
      <4> QED
        BY <3>1, <4>1, WaysAre
    <3>3. way = <<root>>
      BY <2>3, <2>4, <2>6, <3>1, <3>2
    <3> QED
      BY <2>3, <3>3 DEF Last
  <2> HIDE DEF id
  <2>7. \/ ref \in Range(config[id].participants)
        \/ ref = config[id].facilitator
        \/ config[id].source = "reducer" /\ ref = config[id].reducer
    <3>1. id \in DOMAIN config
      BY <2>2 DEF OfRecipe
    <3> HIDE DEF ref
    <3>2. \/ ref \in Range(config[id].participants)
          \/ ref \in {config[id].facilitator}
                       \cup (IF config[id].source = "reducer" THEN {config[id].reducer} ELSE {})
      BY <2>0, <2>5, <3>1, RefsAre, Zenon DEF ref
    <3> QED
      BY <3>2
  <2>8. config[id].source = "reducer" => Len(way) > 1 \/ config[root].source = "reducer"
    BY <2>3, <2>4, <2>6
  <2> HIDE DEF ref
  <2>9. CASE IsStep(ref)
    <3>1. actorFromProfile(ref).backend = "child"
      BY <2>9, Zenon DEF actorFromProfile
    <3> QED
      BY <2>1, <2>5, <3>1
  <2>10. CASE ~IsStep(ref)
    <3>1. actorFromProfile(ref).backend = Profiles[ref].backend
      BY <2>10, Zenon DEF actorFromProfile
    <3>2. Profiles[ref].backend \in ResolveBackendClosure(root)
      BY <2>3, <2>4, <2>7, <2>8, <2>10, ClosureHas
    <3> QED
      BY <2>1, <2>5, <3>1, <3>2
  <2> QED
    BY <2>9, <2>10
<1> QED
  BY <1>1, TreeSound, PreflightHolds, PTL
=============================================================================
