------------------------- MODULE Composition_proofs -------------------------
(* Proofs about Composition: plans stay valid and nesting ends.            *)
EXTENDS Composition, FiniteSetTheorems, TLAPS

\* What the proofs need of the tree: it is a sequence, each plan is valid and
\* has an integer depth, parents come first, and depth is spent by levels.
Sound(s, root, n) ==
  /\ s.parent \in 0..(n - 1) /\ (s.parent = 0 <=> n = 1)
  /\ s.by \in Origins
  /\ Valid(s.plan)
  /\ s.plan.policy.depth \in Nat /\ s.level \in Nat
  /\ root.plan.policy.depth \in Nat
  /\ s.level + s.plan.policy.depth <= root.plan.policy.depth

TreeInv == /\ \E X : tree \in Seq(X)
           /\ \A i \in 1..Len(tree) : Sound(tree[i], tree[1], i)

\* A valid plan has a depth that is not negative.
LEMMA ValidDepth ==
  ASSUME NEW p, Valid(p)
  PROVE  p.policy.depth \in Nat
<1>1. p.policy \in Policy /\ p.policy.depth >= 0
  BY DEF Valid
<1>2. p.policy.depth \in Int
  BY <1>1 DEF Policy
<1> QED
  BY <1>1, <1>2

\* What a child step and a request leave of the depth of their parent.
LEMMA ChildDepth ==
  ASSUME NEW parent, NEW id, NEW turns, parent.policy.depth \in Nat
  PROVE  /\ Valid(ForStaticChild(parent, id, turns))
              => ForStaticChild(parent, id, turns).policy.depth < parent.policy.depth
         /\ Valid(ForChild(parent, id))
              => ForChild(parent, id).policy.depth < parent.policy.depth
<1> DEFINE own == recipeChildPolicy(config[id])
           step == ForStaticChild(parent, id, turns)
           asked == ForChild(parent, id)
<1>1. step.policy = remainingStaticChildPolicy(own, parent.policy)
  BY DEF ForStaticChild, childPlan, planFromRecipe
<1>2. asked.policy = remainingChildPolicy(own, parent.policy)
  BY DEF ForChild, childPlan, planFromRecipe
<1>3. step.policy.depth = Minimum(own.depth, parent.policy.depth - 1)
  BY <1>1 DEF remainingStaticChildPolicy, recipeChildPolicy, defaultPolicy
<1>4. asked.policy.depth = Minimum(own.depth, parent.policy.depth - 1)
  BY <1>2 DEF remainingChildPolicy, recipeChildPolicy, defaultPolicy
<1>5. ASSUME Valid(step) PROVE step.policy.depth < parent.policy.depth
  BY <1>3, <1>5, ValidDepth DEF Minimum
<1>6. ASSUME Valid(asked) PROVE asked.policy.depth < parent.policy.depth
  BY <1>4, <1>6, ValidDepth DEF Minimum
<1> QED
  BY <1>5, <1>6

\* A session that is sound where it is appended keeps the tree sound.
LEMMA GrowKeeps ==
  ASSUME TreeInv, NEW s, tree' = Append(tree, s),
         Sound(s, IF tree = <<>> THEN s ELSE tree[1], Len(tree) + 1)
  PROVE  TreeInv'
<1>1. PICK X : tree \in Seq(X)
  BY DEF TreeInv
<1> DEFINE Y == X \cup {s}
           n == Len(tree)
<1>2. tree \in Seq(Y) /\ tree' \in Seq(Y) /\ n \in Nat /\ Len(tree') = n + 1
  BY <1>1
<1>3. /\ tree'[n + 1] = s
      /\ \A i \in 1..n : tree'[i] = tree[i]
  BY <1>1, <1>2
<1>4. tree'[1] = IF tree = <<>> THEN s ELSE tree[1]
  <2>1. CASE tree = <<>>
    BY <2>1, <1>3
  <2>2. CASE tree # <<>>
    <3>1. 1 \in 1..n
      BY <2>2, <1>1, <1>2
    <3> QED
      BY <2>2, <3>1, <1>3
  <2> QED
    BY <2>1, <2>2
<1>5. ASSUME NEW i \in 1..Len(tree') PROVE Sound(tree'[i], tree'[1], i)
  <2>1. CASE i = n + 1
    BY <2>1, <1>3, <1>4
  <2>2. CASE i \in 1..n
    <3>1. tree # <<>>
      BY <2>2, <1>2
    <3>2. Sound(tree[i], tree[1], i)
      BY <2>2 DEF TreeInv
    <3> QED
      BY <2>2, <3>1, <3>2, <1>3, <1>4
  <2> QED
    BY <2>1, <2>2, <1>2
<1> QED
  BY <1>2, <1>5 DEF TreeInv

\* A launch: any valid plan is a sound root.
LEMMA LaunchKeeps ==
  ASSUME TreeInv, tree = <<>>, NEW p, Valid(p), NEW by \in Origins, Grows(Session(p, 0, by))
  PROVE  TreeInv'
<1> DEFINE s == Session(p, 0, by)
<1>1. s.plan = p /\ s.parent = 0 /\ s.by = by /\ s.level = 0
  BY DEF Session
<1>2. p.policy.depth \in Nat
  BY ValidDepth
<1>3. Len(tree) = 0
  OBVIOUS
<1>4. Sound(s, s, 1)
  BY <1>1, <1>2 DEF Sound
<1>5. tree' = Append(tree, s)
  BY DEF Grows
<1> QED
  BY <1>3, <1>4, <1>5, GrowKeeps

\* A child: a valid plan with less depth than its parent is sound below it.
LEMMA ChildKeeps ==
  ASSUME TreeInv, NEW i \in DOMAIN tree, NEW p, Valid(p),
         NEW by \in {"step", "request"},
         p.policy.depth < tree[i].plan.policy.depth, Grows(Session(p, i, by))
  PROVE  TreeInv'
<1> DEFINE s == Session(p, i, by)
           n == Len(tree)
<1>1. i \in 1..n /\ n \in Nat /\ tree # <<>>
  BY DEF TreeInv
<1>2. Sound(tree[i], tree[1], i)
  BY <1>1 DEF TreeInv
<1>3. s.plan = p /\ s.parent = i /\ s.by = by /\ s.level = tree[i].level + 1
  BY <1>1 DEF Session
<1>4. p.policy.depth \in Nat
  BY ValidDepth
<1>5. /\ tree[i].level \in Nat /\ tree[i].plan.policy.depth \in Nat
      /\ tree[1].plan.policy.depth \in Nat
      /\ tree[i].level + tree[i].plan.policy.depth <= tree[1].plan.policy.depth
  BY <1>2 DEF Sound
<1>6. s.level \in Nat /\ s.level + s.plan.policy.depth <= tree[1].plan.policy.depth
  BY <1>3, <1>4, <1>5
<1>7. s.parent \in 0..((n + 1) - 1) /\ (s.parent = 0 <=> n + 1 = 1)
  BY <1>1, <1>3
<1>8. Sound(s, tree[1], n + 1)
  BY <1>3, <1>4, <1>5, <1>6, <1>7 DEF Sound, Origins
<1>9. tree' = Append(tree, s)
  BY DEF Grows
<1> QED
  BY <1>1, <1>8, <1>9, GrowKeeps

LEMMA TreeInit == Init => TreeInv
<1> SUFFICES ASSUME Init PROVE TreeInv
  OBVIOUS
<1>1. tree = <<>> /\ tree \in Seq({})
  BY DEF Init
<1>2. Len(tree) = 0
  BY <1>1
<1> QED
  BY <1>1, <1>2 DEF TreeInv

LEMMA TreeStep == TreeInv /\ [Next]_vars => TreeInv'
<1> SUFFICES ASSUME TreeInv, [Next]_vars PROVE TreeInv'
  OBVIOUS
<1>0. ASSUME tree' = tree PROVE TreeInv'
  BY <1>0 DEF TreeInv
<1>1. ASSUME NEW agents, NEW dynamic, NEW rounds, NEW maxRounds,
             v2RunOrdinary(agents, dynamic, rounds, maxRounds)
      PROVE  TreeInv'
  <2> DEFINE p == FromFlags(agents, dynamic, rounds, maxRounds)
  <2>1. tree = <<>> /\ Valid(p) /\ Grows(Session(p, 0, "flags"))
    BY <1>1 DEF v2RunOrdinary
  <2> HIDE DEF p
  <2> QED
    BY <2>1, LaunchKeeps DEF Origins
<1>2. ASSUME NEW id, v2RunRecipe(id) PROVE TreeInv'
  <2> DEFINE p == planFromRecipe(id, "recipe")
  <2>1. CASE LaunchCompiles(id)
    <3>1. tree = <<>> /\ Valid(p) /\ Grows(Session(p, 0, "recipe"))
      BY <1>2, <2>1 DEF v2RunRecipe, LaunchCompiles
    <3> HIDE DEF p
    <3> QED
      BY <3>1, LaunchKeeps DEF Origins
  <2>2. CASE ~LaunchCompiles(id)
    BY <1>0, <1>2, <2>2 DEF v2RunRecipe, Refuses
  <2> QED
    BY <2>1, <2>2
<1>3. ASSUME NEW p, v2RunSuppliedPlan(p) PROVE TreeInv'
  BY <1>3, LaunchKeeps DEF v2RunSuppliedPlan, Origins
<1>4. ASSUME NEW i \in DOMAIN tree, NEW slot, TakeStep(i, slot) PROVE TreeInv'
  <2> DEFINE actor == tree[i].plan.actors[slot]
             p == ForStaticChild(tree[i].plan, actor.recipe, actor.turns)
  <2>1. CASE StepCompiles(tree[i].plan, actor.recipe, actor.turns)
    <3>1. Valid(p) /\ Grows(Session(p, i, "step"))
      BY <1>4, <2>1 DEF TakeStep, StepCompiles
    <3>2. tree[i].plan.policy.depth \in Nat
      BY DEF TreeInv, Sound
    <3>3. p.policy.depth < tree[i].plan.policy.depth
      BY <3>1, <3>2, ChildDepth
    <3> HIDE DEF p
    <3> QED
      BY <3>1, <3>3, ChildKeeps
  <2>2. CASE ~StepCompiles(tree[i].plan, actor.recipe, actor.turns)
    BY <1>0, <1>4, <2>2 DEF TakeStep, Refuses
  <2> QED
    BY <2>1, <2>2
<1>5. ASSUME NEW i \in DOMAIN tree, Admit(i) PROVE TreeInv'
  <2> DEFINE id == childRecipeForItem(tree[i].plan.policy)
             p == ForChild(tree[i].plan, id)
  <2>1. CASE Admissible(i, id)
    <3>1. Valid(p) /\ Grows(Session(p, i, "request"))
      BY <1>5, <2>1 DEF Admit, Admissible, RequestCompiles
    <3>2. tree[i].plan.policy.depth \in Nat
      BY DEF TreeInv, Sound
    <3>3. p.policy.depth < tree[i].plan.policy.depth
      BY <3>1, <3>2, ChildDepth
    <3> HIDE DEF p
    <3> QED
      BY <3>1, <3>3, ChildKeeps
  <2>2. CASE ~Admissible(i, id)
    BY <1>0, <1>5, <2>2 DEF Admit, Refuses
  <2> QED
    BY <2>1, <2>2
<1>6. CASE UNCHANGED vars
  BY <1>0, <1>6 DEF vars
<1>7. CASE Next
  BY <1>1, <1>2, <1>3, <1>4, <1>5, <1>7 DEF Next
<1> QED
  BY <1>6, <1>7

LEMMA TreeSound == Spec => []TreeInv
  BY TreeInit, TreeStep, PTL DEF Spec

\* Nesting ends: whatever recipes there are and however they name each other,
\* no session is more levels below the root than the root's max_depth (child.go).
THEOREM NestingEnds == Spec => []DepthSpent
<1>1. TreeInv => DepthSpent
  <2> SUFFICES ASSUME TreeInv, NEW i \in DOMAIN tree
               PROVE  /\ tree[i].plan.policy.depth >= 0
                      /\ tree[i].level + tree[i].plan.policy.depth <= tree[1].plan.policy.depth
    BY DEF DepthSpent
  <2>1. Sound(tree[i], tree[1], i)
    BY DEF TreeInv
  <2> QED
    BY <2>1 DEF Sound
<1> QED
  BY <1>1, TreeSound, PTL

\* Every step adds one session, or one refusal, or changes nothing.
LEMMA StepShape ==
  ASSUME TreeInv, [Next]_vars
  PROVE  \/ \E s : Grows(s)
         \/ \E id : \E i \in 0..Len(tree), by \in Origins : Refuses(i, by, id)
         \/ UNCHANGED vars
<1> DEFINE Goal == \/ \E s : Grows(s)
                   \/ \E id : \E i \in 0..Len(tree), by \in Origins :
                        Refuses(i, by, id)
                   \/ UNCHANGED vars
<1>0. /\ Len(tree) \in Nat /\ DOMAIN tree = 1..Len(tree)
      /\ 0 \in 0..Len(tree) /\ \A i \in DOMAIN tree : i \in 0..Len(tree)
  BY DEF TreeInv
<1>1. ASSUME NEW agents, NEW dynamic, NEW rounds, NEW maxRounds,
             v2RunOrdinary(agents, dynamic, rounds, maxRounds)
      PROVE  Goal
  BY <1>1 DEF v2RunOrdinary
<1>2. ASSUME NEW id, v2RunRecipe(id) PROVE Goal
  BY <1>0, <1>2 DEF v2RunRecipe, Origins
<1>3. ASSUME NEW p, v2RunSuppliedPlan(p) PROVE Goal
  BY <1>3 DEF v2RunSuppliedPlan
<1>4. ASSUME NEW i \in DOMAIN tree, NEW slot, TakeStep(i, slot) PROVE Goal
  BY <1>0, <1>4 DEF TakeStep, Origins
<1>5. ASSUME NEW i \in DOMAIN tree, Admit(i) PROVE Goal
  BY <1>0, <1>5 DEF Admit, Origins
<1> QED
  BY <1>1, <1>2, <1>3, <1>4, <1>5 DEF Next

\* Every plan in the tree, launched, supplied, declared as a step or requested,
\* is one that Validate takes, and a session comes after its parent.
THEOREM PlansStayValid == Spec => []CompositionTypeOK
<1> DEFINE Rest == /\ config \in Settings /\ Len(tree) <= MaxSessions
                   /\ \A x \in refused : /\ x.parent \in 0..Len(tree)
                                         /\ x.by \in Origins
<1>1. Init => Rest
  <2> SUFFICES ASSUME Init PROVE Rest
    OBVIOUS
  <2>1. Len(tree) = 0 /\ 0 <= MaxSessions
    BY BoundAssumption DEF Init
  <2> QED
    BY <2>1 DEF Init
<1>2. TreeInv /\ Rest /\ [Next]_vars => Rest'
  <2> SUFFICES ASSUME TreeInv, Rest, [Next]_vars PROVE Rest'
    OBVIOUS
  <2>0. Len(tree) \in Nat
    BY DEF TreeInv
  <2>1. ASSUME NEW s, Grows(s) PROVE Rest'
    <3>1. PICK X : tree \in Seq(X)
      BY DEF TreeInv
    <3>2. Len(tree) < MaxSessions /\ tree' = Append(tree, s) /\ config' = config /\ refused' = refused
      BY <2>1 DEF Grows
    <3>3. tree \in Seq(X \cup {s})
      BY <3>1
    <3>4. Len(tree') = Len(tree) + 1
      BY <3>2, <3>3
    <3>5. MaxSessions \in Nat
      BY BoundAssumption
    <3>6. Len(tree') <= MaxSessions
      BY <2>0, <3>2, <3>4, <3>5
    <3>7. ASSUME NEW x \in refused' PROVE x.parent \in 0..Len(tree')
      <4>1. x.parent \in 0..Len(tree)
        BY <3>2
      <4> QED
        BY <4>1, <2>0, <3>4
    <3> QED
      BY <3>2, <3>6, <3>7
  <2>2. ASSUME NEW i \in 0..Len(tree), NEW by \in Origins, NEW id,
               Refuses(i, by, id)
        PROVE  Rest'
    <3>1. tree' = tree /\ config' = config /\ refused' = refused \cup {Refusal(i, by, id)}
      BY <2>2 DEF Refuses
    <3>2. Refusal(i, by, id).parent = i /\ Refusal(i, by, id).by = by
      BY DEF Refusal
    <3>3. ASSUME NEW x \in refused'
          PROVE  x.parent \in 0..Len(tree) /\ x.by \in Origins
      BY <3>1, <3>2
    <3> QED
      BY <3>1, <3>3
  <2>3. ASSUME UNCHANGED vars PROVE Rest'
    BY <2>3 DEF vars
  <2> QED
    BY <2>1, <2>2, <2>3, StepShape
<1>3. TreeInv /\ Rest => CompositionTypeOK
  <2> SUFFICES ASSUME TreeInv, Rest, NEW i \in DOMAIN tree
               PROVE  /\ tree[i].parent \in 0..(i - 1) /\ (tree[i].parent = 0 <=> i = 1)
                      /\ tree[i].by \in Origins /\ Valid(tree[i].plan)
    BY DEF CompositionTypeOK
  <2>1. Sound(tree[i], tree[1], i)
    BY DEF TreeInv
  <2> QED
    BY <2>1 DEF Sound
<1> HIDE DEF Rest
<1>4. Spec => []Rest
  <2>1. Rest /\ TreeInv /\ [Next]_vars => Rest'
    BY <1>2
  <2> QED
    BY <1>1, <2>1, TreeSound, PTL DEF Spec
<1> QED
  BY <1>3, <1>4, TreeSound, PTL

\* A session without children has spent no turns on them.
LEMMA SpentNothing ==
  ASSUME NEW i, Children(i) = {} PROVE Spent(i) = 0
<1> DEFINE add(j, sum) == tree[j].plan.turns + sum
           pick(s)  == CHOOSE x \in s : TRUE
           Is(g, S) == g = [s \in SUBSET S |-> IF s = {} THEN 0 ELSE add(pick(s), g[s \ {pick(s)}])]
           fold     == CHOOSE g : Is(g, {})
<1>1. Is([s \in {{}} |-> 0], {})
  OBVIOUS
<1>2. Is(fold, {})
  BY <1>1
<1>3. fold[{}] = 0
  BY <1>2
<1>4. Spent(i) = fold[{}]
  BY DEF Spent, FoldSet, MapThenFoldSet
<1> QED
  BY <1>3, <1>4

\* What is left to a requested child is a policy, with the mode of its recipe.
LEMMA RemainingPolicy ==
  ASSUME NEW own \in Policy, NEW parent \in Policy,
         own.depth >= 0, own.children >= 0, own.turns >= 0,
         parent.depth > 0, parent.children > 0, parent.turns > 0
  PROVE  LET left == remainingChildPolicy(own, parent)
         IN /\ left \in Policy /\ left.mode = own.mode
            /\ left.depth >= 0 /\ left.children >= 0 /\ left.turns >= 0
<1> DEFINE left == remainingChildPolicy(own, parent)
<1>1. /\ own.depth \in Int /\ own.children \in Int /\ own.turns \in Int
      /\ parent.depth \in Int /\ parent.children \in Int /\ parent.turns \in Int
  BY DEF Policy
<1>2. ASSUME NEW a \in Int, NEW b \in Int, a >= 0, b > 0
      PROVE  Minimum(a, b - 1) \in Int /\ Minimum(a, b - 1) >= 0
  BY <1>2 DEF Minimum
<1>3. /\ left.mode = own.mode /\ left.depth = Minimum(own.depth, parent.depth - 1)
      /\ left.children = Minimum(own.children, parent.children - 1)
      /\ left.turns = Minimum(own.turns, parent.turns - 1)
  BY DEF remainingChildPolicy, Policy
<1>4. /\ left.depth \in Int /\ left.depth >= 0
      /\ left.children \in Int /\ left.children >= 0
      /\ left.turns \in Int /\ left.turns >= 0
  BY <1>1, <1>2, <1>3
<1>5. left = [own EXCEPT !.depth = left.depth, !.children = left.children, !.turns = left.turns]
  BY <1>3 DEF remainingChildPolicy
<1> HIDE DEF left
<1>6. left \in Policy
  BY <1>4, <1>5 DEF Policy
<1> QED
  BY <1>3, <1>4, <1>6 DEF left

\* A recipe that can be launched compiles under any parent that may have a
\* child, to no more turns than the parent has for its children.
LEMMA LaunchedCanBeChild ==
  ASSUME NEW p, Valid(p), NEW id, LaunchCompiles(id),
         p.policy.depth > 0, p.policy.children > 0, p.policy.turns > 0
  PROVE  /\ Valid(ForChild(p, id)) /\ ForChild(p, id).turns <= p.policy.turns
         /\ ForChild(p, id).turns \in Nat
<1> DEFINE q    == planFromRecipe(id, "recipe")
           c    == ForChild(p, id)
           own  == recipeChildPolicy(config[id])
           room == Minimum(p.turns, p.policy.turns)
<1>1. Valid(q)
  BY DEF LaunchCompiles
<1>2. /\ p.turns \in Nat \ {0} /\ p.policy \in Policy
      /\ q.turns \in Nat \ {0} /\ q.policy \in Policy
      /\ q.policy.depth >= 0 /\ q.policy.children >= 0 /\ q.policy.turns >= 0
  BY <1>1 DEF Valid
<1>3. /\ q.policy = own /\ q.provenance = "recipe"
      /\ c.policy = remainingChildPolicy(own, p.policy)
      /\ c.turns = Minimum(q.turns, room) /\ c.provenance = "child"
  BY DEF ForChild, childPlan, planFromRecipe
<1>4. /\ c.recipe = q.recipe /\ c.actors = q.actors /\ c.kind = q.kind /\ c.order = q.order
      /\ c.facilitator = q.facilitator /\ c.reducer = q.reducer /\ c.source = q.source
      /\ c.retry = q.retry /\ c.attempts = q.attempts
      /\ c.resume = q.resume /\ c.dynamic = q.dynamic
  BY DEF ForChild, childPlan, planFromRecipe
<1>5. q.kind = "dialogue"
  BY DEF planFromRecipe
<1>6. p.policy.turns \in Int
  BY <1>2 DEF Policy
<1>7. c.turns \in Nat \ {0} /\ c.turns <= p.policy.turns
  BY <1>2, <1>3, <1>6 DEF Minimum
<1>8. /\ c.policy \in Policy /\ c.policy.mode = q.policy.mode
      /\ c.policy.depth >= 0 /\ c.policy.children >= 0 /\ c.policy.turns >= 0
  BY <1>2, <1>3, RemainingPolicy
<1>9. Controls(c) = Controls(q) /\ Participants(c) = Participants(q)
  BY <1>4 DEF Controls, Participants
<1> HIDE DEF q, c
<1>10. Valid(c)
  <2>1. q.recipe # ""
    BY <1>1, <1>3 DEF Valid
  <2>2. /\ \A slot \in DOMAIN c.actors : ValidActor(c.actors[slot])
        /\ {c.facilitator, c.reducer} \subseteq DOMAIN c.actors \cup {""}
        /\ \A slot \in Controls(c) : c.actors[slot].backend # "child"
    BY <1>1, <1>4, <1>9 DEF Valid
  <2>3. c.order = <<>> /\ Cardinality(Participants(c)) = 2 /\ c.kind = "dialogue"
    BY <1>1, <1>4, <1>5, <1>9 DEF Valid
  <2>4. /\ c.attempts >= 1 /\ (c.retry = "forbid" => c.attempts = 1)
        /\ c.source = "reducer" => c.reducer # ""
        /\ ~c.dynamic => c.policy.mode = "deny"
        /\ ~c.resume => c.policy.mode # "ask"
    BY <1>1, <1>4, <1>8 DEF Valid
  <2> QED
    BY <1>3, <1>4, <1>7, <1>8, <2>1, <2>2, <2>3, <2>4 DEF Valid
<1> QED
  BY <1>7, <1>10 DEF c

\* A first request is never lost between the compiler and the engine's limits:
\* if its recipe can be launched, ForChild compiles it to a plan that admitChild
\* has room for (child.go, engine.go admitChild).
THEOREM FirstRequestIsServed == Spec => []FirstRequestServed
<1>1. TreeInv => FirstRequestServed
  <2> SUFFICES ASSUME TreeInv, NEW i \in DOMAIN tree, NEW id,
                      Children(i) = {}, tree[i].plan.policy.mode # "deny",
                      tree[i].plan.policy.allowed = <<>>, tree[i].plan.policy.depth > 0,
                      tree[i].plan.policy.children > 0, tree[i].plan.policy.turns > 0,
                      LaunchCompiles(id)
               PROVE  Admissible(i, id)
    BY DEF FirstRequestServed
  <2> DEFINE p == tree[i].plan
  <2>1. Valid(p)
    BY DEF TreeInv, Sound
  <2>2. /\ Valid(ForChild(p, id)) /\ ForChild(p, id).turns <= p.policy.turns
        /\ ForChild(p, id).turns \in Nat
    BY <2>1, LaunchedCanBeChild
  <2>3. id \in Catalog
    BY DEF LaunchCompiles, Catalog, Resolves
  <2>4. RequestCompiles(p, id)
    BY <2>2, <2>3 DEF RequestCompiles, childRequestAllowed
  <2>5. Cardinality(Children(i)) = 0 /\ Spent(i) = 0
    BY SpentNothing, FS_EmptySet
  <2> QED
    BY <2>2, <2>4, <2>5 DEF Admissible
<1> QED
  BY <1>1, TreeSound, PTL
=============================================================================
