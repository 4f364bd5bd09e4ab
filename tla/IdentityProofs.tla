---------------------------- MODULE IdentityProofs ----------------------------
(***************************************************************************)
(* What Identity.tla promises, for any number of variables and worlds, and *)
(* in the last part what Pruning.tla does, which takes its rows away again.*)
(*                                                                         *)
(* A merge is many steps, and they interleave worlds: a link is staged for *)
(* the worlds of one pair of representatives and one pair of ranks, and    *)
(* then written row by row.  The invariant says where each single world    *)
(* is: Todo, a link of it is still to be staged; Staged, one was; Wrote,   *)
(* the row of one edit is in the staged root.  In every world the staged   *)
(* root then holds the old forest, with just what was written of one link. *)
(* When the merge is done nothing is to do or to be written, so the staged *)
(* root holds in every world the forest with exactly one link, of the two  *)
(* representatives the old root has there, or no link if they are the same *)
(* one.  That is the step of UnionFind.tla.                                *)
(*                                                                         *)
(* A prune marks upward from what is named.  What is marked or pending is  *)
(* needed; and once nothing is pending, what is marked is closed, so it is *)
(* all that is needed.  A certificate says that its root is its own prune  *)
(* but for the dirty rows.                                                 *)
(***************************************************************************)
EXTENDS Identity, Pruning, FiniteSetTheorems, NaturalsInduction, TLAPS

(* What UnionFindProofs.tla proves of forests, for the forests of the rows *)
U == INSTANCE UnionFindProofs WITH
    parent <- [w \in World |-> ParentIn(rows, w)],
    rank <- [w \in World |-> RankIn(rows, w)]

(* The forest and the ranks of a world of the current root.                *)
P(w) == ParentIn(rows, w)
K(w) == RankIn(rows, w)

(* The rows of a root hold, in one world, these parents and ranks.         *)
ParentFits(root, w, parent) ==
    \A v, p \in Var : w \in root.PARENT[v][p] <=> parent[v] = p /\ p # v

ChildFits(root, w, parent) ==
    \A v, p \in Var : w \in root.CHILD[p][v] <=> parent[v] = p /\ p # v

RankFits(root, w, ranks) ==
    \A v \in Var, k \in Rank : w \in root.RANK[v][k] <=> ranks[v] = k

(* A representative's class is larger than its rank, and exponentially so. *)
Sized(parent, ranks) ==
    \A v \in Var : IsRoot(parent, v) =>
        /\ Power[ranks[v]] <= Cardinality(Class(parent, v))
        /\ ranks[v] + 1 <= Cardinality(Class(parent, v))

(* One world of the current root.                                          *)
WorldSound(w) ==
    /\ P(w) \in [Var -> Var] /\ K(w) \in [Var -> {0} \cup Rank]
    /\ ParentFits(rows, w, P(w)) /\ ChildFits(rows, w, P(w)) /\ RankFits(rows, w, K(w))
    /\ Rooted(P(w)) /\ Sized(P(w), K(w))

-----------------------------------------------------------------------------
(* The running merge, in one world.                                        *)

(* The two representatives, and who wins their link.                       *)
Lft(w) == Root(P(w), m.x)
Rgt(w) == Root(P(w), m.y)
Reps(w) == <<Lft(w), Rgt(w)>>
Linkable(w) == w \in m.scope /\ Lft(w) # Rgt(w)
Winner(w) == IF Forests!Wins(K(w), Lft(w), Rgt(w)) THEN Lft(w) ELSE Rgt(w)
Loser(w) == IF Forests!Wins(K(w), Lft(w), Rgt(w)) THEN Rgt(w) ELSE Lft(w)
Tied(w) == K(w)[Lft(w)] = K(w)[Rgt(w)]

Ranking == {"LeftRank", "RightRank", "Edits"}

(* The pair of the world, or the world within it, is still to come.        *)
Todo(w) ==
    \/ m.phase \in {"Left", "Right"}
    \/ Reps(w) \in m.pairs
    \/ Reps(w) = m.pair /\ (\/ m.phase = "Support"
                            \/ m.phase \in Ranking /\ w \in m.lefts
                            \/ m.phase \in {"RightRank", "Edits"} /\ w \in m.rights)

(* The link of the world was staged; an edit of it is waiting; it is done. *)
Staged(w) == Linkable(w) /\ ~Todo(w)

Waiting(w, edit) ==
    m.phase = "Edits" /\ w \in m.link.cond /\ edit \in m.edits

Wrote(w, edit) == Staged(w) /\ ~Waiting(w, edit)

(* What the rows of the staged root hold in the world.                     *)
StagedParent(w, edit) ==
    IF Wrote(w, edit) THEN Linked(P(w), Winner(w), Loser(w)) ELSE P(w)

StagedRank(w) ==
    IF Tied(w) /\ Wrote(w, "shed")
    THEN [K(w) EXCEPT ![Winner(w)] = IF Wrote(w, "grow") THEN @ + 1 ELSE 0]
    ELSE K(w)

StagedFits(w) ==
    /\ ParentFits(m.staged, w, StagedParent(w, "parent"))
    /\ ChildFits(m.staged, w, StagedParent(w, "child"))
    /\ RankFits(m.staged, w, StagedRank(w))
    /\ w \in m.changed <=> Wrote(w, "changed")

(* The delta names the loser of the world's link, and nothing else.        *)
DeltaFits(w) ==
    /\ (\E i \in DOMAIN m.delta : w \in m.delta[i].cond) <=> Staged(w)
    /\ \A i \in DOMAIN m.delta : w \in m.delta[i].cond => m.delta[i].var = Loser(w)

-----------------------------------------------------------------------------
(* The running merge as a whole.                                           *)

Phases == {"Left", "Right", "Pair", "Support", "LeftRank", "RightRank", "Edits", "Done"}
Steps == {"parent", "child", "shed", "grow", "changed"}
Resolutions == UNION {[S -> Condition] : S \in SUBSET Var}

LinkRecords == [winner : Var, loser : Var, cond : Condition]

MergeRecords ==
    [phase : Phases, x : Var, y : Var, scope : Condition, staged : Rows,
     left : Resolutions, right : Resolutions, pairs : SUBSET (Var \X Var),
     pair : (Var \X Var) \cup {<<>>}, lefts : Condition, rights : Condition,
     rank : {0} \cup Rank,
     link : LinkRecords \cup {None},
     edits : SUBSET Steps, changed : Condition,
     delta : Seq([var : Var, cond : Condition])]

(* A world of the pair at hand.                                            *)
OfPair(w) == w \in m.scope /\ Reps(w) = m.pair

(* What the merge has resolved, and the pairs it has not looked at.        *)
PairsAre ==
    /\ m.phase \notin {"Left", "Done"} => m.left = Resolved(rows, m.x, m.scope)
    /\ m.phase \notin {"Left", "Right", "Done"} =>
          /\ m.right = Resolved(rows, m.y, m.scope)
          /\ m.pairs \subseteq (DOMAIN m.left) \X (DOMAIN m.right)
    /\ m.phase = "Done" => m.pairs = {}
    /\ m.phase \in Ranking \cup {"Support"} =>
          /\ m.pair \in (DOMAIN m.left) \X (DOMAIN m.right)
          /\ m.pair[1] # m.pair[2] /\ m.pair \notin m.pairs

(* The parts that are left of the pair's worlds.                           *)
PartsAre ==
    /\ m.phase \in Ranking => \A w \in m.lefts : OfPair(w)
    /\ m.phase \in {"RightRank", "Edits"} =>
          \A w \in m.rights : OfPair(w) /\ w \notin m.lefts /\ K(w)[m.pair[1]] = m.rank

(* The link being written, and its edits that are left: in their order.    *)
LinkIs ==
    m.phase = "Edits" =>
        /\ m.link \in LinkRecords /\ m.link.cond # {}
        /\ \A w \in m.link.cond :
              /\ OfPair(w) /\ w \notin m.lefts /\ w \notin m.rights
              /\ m.link.winner = Winner(w) /\ m.link.loser = Loser(w)
              /\ K(w)[m.pair[1]] = m.rank
              /\ "grow" \in m.edits => Tied(w)
              /\ "shed" \in m.edits => "grow" \in m.edits
              /\ Tied(w) /\ m.rank = 0 => "shed" \notin m.edits

MergeInv ==
    /\ m \in MergeRecords
    /\ PairsAre /\ PartsAre /\ LinkIs
    /\ \A w \in World : StagedFits(w) /\ DeltaFits(w)

Inv ==
    /\ rows \in Rows
    /\ \A w \in World : WorldSound(w)
    /\ m # None => MergeInv

-----------------------------------------------------------------------------
(* Numbers.                                                                *)

(* A set of numbers that is not empty has a least one.                     *)
LEMMA LeastNatural ==
    ASSUME NEW S \in SUBSET Nat, S # {}
    PROVE  \E k \in S : \A j \in S : k <= j
<1> DEFINE R == {p \in Nat \X Nat : p[1] < p[2]}
<1>1. IsWellFoundedOn(R, Nat)
    BY NatLessThanWellFounded DEF OpToRel
<1>2. PICK k \in S : \A j \in S : <<j, k>> \notin R
  <2> HIDE DEF R
  <2> QED
    BY <1>1, WFMin
<1>3. \A j \in S : ~(j < k)
    BY <1>2
<1>4. QED
    BY <1>3

(* Induction over the numbers, as a fact about sets.                       *)
LEMMA Inductive ==
    ASSUME NEW S \in SUBSET Nat, 0 \in S, \A n \in S : n + 1 \in S
    PROVE  S = Nat
<1>1. SUFFICES ASSUME Nat \ S # {} PROVE FALSE
    OBVIOUS
<1>2. PICK k \in Nat \ S : \A j \in Nat \ S : k <= j
    BY <1>1, LeastNatural
<1>3. k - 1 \in Nat /\ k - 1 \in S
    BY <1>2
<1>4. QED
    BY <1>2, <1>3

(* The powers of two up to the n-th.                                       *)
PowersTo(n) == {f \in [0 .. n -> Nat] : \A i \in 0 .. n :
                   f[i] = IF i = 0 THEN 1 ELSE 2 * f[i - 1]}

(* Two functions that double at every step up to n agree there.            *)
LEMMA PowersAgree ==
    ASSUME NEW n \in Nat, NEW k \in Nat, NEW f \in PowersTo(n), NEW g \in PowersTo(k),
           NEW i \in Nat, i <= n, i <= k
    PROVE  f[i] = g[i]
<1> DEFINE S == {j \in Nat : j <= n /\ j <= k => f[j] = g[j]}
<1>1. 0 \in S
    BY DEF PowersTo
<1>2. ASSUME NEW j \in S PROVE j + 1 \in S
  <2>1. SUFFICES ASSUME j + 1 <= n, j + 1 <= k PROVE f[j + 1] = g[j + 1]
      OBVIOUS
  <2>2. /\ j + 1 \in 0 .. n /\ j + 1 \in 0 .. k /\ j + 1 # 0 /\ (j + 1) - 1 = j
        /\ f[j] = g[j]
      BY <2>1
  <2>3. f[j + 1] = 2 * f[j] /\ g[j + 1] = 2 * g[j]
      BY <2>2 DEF PowersTo
  <2>4. QED
      BY <2>2, <2>3
<1>3. S = Nat
  <2> HIDE DEF S
  <2>1. S \in SUBSET Nat
      BY DEF S
  <2>2. QED
      BY <1>1, <1>2, <2>1, Inductive
<1>4. QED
    BY <1>3

(* There is a function that doubles at every step up to n.                 *)
LEMMA PowersExist == \A n \in Nat : PowersTo(n) # {}
<1> DEFINE S == {n \in Nat : PowersTo(n) # {}}
<1>1. 0 \in S
  <2>1. [i \in 0 .. 0 |-> 1] \in PowersTo(0)
      BY DEF PowersTo
  <2>2. QED
      BY <2>1
<1>2. ASSUME NEW n \in S PROVE n + 1 \in S
  <2>1. PICK f \in PowersTo(n) : TRUE
      OBVIOUS
  <2> DEFINE g == [i \in 0 .. n + 1 |-> IF i = n + 1 THEN 2 * f[n] ELSE f[i]]
  <2>2. f \in [0 .. n -> Nat] /\ n \in 0 .. n
        /\ \A i \in 0 .. n : f[i] = IF i = 0 THEN 1 ELSE 2 * f[i - 1]
      BY DEF PowersTo
  <2>3. g \in [0 .. n + 1 -> Nat]
      BY <2>2
  <2>4. ASSUME NEW i \in 0 .. n + 1
        PROVE  g[i] = IF i = 0 THEN 1 ELSE 2 * g[i - 1]
    <3>1. CASE i = n + 1
      <4>1. i # 0 /\ i - 1 = n /\ n \in 0 .. n + 1 /\ n # n + 1
          BY <3>1
      <4>2. QED
          BY <3>1, <4>1
    <3>2. CASE i # n + 1
      <4>1. i \in 0 .. n /\ (i # 0 => i - 1 \in 0 .. n /\ i - 1 # n + 1)
          BY <3>2
      <4>2. g[i] = f[i] /\ (i # 0 => g[i - 1] = f[i - 1])
          BY <3>2, <4>1
      <4>3. QED
          BY <2>2, <4>1, <4>2
    <3>3. QED
        BY <3>1, <3>2
  <2>5. g \in PowersTo(n + 1)
      BY <2>3, <2>4 DEF PowersTo
  <2>6. QED
      BY <2>5
<1>3. S = Nat
  <2> HIDE DEF S
  <2>1. S \in SUBSET Nat
      BY DEF S
  <2>2. QED
      BY <1>1, <1>2, <2>1, Inductive
<1>4. QED
    BY <1>3

(* Power doubles.                                                          *)
LEMMA PowerDoubles ==
    /\ Power \in [Nat -> Nat] /\ Power[0] = 1
    /\ \A n \in Nat : Power[n + 1] = 2 * Power[n]
<1> DEFINE upTo(n) == CHOOSE f \in PowersTo(n) : TRUE
           p == [n \in Nat |-> upTo(n)[n]]
<1>1. \A n \in Nat : upTo(n) \in PowersTo(n)
    BY PowersExist
<1>2. p \in [Nat -> Nat]
  <2>1. \A n \in Nat : upTo(n)[n] \in Nat
      BY <1>1 DEF PowersTo
  <2>2. QED
      BY <2>1
<1>3. ASSUME NEW n \in Nat PROVE p[n] = IF n = 0 THEN 1 ELSE 2 * p[n - 1]
  <2>1. upTo(n)[n] = IF n = 0 THEN 1 ELSE 2 * upTo(n)[n - 1]
    <3>1. upTo(n) \in PowersTo(n) /\ n \in 0 .. n
        BY <1>1
    <3> HIDE DEF upTo
    <3>2. QED
        BY <3>1 DEF PowersTo
  <2>2. ASSUME n # 0 PROVE upTo(n)[n - 1] = upTo(n - 1)[n - 1]
    <3>1. n - 1 \in Nat /\ n - 1 <= n /\ n - 1 <= n - 1
        BY <2>2
    <3>2. upTo(n) \in PowersTo(n) /\ upTo(n - 1) \in PowersTo(n - 1)
        BY <1>1, <3>1
    <3> HIDE DEF upTo
    <3>3. QED
        BY <3>1, <3>2, PowersAgree
  <2>3. n # 0 => n - 1 \in Nat
      OBVIOUS
  <2>4. QED
      BY <2>1, <2>2, <2>3
<1>4. p = [n \in Nat |-> IF n = 0 THEN 1 ELSE 2 * p[n - 1]]
  <2> HIDE DEF p
  <2>1. QED
      BY <1>2, <1>3
<1>5. Power = [n \in Nat |-> IF n = 0 THEN 1 ELSE 2 * Power[n - 1]]
  <2> HIDE DEF p
  <2>1. QED
      BY <1>4 DEF Power
<1>6. \A n \in Nat : Power[n] = IF n = 0 THEN 1 ELSE 2 * Power[n - 1]
    BY <1>5
<1>7. \A n \in Nat : Power[n] \in Nat
  <2> DEFINE S == {n \in Nat : Power[n] \in Nat}
  <2>1. 0 \in S
      BY <1>6
  <2>2. ASSUME NEW n \in S PROVE n + 1 \in S
    <3>1. n + 1 \in Nat /\ n + 1 # 0 /\ (n + 1) - 1 = n
        OBVIOUS
    <3>2. QED
        BY <1>6, <3>1
  <2>3. S = Nat
    <3> HIDE DEF S
    <3>1. S \in SUBSET Nat
        BY DEF S
    <3>2. QED
        BY <2>1, <2>2, <3>1, Inductive
  <2>4. QED
      BY <2>3
<1>8. Power \in [Nat -> Nat]
    BY <1>5, <1>7
<1>9. ASSUME NEW n \in Nat PROVE Power[n + 1] = 2 * Power[n]
  <2>1. n + 1 \in Nat /\ n + 1 # 0 /\ (n + 1) - 1 = n
      OBVIOUS
  <2>2. QED
      BY <1>6, <2>1
<1>10. QED
    BY <1>6, <1>8, <1>9

-----------------------------------------------------------------------------
(* Forests.                                                                *)

(* The root that is chosen is a root, and it is reached.                   *)
LEMMA RootIsTheRoot ==
    ASSUME NEW f \in [Var -> Var], Rooted(f), NEW v \in Var
    PROVE  Root(f, v) \in Var /\ IsRoot(f, Root(f, v))
BY VariablesAreNumbers, U!RootIsTheRoot
   DEF Rooted, Root, Reached, Closed, IsRoot, U!Rooted, U!Root, U!Reached, U!Closed, U!IsRoot

(* A root is its own root.                                                 *)
LEMMA RootOfRoot ==
    ASSUME NEW f \in [Var -> Var], Rooted(f), NEW v \in Var, IsRoot(f, v)
    PROVE  Root(f, v) = v
<1>1. v \in Reached(f, v)
    BY DEF Reached
<1>2. QED
    BY <1>1, VariablesAreNumbers, U!RootIsTheRoot
    DEF Rooted, Root, Reached, Closed, IsRoot, U!Rooted, U!Root, U!Reached, U!Closed, U!IsRoot

(* A link changes the root of just the class of its loser.                 *)
LEMMA LinkMovesClass ==
    ASSUME NEW f \in [Var -> Var], Rooted(f), NEW k \in Var, NEW l \in Var, k # l,
           IsRoot(f, k), IsRoot(f, l)
    PROVE  /\ Linked(f, k, l) \in [Var -> Var]
           /\ Rooted(Linked(f, k, l))
           /\ \A v \in Var : Root(Linked(f, k, l), v) = IF Root(f, v) = l THEN k
                                                        ELSE Root(f, v)
<1> DEFINE g == Linked(f, k, l)
<1>1. U!Linked(f, k, l) = g
    BY DEF Linked, U!Linked
<1>2. U!Rooted(f) /\ U!IsRoot(f, k) /\ U!IsRoot(f, l)
    BY DEF Rooted, Reached, Closed, IsRoot, U!Rooted, U!Reached, U!Closed, U!IsRoot
<1>3. /\ g \in [Var -> Var] /\ U!Rooted(g)
      /\ \A v \in Var : U!Root(g, v) = IF U!Root(f, v) = l THEN k ELSE U!Root(f, v)
  <2> HIDE DEF g
  <2>1. QED
      BY <1>1, <1>2, VariablesAreNumbers, U!LinkMovesClass
<1>4. \A h \in [Var -> Var], v \in Var : U!Root(h, v) = Root(h, v)
    BY DEF Root, Reached, Closed, IsRoot, U!Root, U!Reached, U!Closed, U!IsRoot
<1>5. Rooted(g)
  <2> HIDE DEF g
  <2>1. QED
      BY <1>3 DEF Rooted, Reached, Closed, IsRoot, U!Rooted, U!Reached, U!Closed, U!IsRoot
<1>6. QED
    BY <1>3, <1>4, <1>5

(* A link makes one class of two, and leaves the others.                   *)
LEMMA LinkJoinsClasses ==
    ASSUME NEW f \in [Var -> Var], Rooted(f), NEW k \in Var, NEW l \in Var, k # l,
           IsRoot(f, k), IsRoot(f, l)
    PROVE  /\ \A v \in Var : v # k /\ v # l => Class(Linked(f, k, l), v) = Class(f, v)
           /\ Cardinality(Class(Linked(f, k, l), k))
                 = Cardinality(Class(f, k)) + Cardinality(Class(f, l))
           /\ Cardinality(Class(f, k)) + Cardinality(Class(f, l)) <= Cardinality(Var)
           /\ Cardinality(Class(f, k)) \in Nat /\ Cardinality(Class(f, l)) \in Nat
<1>1. \A v \in Var : Root(Linked(f, k, l), v) = IF Root(f, v) = l THEN k ELSE Root(f, v)
    BY LinkMovesClass
<1>2. \A v \in Var : v # k /\ v # l => Class(Linked(f, k, l), v) = Class(f, v)
    BY <1>1 DEF Class
<1>3. /\ Class(Linked(f, k, l), k) = Class(f, k) \cup Class(f, l)
      /\ Class(f, k) \cap Class(f, l) = {}
    BY <1>1 DEF Class
<1>4. IsFiniteSet(Var) /\ Class(f, k) \in SUBSET Var /\ Class(f, l) \in SUBSET Var
      /\ Class(f, k) \cup Class(f, l) \in SUBSET Var
    BY RanksSuffice DEF Class
<1>5. IsFiniteSet(Class(f, k)) /\ IsFiniteSet(Class(f, l))
    BY <1>4, FS_Subset
<1>6. Cardinality(Class(f, k)) \in Nat /\ Cardinality(Class(f, l)) \in Nat
    BY <1>5, FS_CardinalityType
<1>7. Cardinality(Class(f, k) \cup Class(f, l))
         = Cardinality(Class(f, k)) + Cardinality(Class(f, l)) - Cardinality({})
    BY <1>3, <1>5, FS_Union
<1>8. Cardinality(Class(f, k) \cup Class(f, l)) <= Cardinality(Var)
    BY <1>4, FS_Subset
<1>9. Cardinality({}) = 0
    BY FS_EmptySet
<1>10. QED
    BY <1>2, <1>3, <1>6, <1>7, <1>8, <1>9

(* The classes outgrow the ranks, and so the ranks do not run out.         *)
LEMMA LinkKeepsSizes ==
    ASSUME NEW f \in [Var -> Var], Rooted(f), NEW ranks \in [Var -> {0} \cup Rank],
           Sized(f, ranks), NEW k \in Var, NEW l \in Var, k # l,
           IsRoot(f, k), IsRoot(f, l), ranks[l] <= ranks[k]
    PROVE  /\ Forests!Ranked(ranks, k, l) \in [Var -> {0} \cup Rank]
           /\ Sized(Linked(f, k, l), Forests!Ranked(ranks, k, l))
           /\ ranks[l] = ranks[k] => ranks[k] + 1 \in Rank
<1> DEFINE g == Linked(f, k, l)
           new == Forests!Ranked(ranks, k, l)
           a == Cardinality(Class(f, k))
           b == Cardinality(Class(f, l))
           i == ranks[k]
<1>1. /\ i \in Nat /\ ranks[l] \in Nat /\ MaxRank \in Nat
      /\ \A v \in Var : ranks[v] \in Nat
    BY RanksSuffice DEF Rank
<1>2. a \in Nat /\ b \in Nat /\ a + b <= Cardinality(Var)
      /\ Cardinality(Class(g, k)) = a + b
      /\ \A v \in Var : v # k /\ v # l => Class(g, v) = Class(f, v)
    BY LinkJoinsClasses
<1>3. Power[i] <= a /\ i + 1 <= a /\ Power[ranks[l]] <= b /\ ranks[l] + 1 <= b
    BY DEF Sized
<1>4. Cardinality(Var) <= MaxRank + 1 /\ Cardinality(Var) \in Nat
    BY RanksSuffice, FS_CardinalityType
<1>5. ASSUME ranks[l] = i PROVE i + 1 \in Rank
  <2> HIDE DEF a, b, i
  <2>1. i + 1 + i + 1 <= a + b
      BY <1>1, <1>2, <1>3, <1>5
  <2>2. i + 1 <= MaxRank
      BY <1>1, <1>2, <1>4, <2>1
  <2>3. QED
      BY <1>1, <2>2 DEF Rank
<1>6. new \in [Var -> {0} \cup Rank] /\ new[k] = (IF i = ranks[l] THEN i + 1 ELSE i)
      /\ \A v \in Var : v # k => new[v] = ranks[v]
    BY <1>5 DEF Forests!Ranked
<1>7. Power[new[k]] <= a + b /\ new[k] + 1 <= a + b
  <2>1. Power[i] \in Nat /\ Power[i + 1] = 2 * Power[i]
      BY <1>1, PowerDoubles
  <2> HIDE DEF a, b, i, new
  <2>2. CASE i = ranks[l]
      BY <1>1, <1>2, <1>3, <1>6, <2>1, <2>2
  <2>3. CASE i # ranks[l]
      BY <1>1, <1>2, <1>3, <1>6, <2>1, <2>3
  <2>4. QED
      BY <2>2, <2>3
<1>8. ASSUME NEW v \in Var, IsRoot(g, v)
      PROVE  /\ Power[new[v]] <= Cardinality(Class(g, v))
             /\ new[v] + 1 <= Cardinality(Class(g, v))
  <2>1. CASE v = k
      BY <1>2, <1>7, <2>1
  <2>2. CASE v # k
    <3>1. v # l /\ IsRoot(f, v)
        BY <1>8, <2>2 DEF IsRoot, Linked
    <3>2. Class(g, v) = Class(f, v) /\ new[v] = ranks[v]
        BY <1>2, <1>6, <2>2, <3>1
    <3>3. QED
        BY <3>1, <3>2 DEF Sized
  <2>3. QED
      BY <2>1, <2>2
<1>9. QED
    BY <1>5, <1>6, <1>8 DEF Sized

-----------------------------------------------------------------------------
(* Rows.                                                                   *)

(* Rows that hold a forest are read as that forest.                        *)
LEMMA ParentsAreRead ==
    ASSUME NEW root, NEW w, NEW f \in [Var -> Var], ParentFits(root, w, f)
    PROVE  ParentIn(root, w) = f
<1>1. ASSUME NEW v \in Var PROVE ParentIn(root, w)[v] = f[v]
  <2>1. \A p \in Var : w \in root.PARENT[v][p] <=> f[v] = p /\ p # v
      BY DEF ParentFits
  <2>2. CASE f[v] = v
      BY <2>1, <2>2 DEF ParentIn
  <2>3. CASE f[v] # v
      BY <2>1, <2>3 DEF ParentIn
  <2>4. QED
      BY <2>2, <2>3
<1>2. QED
    BY <1>1 DEF ParentIn

(* The rank rows of a world hold one rank of each variable.                *)
LEMMA RanksAreRead ==
    ASSUME NEW root, NEW w, NEW ranks \in [Var -> {0} \cup Rank], RankFits(root, w, ranks)
    PROVE  RankIn(root, w) = ranks
<1>1. ASSUME NEW v \in Var PROVE RankIn(root, w)[v] = ranks[v]
  <2>1. \A k \in Rank : w \in root.RANK[v][k] <=> ranks[v] = k
      BY DEF RankFits
  <2>2. 0 \notin Rank
      BY DEF Rank
  <2>3. CASE ranks[v] = 0
      BY <2>1, <2>2, <2>3 DEF RankIn
  <2>4. CASE ranks[v] # 0
      BY <2>1, <2>4 DEF RankIn
  <2>5. QED
      BY <2>3, <2>4
<1>2. QED
    BY <1>1 DEF RankIn

Names == [Var -> [Var -> Condition]]
RankNames == [Var -> [Rank -> Condition]]

(* An edit of the names of a variable keeps their type.                    *)
LEMMA NamesKept ==
    ASSUME NEW t \in Names, NEW a \in Var, NEW b \in Var, NEW c \in Condition
    PROVE  With(t, a, b, c) \in Names
BY DEF With, Condition, Names

(* With adds the worlds of the edit at one place.                          *)
LEMMA NameAdded ==
    ASSUME NEW t \in Names, NEW a \in Var, NEW b \in Var, NEW c \in Condition,
           NEW v \in Var, NEW p \in Var, NEW w
    PROVE  w \in With(t, a, b, c)[v][p] <=> w \in t[v][p] \/ (v = a /\ p = b /\ w \in c)
BY DEF With, Condition, Names

(* An edit of ranks keeps their type.                                      *)
LEMMA RanksKept ==
    ASSUME NEW t \in RankNames, NEW a \in Var, NEW b \in Rank, NEW c \in Condition
    PROVE  With(t, a, b, c) \in RankNames /\ Without(t, a, b, c) \in RankNames
BY DEF With, Without, Condition, RankNames

(* The new rank is added in the worlds of the edit.                        *)
LEMMA RankAdded ==
    ASSUME NEW t \in RankNames, NEW a \in Var, NEW b \in Rank, NEW c \in Condition,
           NEW v \in Var, NEW k \in Rank, NEW w
    PROVE  w \in With(t, a, b, c)[v][k] <=> w \in t[v][k] \/ (v = a /\ k = b /\ w \in c)
BY DEF With, Condition, RankNames

(* The old rank is removed there.                                          *)
LEMMA RankRemoved ==
    ASSUME NEW t \in RankNames, NEW a \in Var, NEW b \in Rank, NEW c \in Condition,
           NEW v \in Var, NEW k \in Rank, NEW w
    PROVE  w \in Without(t, a, b, c)[v][k] <=> w \in t[v][k] /\ ~(v = a /\ k = b /\ w \in c)
BY DEF Without, Condition, RankNames

(* The part of a rank row holds just the worlds of that rank.              *)
LEMMA PartIsOfRank ==
    ASSUME \A w \in World : RankFits(rows, w, K(w)) /\ K(w) \in [Var -> {0} \cup Rank],
           NEW v \in Var, NEW rest \in Condition
    PROVE  LET rank == NextRank(rows, v, rest)
           IN /\ rank \in {0} \cup Rank
              /\ RankHit(rows, v, rest, rank) \in SUBSET rest
              /\ rest # {} => RankHit(rows, v, rest, rank) # {}
              /\ \A w \in RankHit(rows, v, rest, rank) : K(w)[v] = rank
<1> DEFINE hits == {k \in Rank : rest \cap rows.RANK[v][k] # {}}
           rank == NextRank(rows, v, rest)
<1>1. CASE hits = {}
  <2>1. rank = 0 /\ RankHit(rows, v, rest, rank) = rest
      BY <1>1 DEF NextRank, RankHit
  <2>2. ASSUME NEW w \in rest PROVE K(w)[v] = 0
    <3>1. w \in World
        BY DEF Condition
    <3>2. \A k \in Rank : w \notin rows.RANK[v][k]
        BY <1>1
    <3>3. QED
        BY <3>1, <3>2 DEF RankFits
  <2>3. QED
      BY <2>1, <2>2
<1>2. CASE hits # {}
  <2>1. hits \in SUBSET Nat
      BY DEF Rank
  <2>2. \E k \in hits : \A j \in hits : k <= j
      BY <1>2, <2>1, LeastNatural
  <2>3. rank \in hits
      BY <1>2, <2>2 DEF NextRank
  <2>4. rank \in Rank /\ rank # 0
      BY <2>3 DEF Rank
  <2>5. RankHit(rows, v, rest, rank) = rest \cap rows.RANK[v][rank]
      BY <2>4 DEF RankHit
  <2>6. ASSUME NEW w \in rest \cap rows.RANK[v][rank] PROVE K(w)[v] = rank
    <3>1. w \in World
        BY DEF Condition
    <3>2. QED
        BY <2>4, <3>1 DEF RankFits
  <2>7. RankHit(rows, v, rest, rank) # {}
      BY <2>3, <2>5
  <2>8. QED
      BY <2>4, <2>5, <2>6, <2>7
<1>3. QED
    BY <1>1, <1>2

-----------------------------------------------------------------------------
(* Steps of a merge.                                                       *)

(* A step that leaves the current root and the question alone.             *)
SameMerge ==
    /\ m # None /\ rows' = rows
    /\ merge'.x = m.x /\ merge'.y = m.y /\ merge'.scope = m.scope

(* A step that leaves the merge's rows and operands alone changes nothing  *)
(* that a world sees.                                                      *)
LEMMA SameWorlds ==
    ASSUME SameMerge, NEW w
    PROVE  /\ P(w)' = P(w) /\ K(w)' = K(w)
           /\ Lft(w)' = Lft(w) /\ Rgt(w)' = Rgt(w) /\ Reps(w)' = Reps(w)
           /\ Linkable(w)' = Linkable(w) /\ Tied(w)' = Tied(w)
           /\ Winner(w)' = Winner(w) /\ Loser(w)' = Loser(w)
           /\ WorldSound(w) => WorldSound(w)'
<1>1. P(w)' = P(w) /\ K(w)' = K(w)
    BY DEF SameMerge, P, K
<1>2. Lft(w)' = Lft(w) /\ Rgt(w)' = Rgt(w)
    BY <1>1 DEF SameMerge, Lft, Rgt, m
<1>3. Winner(w)' = Winner(w) /\ Loser(w)' = Loser(w) /\ Tied(w)' = Tied(w)
    BY <1>1, <1>2 DEF Winner, Loser, Tied
<1>4. Reps(w)' = Reps(w) /\ Linkable(w)' = Linkable(w)
    BY <1>2 DEF Reps, Linkable, SameMerge, m
<1>5. WorldSound(w) => WorldSound(w)'
    BY <1>1 DEF WorldSound, SameMerge
<1>6. QED
    BY <1>1, <1>2, <1>3, <1>4, <1>5

(* A step that writes nothing: what is to do in a world stays to do.       *)
LEMMA QuietStep ==
    ASSUME Inv, SameMerge, merge' \in MergeRecords,
           merge'.staged = m.staged, merge'.changed = m.changed, merge'.delta = m.delta,
           \A w \in World : Linkable(w) => (Todo(w)' <=> Todo(w)),
           \A w, edit : ~Waiting(w, edit) /\ ~Waiting(w, edit)',
           PairsAre', PartsAre', LinkIs'
    PROVE  Inv'
<1>1. MergeInv
    BY DEF Inv, SameMerge
<1>2. ASSUME NEW w \in World PROVE StagedFits(w)' /\ DeltaFits(w)'
  <2>1. /\ Staged(w)' = Staged(w)
        /\ \A edit : Wrote(w, edit)' = Wrote(w, edit)
      BY SameWorlds DEF Staged, Wrote
  <2>2. /\ StagedRank(w)' = StagedRank(w)
        /\ \A edit : StagedParent(w, edit)' = StagedParent(w, edit)
      BY <2>1, SameWorlds DEF StagedRank, StagedParent
  <2>3. StagedFits(w) /\ DeltaFits(w)
      BY <1>1 DEF MergeInv
  <2>4. StagedFits(w)'
      BY <2>1, <2>2, <2>3 DEF StagedFits, ParentFits, ChildFits, RankFits, m
  <2>5. DeltaFits(w)'
      BY <2>1, <2>3, SameWorlds DEF DeltaFits, m
  <2>6. QED
      BY <2>4, <2>5
<1>3. MergeInv'
    BY <1>2 DEF MergeInv, m
<1>4. rows' \in Rows /\ \A w \in World : WorldSound(w)'
    BY SameWorlds DEF Inv, SameMerge
<1>5. QED
    BY <1>3, <1>4 DEF Inv

(* What Resolved returns: every world of the scope, once.                  *)
LEMMA ResolvedIs ==
    ASSUME \A w \in World : WorldSound(w), NEW v \in Var, NEW scope \in Condition
    PROVE  /\ Resolved(rows, v, scope) \in Resolutions
           /\ DOMAIN Resolved(rows, v, scope) = {Root(P(w), v) : w \in scope}
           /\ \A r \in DOMAIN Resolved(rows, v, scope) :
                 Resolved(rows, v, scope)[r] = {w \in scope : Root(P(w), v) = r}
<1> DEFINE reps == {Root(P(w), v) : w \in scope}
<1>1. Resolved(rows, v, scope) = [r \in reps |-> {w \in scope : Root(P(w), v) = r}]
    BY DEF Resolved, P
<1>2. reps \in SUBSET Var
    BY RootIsTheRoot DEF WorldSound, Condition
<1>3. \A r \in reps : {w \in scope : Root(P(w), v) = r} \in Condition
    BY DEF Condition
<1>4. Resolved(rows, v, scope) \in [reps -> Condition]
    BY <1>1, <1>3
<1>5. QED
    BY <1>1, <1>2, <1>4 DEF Resolutions

(* Every variable alone satisfies the invariant.                           *)
LEMMA InitInv == Init => Inv
<1> SUFFICES ASSUME Init PROVE Inv
    OBVIOUS
<1>1. rows \in Rows
    BY DEF Init, NoRows, Rows, Condition
<1>2. ASSUME NEW w \in World PROVE WorldSound(w)
  <2> DEFINE f == [v \in Var |-> v]
             ranks == [v \in Var |-> 0]
  <2>1. /\ \A v, p \in Var : rows.PARENT[v][p] = {} /\ rows.CHILD[p][v] = {}
        /\ \A v \in Var, k \in Rank : rows.RANK[v][k] = {}
      BY DEF Init, NoRows
  <2>2. /\ f \in [Var -> Var] /\ \A v \in Var : f[v] = v
        /\ ranks \in [Var -> {0} \cup Rank] /\ \A v \in Var : ranks[v] = 0
      OBVIOUS
  <2> HIDE DEF f, ranks
  <2>3. 0 \notin Rank
      BY DEF Rank
  <2>4. ParentFits(rows, w, f) /\ ChildFits(rows, w, f) /\ RankFits(rows, w, ranks)
      BY <2>1, <2>2, <2>3 DEF ParentFits, ChildFits, RankFits
  <2>5. P(w) = f
      BY <2>2, <2>4, ParentsAreRead DEF P
  <2>6. K(w) = ranks
      BY <2>2, <2>4, RanksAreRead DEF K
  <2>7. \A v \in Var : IsRoot(f, v) /\ v \in Reached(f, v)
      BY <2>2 DEF IsRoot, Reached
  <2>8. Rooted(f)
      BY <2>7 DEF Rooted
  <2>9. ASSUME NEW v \in Var PROVE Cardinality(Class(f, v)) = 1
    <3>1. \A u \in Var : Root(f, u) = u
        BY <2>2, <2>7, <2>8, RootOfRoot
    <3>2. Class(f, v) = {v}
        BY <3>1 DEF Class
    <3>3. QED
        BY <3>2, FS_Singleton
  <2>10. Sized(f, ranks)
      BY <2>2, <2>9, PowerDoubles DEF Sized
  <2>11. P(w) \in [Var -> Var] /\ K(w) \in [Var -> {0} \cup Rank]
      BY <2>2, <2>5, <2>6
  <2>12. ParentFits(rows, w, P(w)) /\ ChildFits(rows, w, P(w)) /\ RankFits(rows, w, K(w))
      BY <2>4, <2>5, <2>6
  <2>13. Rooted(P(w)) /\ Sized(P(w), K(w))
      BY <2>5, <2>6, <2>8, <2>10
  <2>14. QED
      BY <2>11, <2>12, <2>13 DEF WorldSound
<1>3. QED
    BY <1>1, <1>2 DEF Init, Inv, m

-----------------------------------------------------------------------------
(* The actions.                                                            *)

(* A merge starts with everything to do.                                   *)
LEMMA StartStep ==
    ASSUME Inv, NEW x \in Var, NEW y \in Var, NEW scope \in Condition, Start(x, y, scope)
    PROVE  Inv'
<1>1. /\ merge' = [phase |-> IF x = y THEN "Done" ELSE "Left", x |-> x, y |-> y,
                   scope |-> scope, staged |-> rows, left |-> Nowhere, right |-> Nowhere,
                   pairs |-> {}, pair |-> <<>>, lefts |-> {}, rights |-> {}, rank |-> 0,
                   link |-> None, edits |-> {}, changed |-> {}, delta |-> <<>>]
      /\ rows' = rows
    BY DEF Start
<1>2. Nowhere \in Resolutions
  <2>1. Nowhere \in [{} -> Condition]
      BY DEF Nowhere
  <2>2. QED
      BY <2>1 DEF Resolutions
<1>3. merge' \in MergeRecords
  <2>1. rows \in Rows /\ {} \in Condition /\ {} \in SUBSET Steps
      BY DEF Inv, Condition
  <2>2. <<>> \in Seq([var : Var, cond : Condition]) /\ {} \in SUBSET (Var \X Var)
      OBVIOUS
  <2>3. merge'.phase \in Phases
      BY <1>1 DEF Phases
  <2>4. QED
      BY <1>1, <1>2, <2>1, <2>2, <2>3 DEF MergeRecords, Phases
<1>4. PairsAre' /\ PartsAre' /\ LinkIs'
    BY <1>1 DEF PairsAre, PartsAre, LinkIs, Ranking, m
<1>5. ASSUME NEW w \in World PROVE WorldSound(w)' /\ P(w)' = P(w) /\ K(w)' = K(w)
    BY <1>1 DEF Inv, WorldSound, P, K
<1>6. ASSUME NEW w \in World PROVE ~Staged(w)'
  <2>1. CASE x = y
      BY <1>1, <2>1 DEF Staged, Linkable, Lft, Rgt, m
  <2>2. CASE x # y
      BY <1>1, <2>2 DEF Staged, Todo, m
  <2>3. QED
      BY <2>1, <2>2
<1>7. ASSUME NEW w \in World PROVE StagedFits(w)' /\ DeltaFits(w)'
  <2>1. /\ StagedParent(w, "parent")' = P(w) /\ StagedParent(w, "child")' = P(w)
        /\ StagedRank(w)' = K(w) /\ ~Wrote(w, "changed")'
      BY <1>5, <1>6 DEF StagedParent, StagedRank, Wrote
  <2>2. ParentFits(rows, w, P(w)) /\ ChildFits(rows, w, P(w)) /\ RankFits(rows, w, K(w))
      BY DEF Inv, WorldSound
  <2>3. m'.staged = rows /\ m'.changed = {} /\ m'.delta = <<>>
      BY <1>1 DEF m
  <2>4. StagedFits(w)'
      BY <2>1, <2>2, <2>3 DEF StagedFits, ParentFits, ChildFits, RankFits
  <2>5. DeltaFits(w)'
      BY <1>6, <2>3 DEF DeltaFits
  <2>6. QED
      BY <2>4, <2>5
<1>8. MergeInv'
    BY <1>3, <1>4, <1>7 DEF MergeInv, m
<1>9. QED
    BY <1>1, <1>5, <1>8 DEF Inv

(* The next left representative is taken.                                  *)
LEMMA LeftStep == Inv /\ Left => Inv'
<1> SUFFICES ASSUME Inv, Left PROVE Inv'
    OBVIOUS
<1>1. /\ m \in MergeRecords /\ m # None /\ m.phase = "Left"
      /\ PairsAre /\ PartsAre /\ LinkIs /\ \A w \in World : WorldSound(w)
      /\ rows' = rows
    BY DEF Inv, MergeInv, Left, In
<1>2. merge' = [m EXCEPT !.phase = "Right", !.left = Resolved(rows, m.x, m.scope)]
    BY DEF Left
<1>3. Resolved(rows, m.x, m.scope) \in Resolutions
  <2>1. m.x \in Var /\ m.scope \in Condition
      BY <1>1 DEF MergeRecords
  <2>2. QED
      BY <1>1, <2>1, ResolvedIs
<1>4. /\ merge' \in MergeRecords /\ SameMerge
      /\ merge'.staged = m.staged /\ merge'.changed = m.changed /\ merge'.delta = m.delta
      /\ merge'.phase = "Right" /\ merge'.left = Resolved(rows, m.x, m.scope)
    BY <1>1, <1>2, <1>3 DEF MergeRecords, SameMerge, Phases
<1>5. PairsAre' /\ PartsAre' /\ LinkIs'
    BY <1>1, <1>4 DEF PairsAre, PartsAre, LinkIs, Ranking, SameMerge, m
<1>6. \A w : Todo(w) /\ Todo(w)'
    BY <1>1, <1>4 DEF Todo, m
<1>7. \A w, edit : ~Waiting(w, edit) /\ ~Waiting(w, edit)'
    BY <1>1, <1>4 DEF Waiting, m
<1>8. QED
    BY <1>4, <1>5, <1>6, <1>7, QuietStep

(* The next right one is taken.                                            *)
LEMMA RightStep == Inv /\ Right => Inv'
<1> SUFFICES ASSUME Inv, Right PROVE Inv'
    OBVIOUS
<1> DEFINE right == Resolved(rows, m.y, m.scope)
           pairs == (DOMAIN m.left) \X (DOMAIN right)
<1>1. /\ m \in MergeRecords /\ m # None /\ m.phase = "Right"
      /\ PairsAre /\ PartsAre /\ LinkIs /\ \A w \in World : WorldSound(w)
      /\ rows' = rows
    BY DEF Inv, MergeInv, Right, In
<1>2. merge' = [m EXCEPT !.phase = "Pair", !.right = right, !.pairs = pairs]
    BY DEF Right
<1>3. m.x \in Var /\ m.y \in Var /\ m.scope \in Condition
    BY <1>1 DEF MergeRecords
<1>4. m.left = Resolved(rows, m.x, m.scope)
    BY <1>1 DEF PairsAre
<1>5. /\ right \in Resolutions
      /\ DOMAIN m.left = {Lft(w) : w \in m.scope} /\ DOMAIN right = {Rgt(w) : w \in m.scope}
    BY <1>1, <1>3, <1>4, ResolvedIs DEF Lft, Rgt
<1>6. pairs \in SUBSET (Var \X Var)
  <2>1. \A w \in m.scope : Lft(w) \in Var /\ Rgt(w) \in Var
      BY <1>1, <1>3, RootIsTheRoot DEF Lft, Rgt, WorldSound, Condition
  <2>2. QED
      BY <1>5, <2>1
<1> HIDE DEF right, pairs
<1>7. /\ merge' \in MergeRecords /\ SameMerge
      /\ merge'.staged = m.staged /\ merge'.changed = m.changed /\ merge'.delta = m.delta
      /\ merge'.phase = "Pair" /\ merge'.left = m.left /\ merge'.right = right
      /\ merge'.pairs = pairs
    BY <1>1, <1>2, <1>5, <1>6 DEF MergeRecords, SameMerge, Phases
<1>8. PairsAre' /\ PartsAre' /\ LinkIs'
    BY <1>1, <1>4, <1>7 DEF PairsAre, PartsAre, LinkIs, Ranking, SameMerge, m, right, pairs
<1>9. ASSUME NEW w \in World, Linkable(w) PROVE Todo(w) /\ Todo(w)'
  <2>1. w \in m.scope
      BY <1>9 DEF Linkable
  <2>2. Reps(w) \in pairs
      BY <1>5, <2>1 DEF Reps, pairs
  <2>3. Reps(w)' = Reps(w)
      BY <1>7, SameWorlds
  <2>4. QED
      BY <1>1, <1>7, <2>2, <2>3 DEF Todo, m
<1>10. \A w, edit : ~Waiting(w, edit) /\ ~Waiting(w, edit)'
    BY <1>1, <1>7 DEF Waiting, m
<1>11. QED
    BY <1>7, <1>8, <1>9, <1>10, QuietStep

(* The pair taken is of the representatives of its worlds.                 *)
LEMMA FirstPairIs ==
    ASSUME m.pairs \in SUBSET (Var \X Var), m.pairs # {}
    PROVE  FirstPair \in m.pairs
<1> USE VariablesAreNumbers
<1> DEFINE firsts == {p[1] : p \in m.pairs}
<1>1. firsts \in SUBSET Nat /\ firsts # {}
    OBVIOUS
<1>2. PICK a \in firsts : \A b \in firsts : a <= b
  <2> HIDE DEF firsts
  <2>1. QED
      BY <1>1, LeastNatural
<1> DEFINE seconds == {p[2] : p \in {q \in m.pairs : q[1] = a}}
<1>3. seconds \in SUBSET Nat /\ seconds # {}
    OBVIOUS
<1>4. PICK c \in seconds : \A d \in seconds : c <= d
  <2> HIDE DEF seconds
  <2>1. QED
      BY <1>3, LeastNatural
<1>5. PICK p \in m.pairs : p[1] = a /\ p[2] = c
    OBVIOUS
<1>6. ASSUME NEW q \in m.pairs PROVE p[1] < q[1] \/ (p[1] = q[1] /\ p[2] <= q[2])
  <2>1. a <= q[1] /\ (q[1] = a => c <= q[2])
      BY <1>2, <1>4
  <2>2. a \in Nat /\ q[1] \in Nat
      OBVIOUS
  <2>3. QED
      BY <1>5, <2>1, <2>2
<1>7. QED
    BY <1>6 DEF FirstPair

(* The worlds of a pair are computed.                                      *)
LEMMA PairStep == Inv /\ Pair => Inv'
<1> SUFFICES ASSUME Inv, Pair PROVE Inv'
    OBVIOUS
<1>1. /\ m \in MergeRecords /\ m # None /\ m.phase = "Pair"
      /\ PairsAre /\ PartsAre /\ LinkIs /\ \A w \in World : WorldSound(w)
      /\ rows' = rows
    BY DEF Inv, MergeInv, Pair, In
<1>2. m.pairs \in SUBSET (Var \X Var)
    BY <1>1 DEF MergeRecords
<1>3. /\ m.left = Resolved(rows, m.x, m.scope) /\ m.right = Resolved(rows, m.y, m.scope)
      /\ m.pairs \subseteq (DOMAIN m.left) \X (DOMAIN m.right)
    BY <1>1 DEF PairsAre
<1>4. \A w, edit : ~Waiting(w, edit)
    BY <1>1 DEF Waiting
<1>5. CASE m.pairs = {}
  <2>1. merge' = [m EXCEPT !.phase = "Done"]
      BY <1>5 DEF Pair
  <2>2. /\ merge' \in MergeRecords /\ SameMerge
        /\ merge'.staged = m.staged /\ merge'.changed = m.changed /\ merge'.delta = m.delta
        /\ merge'.phase = "Done" /\ merge'.pairs = {}
      BY <1>1, <1>5, <2>1 DEF MergeRecords, SameMerge, Phases
  <2>3. PairsAre' /\ PartsAre' /\ LinkIs'
      BY <2>2 DEF PairsAre, PartsAre, LinkIs, Ranking, m
  <2>4. \A w : ~Todo(w) /\ ~Todo(w)'
      BY <1>1, <1>5, <2>2 DEF Todo, m, Ranking
  <2>5. \A w, edit : ~Waiting(w, edit)'
      BY <2>2 DEF Waiting, m
  <2>6. QED
      BY <1>4, <2>2, <2>3, <2>4, <2>5, QuietStep
<1>6. CASE m.pairs # {}
  <2> DEFINE p == FirstPair
             phase == IF p[1] = p[2] THEN "Pair" ELSE "Support"
  <2>1. p \in m.pairs
      BY <1>2, <1>6, FirstPairIs
  <2> HIDE DEF p
  <2>2. merge' = [m EXCEPT !.pairs = m.pairs \ {p}, !.pair = p, !.phase = phase]
      BY <1>6 DEF Pair, p
  <2>3. phase \in {"Pair", "Support"} /\ p \in Var \X Var /\ m.pairs \ {p} \in SUBSET (Var \X Var)
      BY <1>2, <2>1
  <2>4. /\ merge' \in MergeRecords /\ SameMerge
        /\ merge'.staged = m.staged /\ merge'.changed = m.changed /\ merge'.delta = m.delta
        /\ merge'.phase = phase /\ merge'.pairs = m.pairs \ {p} /\ merge'.pair = p
        /\ merge'.left = m.left /\ merge'.right = m.right
    <3> HIDE DEF phase
    <3>1. QED
        BY <1>1, <2>2, <2>3 DEF MergeRecords, SameMerge, Phases
  <2>5. PairsAre' /\ PartsAre' /\ LinkIs'
    <3>1. PairsAre'
        BY <1>3, <2>1, <2>3, <2>4 DEF PairsAre, Ranking, SameMerge, m
    <3>2. PartsAre' /\ LinkIs'
        BY <2>3, <2>4 DEF PartsAre, LinkIs, Ranking, m
    <3>3. QED
        BY <3>1, <3>2
  <2>6. ASSUME NEW w \in World, Linkable(w) PROVE Todo(w)' <=> Todo(w)
    <3>1. Todo(w) <=> Reps(w) \in m.pairs
        BY <1>1 DEF Todo, Ranking
    <3>2. Reps(w)' = Reps(w)
        BY <2>4, SameWorlds
    <3>3. Todo(w)' <=> Reps(w) \in m.pairs \ {p} \/ (Reps(w) = p /\ phase = "Support")
        BY <2>3, <2>4, <3>2 DEF Todo, Ranking, m
    <3>4. Reps(w) = p => phase = "Support"
        BY <2>6 DEF Linkable, Reps
    <3>5. QED
        BY <2>1, <3>1, <3>3, <3>4
  <2>7. \A w, edit : ~Waiting(w, edit)'
      BY <2>3, <2>4 DEF Waiting, m
  <2>8. QED
      BY <1>4, <2>4, <2>5, <2>6, <2>7, QuietStep
<1>7. QED
    BY <1>5, <1>6

(* The worlds where the pair at hand represents the two variables.         *)
LEMMA SupportIs ==
    ASSUME Inv, m # None, m.phase \in Ranking \cup {"Support"}
    PROVE  /\ Support \in Condition
           /\ \A w \in World : w \in Support <=> OfPair(w)
           /\ m.pair[1] \in Var /\ m.pair[2] \in Var /\ m.pair = <<m.pair[1], m.pair[2]>>
<1>1. m \in MergeRecords /\ PairsAre /\ \A w \in World : WorldSound(w)
    BY DEF Inv, MergeInv
<1>2. m.x \in Var /\ m.y \in Var /\ m.scope \in Condition
    BY <1>1 DEF MergeRecords
<1>3. /\ m.left = Resolved(rows, m.x, m.scope) /\ m.right = Resolved(rows, m.y, m.scope)
      /\ m.pair \in (DOMAIN m.left) \X (DOMAIN m.right)
    BY <1>1 DEF PairsAre, Ranking
<1>4. /\ m.pair = <<m.pair[1], m.pair[2]>>
      /\ m.pair[1] \in DOMAIN m.left /\ m.pair[2] \in DOMAIN m.right
    BY <1>3
<1>5. m.left[m.pair[1]] = {w \in m.scope : Lft(w) = m.pair[1]}
  <2> DEFINE all == Resolved(rows, m.x, m.scope)
  <2>1. \A r \in DOMAIN all : all[r] = {w \in m.scope : Root(P(w), m.x) = r}
    <3>1. m.x \in Var /\ m.scope \in Condition /\ \A w \in World : WorldSound(w)
        BY <1>1, <1>2
    <3>2. QED
        BY ONLY <3>1, ResolvedIs
  <2> HIDE DEF all
  <2>2. m.left = all
      BY <1>3 DEF all
  <2>3. QED
      BY <1>4, <2>1, <2>2 DEF Lft
<1>6. m.right[m.pair[2]] = {w \in m.scope : Rgt(w) = m.pair[2]}
  <2> DEFINE all == Resolved(rows, m.y, m.scope)
  <2>1. \A r \in DOMAIN all : all[r] = {w \in m.scope : Root(P(w), m.y) = r}
    <3>1. m.y \in Var /\ m.scope \in Condition /\ \A w \in World : WorldSound(w)
        BY <1>1, <1>2
    <3>2. QED
        BY ONLY <3>1, ResolvedIs
  <2> HIDE DEF all
  <2>2. m.right = all
      BY <1>3 DEF all
  <2>3. QED
      BY <1>4, <2>1, <2>2 DEF Rgt
<1>7. \A w : OfPair(w) <=> w \in m.scope /\ Lft(w) = m.pair[1] /\ Rgt(w) = m.pair[2]
    BY <1>4 DEF OfPair, Reps
<1>8. m.pair[1] \in Var /\ m.pair[2] \in Var
  <2>1. DOMAIN m.left \in SUBSET Var /\ DOMAIN m.right \in SUBSET Var
      BY <1>1 DEF MergeRecords, Resolutions
  <2>2. QED
      BY <1>4, <2>1
<1>9. QED
    BY <1>2, <1>4, <1>5, <1>6, <1>7, <1>8 DEF Support, Condition

(* The worlds of a pair of ranks are computed.                             *)
LEMMA SupportStep == Inv /\ PairSupport => Inv'
<1> SUFFICES ASSUME Inv, PairSupport PROVE Inv'
    OBVIOUS
<1>1. /\ m \in MergeRecords /\ m # None /\ m.phase = "Support"
      /\ PairsAre /\ PartsAre /\ LinkIs /\ rows' = rows
    BY DEF Inv, MergeInv, PairSupport, In
<1>2. Support \in Condition /\ \A w \in World : w \in Support <=> OfPair(w)
    BY <1>1, SupportIs
<1> DEFINE phase == IF Support = {} THEN "Pair" ELSE "LeftRank"
           lefts == IF Support = {} THEN m.lefts ELSE Support
<1>3. merge' = [m EXCEPT !.phase = phase, !.lefts = lefts]
    BY <1>1 DEF PairSupport, MergeRecords
<1>4. lefts \in Condition /\ phase \in {"Pair", "LeftRank"}
    BY <1>1, <1>2 DEF MergeRecords
<1>5. /\ merge' \in MergeRecords /\ SameMerge
      /\ merge'.staged = m.staged /\ merge'.changed = m.changed /\ merge'.delta = m.delta
      /\ merge'.phase = phase /\ merge'.lefts = lefts /\ merge'.pairs = m.pairs
      /\ merge'.pair = m.pair /\ merge'.left = m.left /\ merge'.right = m.right
  <2> HIDE DEF phase, lefts
  <2>1. QED
      BY <1>1, <1>3, <1>4 DEF MergeRecords, SameMerge, Phases
<1>6. \A w : OfPair(w)' = OfPair(w)
    BY <1>5, SameWorlds DEF OfPair, SameMerge, m
<1>7. PairsAre' /\ PartsAre' /\ LinkIs'
  <2>1. PairsAre'
      BY <1>1, <1>4, <1>5 DEF PairsAre, Ranking, SameMerge, m
  <2>2. PartsAre' /\ LinkIs'
      BY <1>2, <1>4, <1>5, <1>6 DEF PartsAre, LinkIs, Ranking, m, Condition
  <2>3. QED
      BY <2>1, <2>2
<1>8. ASSUME NEW w \in World, Linkable(w) PROVE Todo(w)' <=> Todo(w)
  <2>1. Todo(w) <=> Reps(w) \in m.pairs \/ Reps(w) = m.pair
      BY <1>1 DEF Todo, Ranking
  <2>2. Reps(w)' = Reps(w)
      BY <1>5, SameWorlds
  <2>3. Reps(w) = m.pair <=> w \in Support
      BY <1>2, <1>8 DEF OfPair, Linkable
  <2>4. Todo(w)' <=> Reps(w) \in m.pairs \/ (Reps(w) = m.pair /\ phase = "LeftRank" /\ w \in lefts)
      BY <1>4, <1>5, <2>2 DEF Todo, Ranking, m
  <2>5. QED
      BY <2>1, <2>3, <2>4
<1>9. \A w, edit : ~Waiting(w, edit) /\ ~Waiting(w, edit)'
    BY <1>1, <1>4, <1>5 DEF Waiting, m
<1>10. QED
    BY <1>5, <1>7, <1>8, <1>9, QuietStep

(* The next left rank is taken.                                            *)
LEMMA LeftRankStep == Inv /\ LeftRank => Inv'
<1> SUFFICES ASSUME Inv, LeftRank PROVE Inv'
    OBVIOUS
<1>1. /\ m \in MergeRecords /\ m # None /\ m.phase = "LeftRank"
      /\ PairsAre /\ PartsAre /\ LinkIs /\ rows' = rows
    BY DEF Inv, MergeInv, LeftRank, In
<1>2. /\ m.lefts \in Condition /\ \A w \in m.lefts : OfPair(w)
      /\ m.pair[1] \in Var
    BY <1>1, SupportIs DEF MergeRecords, PartsAre, Ranking
<1>3. \A w, edit : ~Waiting(w, edit)
    BY <1>1 DEF Waiting
<1>4. ASSUME NEW w PROVE Todo(w) <=> Reps(w) \in m.pairs \/ (Reps(w) = m.pair /\ w \in m.lefts)
    BY <1>1 DEF Todo, Ranking
<1>5. CASE m.lefts = {}
  <2>1. merge' = [m EXCEPT !.phase = "Pair"]
      BY <1>5 DEF LeftRank
  <2>2. /\ merge' \in MergeRecords /\ SameMerge
        /\ merge'.staged = m.staged /\ merge'.changed = m.changed /\ merge'.delta = m.delta
        /\ merge'.phase = "Pair" /\ merge'.pairs = m.pairs
        /\ merge'.left = m.left /\ merge'.right = m.right
      BY <1>1, <2>1 DEF MergeRecords, SameMerge, Phases
  <2>3. PairsAre' /\ PartsAre' /\ LinkIs'
      BY <1>1, <2>2 DEF PairsAre, PartsAre, LinkIs, Ranking, SameMerge, m
  <2>4. ASSUME NEW w PROVE Todo(w)' <=> Todo(w)
    <3>1. Reps(w)' = Reps(w)
        BY <2>2, SameWorlds
    <3>2. Todo(w)' <=> Reps(w) \in m.pairs
        BY <2>2, <3>1 DEF Todo, Ranking, m
    <3>3. QED
        BY <1>4, <1>5, <3>2
  <2>5. \A w, edit : ~Waiting(w, edit)'
      BY <2>2 DEF Waiting, m
  <2>6. QED
      BY <1>3, <2>2, <2>3, <2>4, <2>5, QuietStep
<1>6. CASE m.lefts # {}
  <2> DEFINE rank == NextRank(rows, m.pair[1], m.lefts)
             hit == RankHit(rows, m.pair[1], m.lefts, rank)
  <2>1. rank \in {0} \cup Rank /\ hit \in SUBSET m.lefts /\ \A w \in hit : K(w)[m.pair[1]] = rank
    <3>1. \A w \in World : RankFits(rows, w, K(w)) /\ K(w) \in [Var -> {0} \cup Rank]
        BY DEF Inv, WorldSound
    <3>2. QED
        BY <1>2, <3>1, PartIsOfRank
  <2>2. merge' = [m EXCEPT !.phase = "RightRank", !.rank = rank,
                           !.lefts = m.lefts \ hit, !.rights = hit]
      BY <1>1, <1>6 DEF LeftRank, MergeRecords
  <2> HIDE DEF rank, hit
  <2>3. hit \in Condition /\ m.lefts \ hit \in Condition
      BY <1>2, <2>1 DEF Condition
  <2>4. /\ merge' \in MergeRecords /\ SameMerge
        /\ merge'.staged = m.staged /\ merge'.changed = m.changed /\ merge'.delta = m.delta
        /\ merge'.phase = "RightRank" /\ merge'.pairs = m.pairs /\ merge'.pair = m.pair
        /\ merge'.left = m.left /\ merge'.right = m.right
        /\ merge'.lefts = m.lefts \ hit /\ merge'.rights = hit /\ merge'.rank = rank
      BY <1>1, <2>1, <2>2, <2>3 DEF MergeRecords, SameMerge, Phases
  <2>5. \A w : OfPair(w)' = OfPair(w) /\ K(w)' = K(w)
      BY <2>4, SameWorlds DEF OfPair, SameMerge, m
  <2>6. PairsAre' /\ PartsAre' /\ LinkIs'
    <3>1. PairsAre'
        BY <1>1, <2>4 DEF PairsAre, Ranking, SameMerge, m
    <3>2. PartsAre' /\ LinkIs'
        BY <1>2, <2>1, <2>4, <2>5 DEF PartsAre, LinkIs, m
    <3>3. QED
        BY <3>1, <3>2
  <2>7. ASSUME NEW w PROVE Todo(w)' <=> Todo(w)
    <3>1. Reps(w)' = Reps(w)
        BY <2>4, SameWorlds
    <3>2. Todo(w)' <=> \/ Reps(w) \in m.pairs
                       \/ Reps(w) = m.pair /\ (w \in m.lefts \ hit \/ w \in hit)
        BY <2>4, <3>1 DEF Todo, Ranking, m
    <3>3. QED
        BY <1>4, <2>1, <3>2
  <2>8. \A w, edit : ~Waiting(w, edit)'
      BY <2>4 DEF Waiting, m
  <2>9. QED
      BY <1>3, <2>4, <2>6, <2>7, <2>8, QuietStep
<1>7. QED
    BY <1>5, <1>6

(* The right ranks are used up.                                            *)
LEMMA RightRankEnds == Inv /\ RightRank /\ m.rights = {} => Inv'
<1> SUFFICES ASSUME Inv, RightRank, m.rights = {} PROVE Inv'
    OBVIOUS
<1>1. /\ m \in MergeRecords /\ m # None /\ m.phase = "RightRank"
      /\ PairsAre /\ PartsAre /\ LinkIs /\ rows' = rows
    BY DEF Inv, MergeInv, RightRank, In
<1>2. merge' = [m EXCEPT !.phase = "LeftRank"]
    BY DEF RightRank
<1>3. /\ merge' \in MergeRecords /\ SameMerge
      /\ merge'.staged = m.staged /\ merge'.changed = m.changed /\ merge'.delta = m.delta
      /\ merge'.phase = "LeftRank" /\ merge'.pairs = m.pairs /\ merge'.pair = m.pair
      /\ merge'.left = m.left /\ merge'.right = m.right /\ merge'.lefts = m.lefts
    BY <1>1, <1>2 DEF MergeRecords, SameMerge, Phases
<1>4. \A w : OfPair(w)' = OfPair(w) /\ Reps(w)' = Reps(w)
    BY <1>3, SameWorlds DEF OfPair, SameMerge, m
<1>5. PairsAre' /\ PartsAre' /\ LinkIs'
  <2>1. PairsAre'
      BY <1>1, <1>3 DEF PairsAre, Ranking, SameMerge, m
  <2>2. PartsAre' /\ LinkIs'
      BY <1>1, <1>3, <1>4 DEF PartsAre, LinkIs, Ranking, m
  <2>3. QED
      BY <2>1, <2>2
<1>6. \A w : Todo(w)' <=> Todo(w)
    BY <1>1, <1>3, <1>4 DEF Todo, Ranking, m
<1>7. \A w, edit : ~Waiting(w, edit) /\ ~Waiting(w, edit)'
    BY <1>1, <1>3 DEF Waiting, m
<1>8. QED
    BY <1>3, <1>5, <1>6, <1>7, QuietStep

(* Seeds of a delta.                                                       *)
LEMMA SeedIn ==
    ASSUME NEW S, NEW s \in Seq(S), NEW i \in DOMAIN s
    PROVE  s[i] \in S
OBVIOUS

(* What an appended seed names.                                            *)
LEMMA SeedAppended ==
    ASSUME NEW s \in Seq([var : Var, cond : Condition]), NEW seed \in [var : Var, cond : Condition],
           NEW w
    PROVE  LET t == Append(s, seed)
           IN /\ (\E i \in DOMAIN t : w \in t[i].cond)
                    <=> w \in seed.cond \/ \E i \in DOMAIN s : w \in s[i].cond
              /\ \A i \in DOMAIN t : \/ t[i] = seed
                                   \/ \E j \in DOMAIN s : t[i] = s[j]
<1> DEFINE t == Append(s, seed)
<1>1. /\ DOMAIN s = 1 .. Len(s) /\ DOMAIN t = 1 .. Len(s) + 1 /\ Len(s) \in Nat
      /\ t[Len(s) + 1] = seed /\ \A i \in 1 .. Len(s) : t[i] = s[i]
    OBVIOUS
<1> HIDE DEF t
<1>2. \A i \in 1 .. Len(s) + 1 : i = Len(s) + 1 \/ i \in 1 .. Len(s)
    BY <1>1
<1>3. Len(s) + 1 \in 1 .. Len(s) + 1 /\ \A i \in 1 .. Len(s) : i \in 1 .. Len(s) + 1
    BY <1>1
<1>4. QED
    BY <1>1, <1>2, <1>3 DEF t

(* A link is staged: its worlds are named, and wait for its edits.         *)
LEMMA RightRankStages == Inv /\ RightRank /\ m.rights # {} => Inv'
<1> SUFFICES ASSUME Inv, RightRank, m.rights # {} PROVE Inv'
    OBVIOUS
<1> DEFINE l == m.pair[1]
           r == m.pair[2]
           rrank == NextRank(rows, r, m.rights)
           hit == RankHit(rows, r, m.rights, rrank)
           leftWins == m.rank > rrank \/ (m.rank = rrank /\ l < r)
           winner == IF leftWins THEN l ELSE r
           loser == IF leftWins THEN r ELSE l
           seed == Seed(winner, loser, hit)
           link == [winner |-> winner, loser |-> loser, cond |-> hit]
           edits == EditsOf(m.rank, rrank)
<1>1. /\ m \in MergeRecords /\ m # None /\ m.phase = "RightRank"
      /\ MergeInv /\ PairsAre /\ PartsAre /\ rows' = rows
    BY DEF Inv, MergeInv, RightRank, In
<1>2. l \in Var /\ r \in Var /\ m.pair = <<l, r>> /\ l # r /\ m.pair \notin m.pairs
    BY <1>1, SupportIs DEF PairsAre, Ranking
<1>3. /\ m.rights \in Condition
      /\ \A w \in m.rights : OfPair(w) /\ w \notin m.lefts /\ K(w)[l] = m.rank
    BY <1>1 DEF MergeRecords, PartsAre
<1>4. /\ rrank \in {0} \cup Rank /\ hit \in SUBSET m.rights /\ hit # {}
      /\ \A w \in hit : K(w)[r] = rrank
  <2>1. \A w \in World : RankFits(rows, w, K(w)) /\ K(w) \in [Var -> {0} \cup Rank]
      BY DEF Inv, WorldSound
  <2>2. QED
      BY <1>2, <1>3, <2>1, PartIsOfRank
<1>5. merge' = [m EXCEPT !.phase = "Edits", !.rights = m.rights \ hit, !.link = link,
                         !.edits = edits, !.delta = Append(m.delta, seed)]
    BY <1>1 DEF RightRank, StageLinks, MergeRecords
<1>6. /\ hit \in Condition /\ m.rights \ hit \in Condition /\ winner \in Var /\ loser \in Var
      /\ seed = [var |-> loser, cond |-> hit]
      /\ link \in LinkRecords /\ link.winner = winner /\ link.loser = loser /\ link.cond = hit
    BY <1>2, <1>3, <1>4 DEF Condition, LinkRecords, Seed
<1>7. ASSUME NEW w \in hit
      PROVE  /\ w \in World /\ OfPair(w) /\ w \notin m.lefts
             /\ Lft(w) = l /\ Rgt(w) = r /\ Winner(w) = winner /\ Loser(w) = loser
             /\ K(w)[l] = m.rank /\ (Tied(w) <=> m.rank = rrank) /\ Linkable(w)
  <2>1. w \in World /\ OfPair(w) /\ w \notin m.lefts /\ K(w)[l] = m.rank /\ K(w)[r] = rrank
      BY <1>3, <1>4 DEF Condition
  <2>2. Lft(w) = l /\ Rgt(w) = r /\ w \in m.scope
      BY <1>2, <2>1 DEF OfPair, Reps
  <2>3. Forests!Wins(K(w), l, r) <=> leftWins
      BY <2>1 DEF Forests!Wins
  <2>4. Winner(w) = winner /\ Loser(w) = loser
    <3> HIDE DEF l, r, leftWins
    <3>1. QED
        BY <2>2, <2>3 DEF Winner, Loser
  <2>5. Tied(w) <=> m.rank = rrank
      BY <2>1, <2>2 DEF Tied
  <2>6. Linkable(w)
      BY <1>2, <2>2 DEF Linkable
  <2>7. QED
      BY <2>1, <2>2, <2>4, <2>5, <2>6
<1>8. /\ edits \in SUBSET Steps /\ {"parent", "child", "changed"} \subseteq edits
      /\ "grow" \in edits <=> m.rank = rrank
      /\ "shed" \in edits <=> m.rank = rrank /\ m.rank # 0
    BY DEF EditsOf, Steps
<1> HIDE DEF l, r, rrank, hit, leftWins, winner, loser, seed, link, edits
<1>9. seed \in [var : Var, cond : Condition] /\ m.delta \in Seq([var : Var, cond : Condition])
    BY <1>1, <1>6 DEF MergeRecords
<1> DEFINE named == Append(m.delta, seed)
<1>10. ASSUME NEW w
       PROVE  /\ (\E i \in DOMAIN named : w \in named[i].cond)
                    <=> w \in seed.cond \/ \E i \in DOMAIN m.delta : w \in m.delta[i].cond
              /\ \A i \in DOMAIN named : \/ named[i] = seed
                                       \/ \E j \in DOMAIN m.delta : named[i] = m.delta[j]
    BY <1>9, SeedAppended
<1>11. named = Append(m.delta, seed)
    OBVIOUS
<1> HIDE DEF named
<1>12. /\ merge' \in MergeRecords /\ SameMerge
       /\ merge'.staged = m.staged /\ merge'.changed = m.changed
       /\ merge'.delta = named /\ merge'.link = link /\ merge'.edits = edits
       /\ merge'.phase = "Edits" /\ merge'.pairs = m.pairs /\ merge'.pair = m.pair
       /\ merge'.left = m.left /\ merge'.right = m.right
       /\ merge'.lefts = m.lefts /\ merge'.rights = m.rights \ hit /\ merge'.rank = m.rank
  <2>1. /\ named \in Seq([var : Var, cond : Condition])
        /\ link \in LinkRecords \cup {None} /\ edits \in SUBSET Steps
        /\ m.rights \ hit \in Condition /\ "Edits" \in Phases
      BY <1>6, <1>8, <1>9, <1>11 DEF Phases
  <2>2. merge' \in MergeRecords
      BY <1>1, <1>5, <1>11, <2>1 DEF MergeRecords
  <2>3. QED
      BY <1>1, <1>5, <1>11, <2>2 DEF MergeRecords, SameMerge
<1>13. \A w : /\ OfPair(w)' = OfPair(w) /\ Reps(w)' = Reps(w) /\ K(w)' = K(w)
              /\ Tied(w)' = Tied(w) /\ Winner(w)' = Winner(w) /\ Loser(w)' = Loser(w)
    BY <1>12, SameWorlds DEF OfPair, SameMerge, m
<1>14. PairsAre'
    BY <1>1, <1>12 DEF PairsAre, Ranking, SameMerge, m
<1>15. PartsAre'
  <2>1. \A w \in m.lefts : OfPair(w)
      BY <1>1 DEF PartsAre, Ranking
  <2>2. QED
      BY <1>3, <1>12, <1>13, <2>1 DEF PartsAre, m, l
<1>16. LinkIs'
  <2>1. ASSUME NEW w \in hit
        PROVE  /\ OfPair(w)' /\ w \notin m.lefts /\ w \notin m.rights \ hit
               /\ winner = Winner(w)' /\ loser = Loser(w)'
               /\ K(w)'[m.pair[1]] = m.rank
               /\ "grow" \in edits => Tied(w)'
               /\ "shed" \in edits => "grow" \in edits
               /\ Tied(w)' /\ m.rank = 0 => "shed" \notin edits
      BY <1>7, <1>8, <1>13 DEF l
  <2>2. QED
      BY <1>4, <1>6, <1>12, <2>1 DEF LinkIs, m
<1>17. ASSUME NEW w \in World PROVE StagedFits(w)' /\ DeltaFits(w)'
  <2>1. StagedFits(w) /\ DeltaFits(w)
      BY <1>1 DEF MergeInv
  <2>2. \A edit : ~Waiting(w, edit)
      BY <1>1 DEF Waiting
  <2>3. \A edit : Waiting(w, edit)' <=> w \in hit /\ edit \in edits
      BY <1>6, <1>12 DEF Waiting, m
  <2>4. Todo(w) <=> Reps(w) \in m.pairs \/ (Reps(w) = m.pair /\ (w \in m.lefts \/ w \in m.rights))
      BY <1>1 DEF Todo, Ranking
  <2>5. Todo(w)' <=> \/ Reps(w) \in m.pairs
                     \/ Reps(w) = m.pair /\ (w \in m.lefts \/ w \in m.rights \ hit)
      BY <1>12, <1>13 DEF Todo, Ranking, m
  <2>6. Linkable(w)' = Linkable(w)
      BY <1>12, SameWorlds
  <2>7. CASE w \in hit
    <3>1. ~Staged(w) /\ Staged(w)' /\ Linkable(w)
        BY <1>2, <1>4, <1>7, <2>4, <2>5, <2>6, <2>7 DEF Staged, OfPair
    <3>2. /\ ~Wrote(w, "parent") /\ ~Wrote(w, "parent")'
          /\ ~Wrote(w, "child") /\ ~Wrote(w, "child")'
          /\ ~Wrote(w, "changed") /\ ~Wrote(w, "changed")'
          /\ ~Wrote(w, "shed")
        BY <1>8, <2>3, <2>7, <3>1 DEF Wrote
    <3>3. StagedRank(w)' = StagedRank(w)
      <4>1. StagedRank(w) = K(w)
          BY <3>2 DEF StagedRank
      <4>2. CASE Tied(w) /\ m.rank = 0
        <5>1. ~Wrote(w, "grow")'
            BY <1>7, <1>8, <2>3, <2>7, <4>2 DEF Wrote
        <5>2. K(w)[Winner(w)] = 0 /\ K(w) \in [Var -> {0} \cup Rank] /\ Winner(w) \in Var
            BY <1>2, <1>7, <2>7, <4>2 DEF Tied, Winner, Inv, WorldSound
        <5>3. [K(w) EXCEPT ![Winner(w)] = 0] = K(w)
            BY <5>2
        <5>4. QED
            BY <1>13, <4>1, <5>1, <5>3 DEF StagedRank
      <4>3. CASE ~(Tied(w) /\ m.rank = 0)
        <5>1. Tied(w) => ~Wrote(w, "shed")'
            BY <1>7, <1>8, <2>3, <2>7, <4>3 DEF Wrote
        <5>2. QED
            BY <1>13, <4>1, <5>1 DEF StagedRank
      <4>4. QED
          BY <4>2, <4>3
    <3>4. StagedParent(w, "parent")' = P(w)' /\ StagedParent(w, "parent") = P(w)
          /\ StagedParent(w, "child")' = P(w)' /\ StagedParent(w, "child") = P(w)
        BY <3>2 DEF StagedParent
    <3>5. P(w)' = P(w) /\ Loser(w) = loser
        BY <1>7, <1>12, <2>7, SameWorlds
    <3>6. StagedFits(w)'
        BY <1>12, <2>1, <3>2, <3>3, <3>4, <3>5 DEF StagedFits, ParentFits, ChildFits, RankFits, m
    <3>7. \A i \in DOMAIN m.delta : w \notin m.delta[i].cond
        BY <2>1, <3>1 DEF DeltaFits
    <3>8. /\ \E i \in DOMAIN named : w \in named[i].cond
          /\ \A i \in DOMAIN named :
                w \in named[i].cond => named[i].var = loser
      <4>1. w \in seed.cond /\ seed.var = loser
          BY <1>6, <2>7
      <4>2. QED
          BY <1>10, <3>7, <4>1
    <3>9. DeltaFits(w)'
        BY <1>12, <1>13, <3>1, <3>5, <3>8 DEF DeltaFits, m
    <3>10. QED
        BY <3>6, <3>9
  <2>8. CASE w \notin hit
    <3>1. Staged(w)' = Staged(w)
        BY <2>4, <2>5, <2>6, <2>8 DEF Staged
    <3>2. \A edit : Wrote(w, edit)' = Wrote(w, edit)
        BY <2>2, <2>3, <2>8, <3>1 DEF Wrote
    <3>3. P(w)' = P(w)
        BY <1>12, SameWorlds
    <3>4. /\ StagedRank(w)' = StagedRank(w)
          /\ \A edit : StagedParent(w, edit)' = StagedParent(w, edit)
        BY <1>13, <3>2, <3>3 DEF StagedRank, StagedParent
    <3>5. StagedFits(w)'
        BY <1>12, <2>1, <3>2, <3>4 DEF StagedFits, ParentFits, ChildFits, RankFits, m
    <3>6. /\ (\E i \in DOMAIN named : w \in named[i].cond)
                <=> \E i \in DOMAIN m.delta : w \in m.delta[i].cond
          /\ \A i \in DOMAIN named :
                w \in named[i].cond => named[i].var = Loser(w)
      <4>1. w \notin seed.cond /\ \A i \in DOMAIN m.delta : w \in m.delta[i].cond
                                                           => m.delta[i].var = Loser(w)
          BY <1>6, <2>1, <2>8 DEF DeltaFits
      <4>2. QED
          BY <1>10, <4>1
    <3>7. DeltaFits(w)'
        BY <1>12, <1>13, <2>1, <3>1, <3>6 DEF DeltaFits, m
    <3>8. QED
        BY <3>5, <3>7
  <2>9. QED
      BY <2>7, <2>8
<1>18. MergeInv'
    BY <1>12, <1>14, <1>15, <1>16, <1>17 DEF MergeInv, m
<1>19. rows' \in Rows /\ \A w \in World : WorldSound(w)'
    BY <1>12, SameWorlds DEF Inv, SameMerge
<1>20. QED
    BY <1>18, <1>19 DEF Inv

(* A link whose edits are done is written.                                 *)
LEMMA EditsEnd == Inv /\ Edits /\ EditsDone => Inv'
<1> SUFFICES ASSUME Inv, Edits, EditsDone PROVE Inv'
    OBVIOUS
<1>1. /\ m \in MergeRecords /\ m # None /\ m.phase = "Edits" /\ m.edits = {}
      /\ PairsAre /\ PartsAre /\ LinkIs /\ rows' = rows
    BY DEF Inv, MergeInv, Edits, In, EditsDone
<1>2. merge' = [m EXCEPT !.phase = "RightRank"]
    BY DEF Edits
<1>3. /\ merge' \in MergeRecords /\ SameMerge
      /\ merge'.staged = m.staged /\ merge'.changed = m.changed /\ merge'.delta = m.delta
      /\ merge'.phase = "RightRank" /\ merge'.pairs = m.pairs /\ merge'.pair = m.pair
      /\ merge'.left = m.left /\ merge'.right = m.right /\ merge'.lefts = m.lefts
      /\ merge'.rights = m.rights /\ merge'.rank = m.rank
    BY <1>1, <1>2 DEF MergeRecords, SameMerge, Phases
<1>4. \A w : OfPair(w)' = OfPair(w) /\ Reps(w)' = Reps(w) /\ K(w)' = K(w)
    BY <1>3, SameWorlds DEF OfPair, SameMerge, m
<1>5. PairsAre' /\ PartsAre' /\ LinkIs'
  <2>1. PairsAre'
      BY <1>1, <1>3 DEF PairsAre, Ranking, SameMerge, m
  <2>2. PartsAre' /\ LinkIs'
      BY <1>1, <1>3, <1>4 DEF PartsAre, LinkIs, Ranking, m
  <2>3. QED
      BY <2>1, <2>2
<1>6. \A w : Todo(w)' <=> Todo(w)
    BY <1>1, <1>3, <1>4 DEF Todo, Ranking, m
<1>7. \A w, edit : ~Waiting(w, edit) /\ ~Waiting(w, edit)'
    BY <1>1, <1>3 DEF Waiting, m
<1>8. QED
    BY <1>3, <1>5, <1>6, <1>7, QuietStep

(* The next edit is one of those left, and a new rank is written after the *)
(* old one is shed.                                                        *)
LEMMA NextEditIs ==
    ASSUME m.edits \in SUBSET Steps, m.edits # {}
    PROVE  NextEdit \in m.edits /\ (NextEdit = "grow" => "shed" \notin m.edits)
<1> DEFINE turns == {Turn[e] : e \in m.edits}
<1>1. \A e \in Steps : Turn[e] \in Nat
    BY DEF Turn, Steps
<1>2. turns \in SUBSET Nat /\ turns # {}
    BY <1>1
<1>3. PICK t \in turns : \A u \in turns : t <= u
  <2> HIDE DEF turns
  <2>1. QED
      BY <1>2, LeastNatural
<1>4. \E e \in m.edits : \A f \in m.edits : Turn[e] <= Turn[f]
    BY <1>3
<1>5. NextEdit \in m.edits /\ \A f \in m.edits : Turn[NextEdit] <= Turn[f]
    BY <1>4 DEF NextEdit
<1>6. ~(Turn["grow"] <= Turn["shed"])
    BY DEF Turn
<1>7. QED
    BY <1>5, <1>6

(* The rows `now' are those of root and what one edit of the link wrote.   *)
Edited(edit, root, link, now) ==
    /\ \A v, p \in Var : \A w :
          /\ w \in now.PARENT[v][p] <=>
                \/ w \in root.PARENT[v][p]
                \/ edit = "parent" /\ v = link.loser /\ p = link.winner /\ w \in link.cond
          /\ w \in now.CHILD[p][v] <=>
                \/ w \in root.CHILD[p][v]
                \/ edit = "child" /\ v = link.loser /\ p = link.winner /\ w \in link.cond
    /\ \A v \in Var, k \in Rank : \A w :
          w \in now.RANK[v][k] <=>
             \/ /\ w \in root.RANK[v][k]
                /\ ~(edit = "shed" /\ v = link.winner /\ k = m.rank /\ w \in link.cond)
             \/ edit = "grow" /\ v = link.winner /\ k = m.rank + 1 /\ w \in link.cond

(* What an edit has written.                                               *)
LEMMA WrittenIs ==
    ASSUME NEW root \in Rows, NEW link \in LinkRecords, NEW edit \in Steps,
           edit = "shed" => m.rank \in Rank, edit = "grow" => m.rank + 1 \in Rank
    PROVE  /\ Written(edit, root, link) \in Rows
           /\ Edited(edit, root, link, Written(edit, root, link))
<1>1. /\ link.winner \in Var /\ link.loser \in Var /\ link.cond \in Condition
      /\ root.PARENT \in Names /\ root.CHILD \in Names /\ root.RANK \in RankNames
    BY DEF LinkRecords, Rows, Names, RankNames
<1>2. Rows = [PARENT : Names, CHILD : Names, RANK : RankNames]
    BY DEF Rows, Names, RankNames
<1>3. CASE edit = "parent"
  <2> DEFINE t == With(root.PARENT, link.loser, link.winner, link.cond)
  <2>1. /\ t \in Names
        /\ \A v, p \in Var : \A w : w \in t[v][p] <=>
             w \in root.PARENT[v][p] \/ (v = link.loser /\ p = link.winner /\ w \in link.cond)
    <3>1. /\ root.PARENT \in Names
          /\ link.winner \in Var /\ link.loser \in Var /\ link.cond \in Condition
        BY <1>1
    <3>2. t \in Names
        BY ONLY <3>1, NamesKept
    <3>3. ASSUME NEW v \in Var, NEW p \in Var, NEW w
          PROVE  w \in t[v][p] <=>
                   w \in root.PARENT[v][p] \/ (v = link.loser /\ p = link.winner /\ w \in link.cond)
        BY ONLY <3>1, NameAdded
    <3>4. QED
        BY <3>2, <3>3
  <2>2. Written(edit, root, link) = [root EXCEPT !.PARENT = t]
      BY <1>3 DEF Written
  <2> HIDE DEF t
  <2>3. /\ Written(edit, root, link) \in Rows
        /\ Written(edit, root, link).PARENT = t
        /\ Written(edit, root, link).CHILD = root.CHILD
        /\ Written(edit, root, link).RANK = root.RANK
      BY <1>1, <1>2, <2>1, <2>2
  <2>4. Edited(edit, root, link, Written(edit, root, link))
      BY <1>3, <2>1, <2>3 DEF Edited
  <2>5. QED
      BY <2>3, <2>4
<1>4. CASE edit = "child"
  <2> DEFINE t == With(root.CHILD, link.winner, link.loser, link.cond)
  <2>1. /\ t \in Names
        /\ \A p, v \in Var : \A w : w \in t[p][v] <=>
             w \in root.CHILD[p][v] \/ (p = link.winner /\ v = link.loser /\ w \in link.cond)
    <3>1. /\ root.CHILD \in Names
          /\ link.winner \in Var /\ link.loser \in Var /\ link.cond \in Condition
        BY <1>1
    <3>2. t \in Names
        BY ONLY <3>1, NamesKept
    <3>3. ASSUME NEW v \in Var, NEW p \in Var, NEW w
          PROVE  w \in t[p][v] <=>
                   w \in root.CHILD[p][v] \/ (p = link.winner /\ v = link.loser /\ w \in link.cond)
        BY ONLY <3>1, NameAdded
    <3>4. QED
        BY <3>2, <3>3
  <2>2. Written(edit, root, link) = [root EXCEPT !.CHILD = t]
      BY <1>4 DEF Written, WriteChild
  <2> HIDE DEF t
  <2>3. /\ Written(edit, root, link) \in Rows
        /\ Written(edit, root, link).CHILD = t
        /\ Written(edit, root, link).PARENT = root.PARENT
        /\ Written(edit, root, link).RANK = root.RANK
      BY <1>1, <1>2, <2>1, <2>2
  <2>4. Edited(edit, root, link, Written(edit, root, link))
      BY <1>4, <2>1, <2>3 DEF Edited
  <2>5. QED
      BY <2>3, <2>4
<1>5. CASE edit = "shed"
  <2> DEFINE t == Without(root.RANK, link.winner, m.rank, link.cond)
  <2>1. /\ t \in RankNames
        /\ \A v \in Var, k \in Rank : \A w : w \in t[v][k] <=>
             w \in root.RANK[v][k] /\ ~(v = link.winner /\ k = m.rank /\ w \in link.cond)
    <3>1. /\ root.RANK \in RankNames
          /\ link.winner \in Var /\ link.cond \in Condition /\ m.rank \in Rank
        BY <1>1, <1>5
    <3>2. t \in RankNames
        BY ONLY <3>1, RanksKept
    <3>3. ASSUME NEW v \in Var, NEW k \in Rank, NEW w
          PROVE  w \in t[v][k] <=>
                   w \in root.RANK[v][k] /\ ~(v = link.winner /\ k = m.rank /\ w \in link.cond)
        BY ONLY <3>1, RankRemoved
    <3>4. QED
        BY <3>2, <3>3
  <2>2. Written(edit, root, link) = [root EXCEPT !.RANK = t]
      BY <1>5 DEF Written
  <2> HIDE DEF t
  <2>3. /\ Written(edit, root, link) \in Rows
        /\ Written(edit, root, link).RANK = t
        /\ Written(edit, root, link).PARENT = root.PARENT
        /\ Written(edit, root, link).CHILD = root.CHILD
      BY <1>1, <1>2, <2>1, <2>2
  <2>4. Edited(edit, root, link, Written(edit, root, link))
      BY <1>5, <2>1, <2>3 DEF Edited
  <2>5. QED
      BY <2>3, <2>4
<1>6. CASE edit = "grow"
  <2> DEFINE t == With(root.RANK, link.winner, m.rank + 1, link.cond)
  <2>1. /\ t \in RankNames
        /\ \A v \in Var, k \in Rank : \A w : w \in t[v][k] <=>
             w \in root.RANK[v][k] \/ (v = link.winner /\ k = m.rank + 1 /\ w \in link.cond)
    <3>1. /\ root.RANK \in RankNames
          /\ link.winner \in Var /\ link.cond \in Condition /\ m.rank + 1 \in Rank
        BY <1>1, <1>6
    <3>2. t \in RankNames
        BY ONLY <3>1, RanksKept
    <3>3. ASSUME NEW v \in Var, NEW k \in Rank, NEW w
          PROVE  w \in t[v][k] <=>
                   w \in root.RANK[v][k] \/ (v = link.winner /\ k = m.rank + 1 /\ w \in link.cond)
        BY ONLY <3>1, RankAdded
    <3>4. QED
        BY <3>2, <3>3
  <2>2. Written(edit, root, link) = [root EXCEPT !.RANK = t]
      BY <1>6 DEF Written
  <2> HIDE DEF t
  <2>3. /\ Written(edit, root, link) \in Rows
        /\ Written(edit, root, link).RANK = t
        /\ Written(edit, root, link).PARENT = root.PARENT
        /\ Written(edit, root, link).CHILD = root.CHILD
      BY <1>1, <1>2, <2>1, <2>2
  <2>4. Edited(edit, root, link, Written(edit, root, link))
      BY <1>6, <2>1, <2>3 DEF Edited
  <2>5. QED
      BY <2>3, <2>4
<1>7. CASE edit = "changed"
    BY <1>7 DEF Written, Edited
<1>8. QED
    BY <1>3, <1>4, <1>5, <1>6, <1>7 DEF Steps

(* Who wins a link in a world where the two variables differ.              *)
LEMMA WinnerIs ==
    ASSUME Inv, m # None, NEW w \in World, Linkable(w)
    PROVE  /\ Winner(w) \in Var /\ Loser(w) \in Var /\ Winner(w) # Loser(w)
           /\ P(w)[Loser(w)] = Loser(w)
           /\ IsRoot(P(w), Winner(w)) /\ IsRoot(P(w), Loser(w))
           /\ K(w)[Loser(w)] <= K(w)[Winner(w)]
           /\ Tied(w) <=> K(w)[Winner(w)] = K(w)[Loser(w)]
           /\ Tied(w) => K(w)[Winner(w)] = K(w)[Lft(w)] /\ K(w)[Winner(w)] + 1 \in Rank
<1>1. /\ m.x \in Var /\ m.y \in Var
      /\ P(w) \in [Var -> Var] /\ K(w) \in [Var -> {0} \cup Rank]
      /\ Rooted(P(w)) /\ Sized(P(w), K(w))
    BY DEF Inv, MergeInv, MergeRecords, WorldSound
<1>2. /\ Lft(w) \in Var /\ Rgt(w) \in Var /\ Lft(w) # Rgt(w)
      /\ IsRoot(P(w), Lft(w)) /\ IsRoot(P(w), Rgt(w))
    BY <1>1, RootIsTheRoot DEF Lft, Rgt, Linkable
<1>3. K(w)[Lft(w)] \in Nat /\ K(w)[Rgt(w)] \in Nat
    BY <1>1, <1>2 DEF Rank
<1>4. Forests!Wins(K(w), Lft(w), Rgt(w)) => K(w)[Rgt(w)] <= K(w)[Lft(w)]
    BY <1>3 DEF Forests!Wins
<1>5. ~Forests!Wins(K(w), Lft(w), Rgt(w)) => K(w)[Lft(w)] <= K(w)[Rgt(w)]
    BY <1>3 DEF Forests!Wins
<1>6. \/ Winner(w) = Lft(w) /\ Loser(w) = Rgt(w) /\ K(w)[Rgt(w)] <= K(w)[Lft(w)]
      \/ Winner(w) = Rgt(w) /\ Loser(w) = Lft(w) /\ K(w)[Lft(w)] <= K(w)[Rgt(w)]
    BY <1>4, <1>5 DEF Winner, Loser
<1>7. /\ Winner(w) \in Var /\ Loser(w) \in Var /\ Winner(w) # Loser(w)
      /\ IsRoot(P(w), Winner(w)) /\ IsRoot(P(w), Loser(w))
      /\ K(w)[Loser(w)] <= K(w)[Winner(w)]
    BY <1>2, <1>6
<1>8. Tied(w) <=> K(w)[Winner(w)] = K(w)[Loser(w)]
    BY <1>6 DEF Tied
<1>9. Tied(w) => K(w)[Winner(w)] = K(w)[Lft(w)]
    BY <1>6 DEF Tied
<1>10. K(w)[Loser(w)] = K(w)[Winner(w)] => K(w)[Winner(w)] + 1 \in Rank
    BY <1>1, <1>7, LinkKeepsSizes
<1>11. QED
    BY <1>7, <1>8, <1>9, <1>10 DEF IsRoot

(* One row of a link is written: in its worlds one edit is no longer to do *)
LEMMA EditsStep == Inv /\ Edits /\ ~EditsDone => Inv'
<1> SUFFICES ASSUME Inv, Edits, ~EditsDone PROVE Inv'
    OBVIOUS
<1> DEFINE e == NextEdit
           now == Written(e, m.staged, m.link)
           changed == IF e = "changed" THEN m.changed \cup m.link.cond ELSE m.changed
<1>1. /\ m \in MergeRecords /\ m # None /\ m.phase = "Edits" /\ m.edits # {}
      /\ MergeInv /\ PairsAre /\ PartsAre /\ LinkIs /\ rows' = rows
    BY DEF Inv, MergeInv, Edits, In, EditsDone
<1>2. e \in m.edits /\ e \in Steps /\ (e = "grow" => "shed" \notin m.edits)
    BY <1>1, NextEditIs DEF MergeRecords
<1>3. merge' = [m EXCEPT !.edits = m.edits \ {e}, !.staged = now, !.changed = changed]
    BY <1>1 DEF Edits, EditsDone, MergeRecords
<1> HIDE DEF e
<1>4. /\ m.link \in LinkRecords /\ m.link.cond # {} /\ m.link.cond \in Condition
      /\ m.staged \in Rows /\ m.rank \in {0} \cup Rank /\ m.pair[1] # m.pair[2]
      /\ m.pair = <<m.pair[1], m.pair[2]>> /\ m.pair \notin m.pairs
    BY <1>1, SupportIs DEF LinkIs, LinkRecords, MergeRecords, PairsAre, Ranking
<1>5. ASSUME NEW w \in m.link.cond
      PROVE  /\ w \in World /\ OfPair(w) /\ w \notin m.lefts /\ w \notin m.rights
             /\ Linkable(w) /\ Lft(w) = m.pair[1]
             /\ m.link.winner = Winner(w) /\ m.link.loser = Loser(w)
             /\ K(w)[Lft(w)] = m.rank
             /\ "grow" \in m.edits => Tied(w)
             /\ "shed" \in m.edits => "grow" \in m.edits
             /\ Tied(w) /\ m.rank = 0 => "shed" \notin m.edits
  <2>1. /\ OfPair(w) /\ w \notin m.lefts /\ w \notin m.rights
        /\ m.link.winner = Winner(w) /\ m.link.loser = Loser(w)
        /\ K(w)[m.pair[1]] = m.rank
        /\ "grow" \in m.edits => Tied(w)
        /\ "shed" \in m.edits => "grow" \in m.edits
        /\ Tied(w) /\ m.rank = 0 => "shed" \notin m.edits
      BY <1>1 DEF LinkIs
  <2>2. w \in World
      BY <1>4 DEF Condition
  <2>3. Lft(w) = m.pair[1] /\ Rgt(w) = m.pair[2] /\ w \in m.scope
      BY <1>4, <2>1 DEF OfPair, Reps
  <2>4. Linkable(w)
      BY <1>4, <2>3 DEF Linkable
  <2>5. QED
      BY <2>1, <2>2, <2>3, <2>4
<1>6. (e = "shed" => m.rank \in Rank) /\ (e = "grow" => m.rank + 1 \in Rank)
  <2>1. PICK w \in m.link.cond : TRUE
      BY <1>4
  <2>2. e = "shed" => Tied(w) /\ m.rank # 0
      BY <1>2, <1>5
  <2>3. Tied(w) => K(w)[Lft(w)] + 1 \in Rank
    <3>1. w \in World /\ Linkable(w)
        BY <1>5
    <3>2. QED
        BY <1>1, <3>1, WinnerIs
  <2>4. QED
      BY <1>2, <1>4, <1>5, <2>2, <2>3
<1>7. now \in Rows /\ Edited(e, m.staged, m.link, now)
  <2>1. m.staged \in Rows /\ m.link \in LinkRecords /\ e \in Steps
      BY <1>2, <1>4
  <2>2. QED
      BY ONLY <1>6, <2>1, WrittenIs
<1> HIDE DEF now
<1>8. changed \in Condition
    BY <1>1, <1>4 DEF MergeRecords, Condition
<1>9. \A w : w \in changed <=> w \in m.changed \/ (e = "changed" /\ w \in m.link.cond)
    OBVIOUS
<1> HIDE DEF changed
<1>10. /\ merge' \in MergeRecords /\ SameMerge
       /\ merge'.staged = now /\ merge'.changed = changed /\ merge'.delta = m.delta
       /\ merge'.link = m.link /\ merge'.edits = m.edits \ {e}
       /\ merge'.phase = "Edits" /\ merge'.pairs = m.pairs /\ merge'.pair = m.pair
       /\ merge'.left = m.left /\ merge'.right = m.right
       /\ merge'.lefts = m.lefts /\ merge'.rights = m.rights /\ merge'.rank = m.rank
  <2>1. m.edits \ {e} \in SUBSET Steps
      BY <1>1 DEF MergeRecords
  <2>2. QED
      BY <1>1, <1>3, <1>7, <1>8, <2>1 DEF MergeRecords, SameMerge
<1>11. \A w : /\ OfPair(w)' = OfPair(w) /\ Reps(w)' = Reps(w) /\ K(w)' = K(w) /\ P(w)' = P(w)
              /\ Tied(w)' = Tied(w) /\ Winner(w)' = Winner(w) /\ Loser(w)' = Loser(w)
              /\ Linkable(w)' = Linkable(w)
    BY <1>10, SameWorlds DEF OfPair, SameMerge, m
<1>12. PairsAre' /\ PartsAre' /\ LinkIs'
  <2>1. PairsAre'
      BY <1>1, <1>10 DEF PairsAre, Ranking, SameMerge, m
  <2>2. PartsAre'
      BY <1>1, <1>10, <1>11 DEF PartsAre, Ranking, m
  <2>3. LinkIs'
      BY <1>1, <1>2, <1>4, <1>10, <1>11 DEF LinkIs, m
  <2>4. QED
      BY <2>1, <2>2, <2>3
<1>13. \A w : (Todo(w)' <=> Todo(w)) /\ (Staged(w)' <=> Staged(w))
  <2>1. \A w : Todo(w)' <=> Todo(w)
      BY <1>1, <1>10, <1>11 DEF Todo, Ranking, m
  <2>2. QED
      BY <1>11, <2>1 DEF Staged
<1>14. \A w \in m.link.cond : Staged(w)
    BY <1>1, <1>4, <1>5 DEF Staged, Todo, OfPair, Ranking
<1>15. \A w, edit : /\ Waiting(w, edit) <=> w \in m.link.cond /\ edit \in m.edits
                    /\ Waiting(w, edit)' <=> w \in m.link.cond /\ edit \in m.edits \ {e}
    BY <1>1, <1>10 DEF Waiting, m
<1>16. ASSUME NEW w \in World PROVE DeltaFits(w)'
  <2>1. DeltaFits(w)
      BY <1>1 DEF MergeInv
  <2>2. QED
      BY <1>10, <1>11, <1>13, <2>1 DEF DeltaFits, m
<1>17. ASSUME NEW w \in World, w \notin m.link.cond PROVE StagedFits(w)'
  <2>1. StagedFits(w)
      BY <1>1 DEF MergeInv
  <2>2. \A edit : Wrote(w, edit)' = Wrote(w, edit)
      BY <1>13, <1>15, <1>17 DEF Wrote
  <2>3. /\ StagedRank(w)' = StagedRank(w)
        /\ \A edit : StagedParent(w, edit)' = StagedParent(w, edit)
      BY <1>11, <2>2 DEF StagedRank, StagedParent
  <2>4. /\ \A v, p \in Var : /\ w \in now.PARENT[v][p] <=> w \in m.staged.PARENT[v][p]
                             /\ w \in now.CHILD[p][v] <=> w \in m.staged.CHILD[p][v]
        /\ \A v \in Var, k \in Rank : w \in now.RANK[v][k] <=> w \in m.staged.RANK[v][k]
        /\ w \in changed <=> w \in m.changed
      BY <1>7, <1>9, <1>17 DEF Edited
  <2>5. ParentFits(now, w, StagedParent(w, "parent"))
      BY <2>1, <2>4 DEF StagedFits, ParentFits
  <2>6. ChildFits(now, w, StagedParent(w, "child"))
      BY <2>1, <2>4 DEF StagedFits, ChildFits
  <2>7. RankFits(now, w, StagedRank(w))
      BY <2>1, <2>4 DEF StagedFits, RankFits
  <2>8. w \in changed <=> Wrote(w, "changed")
      BY <2>1, <2>4 DEF StagedFits
  <2>9. QED
      BY <1>10, <2>2, <2>3, <2>5, <2>6, <2>7, <2>8
      DEF StagedFits, ParentFits, ChildFits, RankFits, m
<1>18. ASSUME NEW w \in m.link.cond PROVE StagedFits(w)'
  <2> DEFINE win == m.link.winner
             lose == m.link.loser
  <2>1. w \in World /\ Linkable(w) /\ StagedFits(w) /\ WorldSound(w)
      BY <1>1, <1>5 DEF MergeInv, Inv
  <2>2. /\ win = Winner(w) /\ lose = Loser(w) /\ win \in Var /\ lose \in Var /\ win # lose
        /\ P(w)[lose] = lose /\ P(w) \in [Var -> Var]
        /\ K(w) \in [Var -> {0} \cup Rank]
        /\ Tied(w) => K(w)[win] = m.rank
    <3>1. win = Winner(w) /\ lose = Loser(w) /\ K(w)[Lft(w)] = m.rank
        BY <1>5
    <3>2. P(w) \in [Var -> Var] /\ K(w) \in [Var -> {0} \cup Rank]
        BY <2>1 DEF WorldSound
    <3>3. QED
        BY <1>1, <2>1, <3>1, <3>2, WinnerIs
  <2> HIDE DEF win, lose
  <2>3. \A edit : /\ Wrote(w, edit) <=> edit \notin m.edits
                  /\ Wrote(w, edit)' <=> edit \notin m.edits \/ edit = e
      BY <1>13, <1>14, <1>15 DEF Wrote
  <2>4. ParentFits(now, w, StagedParent(w, "parent")')
    <3>1. \A v, p \in Var : w \in now.PARENT[v][p] <=>
              w \in m.staged.PARENT[v][p] \/ (e = "parent" /\ v = lose /\ p = win)
        BY <1>7 DEF Edited, win, lose
    <3>2. ParentFits(m.staged, w, StagedParent(w, "parent"))
        BY <2>1 DEF StagedFits
    <3>3. CASE e = "parent"
      <4>1. /\ StagedParent(w, "parent") = P(w)
            /\ StagedParent(w, "parent")' = Linked(P(w), win, lose)
          BY <1>2, <1>11, <2>2, <2>3, <3>3 DEF StagedParent
      <4>2. QED
          BY <2>2, <3>1, <3>2, <3>3, <4>1 DEF ParentFits, Linked
    <3>4. CASE e # "parent"
      <4>1. StagedParent(w, "parent")' = StagedParent(w, "parent")
          BY <1>11, <2>3, <3>4 DEF StagedParent
      <4>2. QED
          BY <3>1, <3>2, <3>4, <4>1 DEF ParentFits
    <3>5. QED
        BY <3>3, <3>4
  <2>5. ChildFits(now, w, StagedParent(w, "child")')
    <3>1. \A v, p \in Var : w \in now.CHILD[p][v] <=>
              w \in m.staged.CHILD[p][v] \/ (e = "child" /\ v = lose /\ p = win)
        BY <1>7 DEF Edited, win, lose
    <3>2. ChildFits(m.staged, w, StagedParent(w, "child"))
        BY <2>1 DEF StagedFits
    <3>3. CASE e = "child"
      <4>1. /\ StagedParent(w, "child") = P(w)
            /\ StagedParent(w, "child")' = Linked(P(w), win, lose)
          BY <1>2, <1>11, <2>2, <2>3, <3>3 DEF StagedParent
      <4>2. QED
          BY <2>2, <3>1, <3>2, <3>3, <4>1 DEF ChildFits, Linked
    <3>4. CASE e # "child"
      <4>1. StagedParent(w, "child")' = StagedParent(w, "child")
          BY <1>11, <2>3, <3>4 DEF StagedParent
      <4>2. QED
          BY <3>1, <3>2, <3>4, <4>1 DEF ChildFits
    <3>5. QED
        BY <3>3, <3>4
  <2>6. RankFits(now, w, StagedRank(w)')
    <3>1. \A v \in Var, k \in Rank : w \in now.RANK[v][k] <=>
              \/ w \in m.staged.RANK[v][k] /\ ~(e = "shed" /\ v = win /\ k = m.rank)
              \/ e = "grow" /\ v = win /\ k = m.rank + 1
        BY <1>7, <1>18 DEF Edited, win
    <3>2. RankFits(m.staged, w, StagedRank(w))
        BY <2>1 DEF StagedFits
    <3>3. CASE e = "shed"
      <4>1. Tied(w) /\ "grow" \in m.edits
          BY <1>2, <1>5, <3>3
      <4>2. /\ StagedRank(w) = K(w)
            /\ StagedRank(w)' = [K(w) EXCEPT ![win] = 0]
          BY <1>2, <1>11, <2>2, <2>3, <3>3, <4>1 DEF StagedRank
      <4>3. 0 \notin Rank /\ K(w)[win] = m.rank
          BY <2>2, <4>1 DEF Rank
      <4>4. QED
          BY <2>2, <3>1, <3>2, <3>3, <4>2, <4>3 DEF RankFits
    <3>4. CASE e = "grow"
      <4>1. Tied(w) /\ "shed" \notin m.edits /\ "grow" \in m.edits
          BY <1>2, <1>5, <3>4
      <4>2. /\ StagedRank(w) = [K(w) EXCEPT ![win] = 0]
            /\ StagedRank(w)' = [K(w) EXCEPT ![win] = K(w)[win] + 1]
          BY <1>2, <1>11, <2>2, <2>3, <3>4, <4>1 DEF StagedRank
      <4>3. 0 \notin Rank /\ K(w)[win] = m.rank
          BY <2>2, <4>1 DEF Rank
      <4>4. QED
          BY <2>2, <3>1, <3>2, <3>4, <4>2, <4>3 DEF RankFits
    <3>5. CASE e \notin {"shed", "grow"}
      <4>1. StagedRank(w)' = StagedRank(w)
          BY <1>11, <2>3, <3>5 DEF StagedRank
      <4>2. QED
          BY <3>1, <3>2, <3>5, <4>1 DEF RankFits
    <3>6. QED
        BY <3>3, <3>4, <3>5
  <2>7. w \in changed <=> Wrote(w, "changed")'
      BY <1>9, <2>1, <2>3 DEF StagedFits
  <2>8. QED
      BY <1>10, <2>4, <2>5, <2>6, <2>7
      DEF StagedFits, ParentFits, ChildFits, RankFits, m
<1>19. MergeInv'
    BY <1>10, <1>12, <1>16, <1>17, <1>18 DEF MergeInv, m
<1>20. rows' \in Rows /\ \A w \in World : WorldSound(w)'
    BY <1>10, SameWorlds DEF Inv, SameMerge
<1>21. QED
    BY <1>19, <1>20 DEF Inv

(* The rows a finished merge hands over, world by world.                   *)
LEMMA DoneIs ==
    ASSUME Inv, m # None, m.phase = "Done", NEW w \in World
    PROVE  LET parent == ParentIn(m.staged, w)
               ranks == RankIn(m.staged, w)
           IN /\ parent = IF Linkable(w) THEN Linked(P(w), Winner(w), Loser(w)) ELSE P(w)
              /\ ranks = IF Linkable(w) THEN Forests!Ranked(K(w), Winner(w), Loser(w)) ELSE K(w)
              /\ parent \in [Var -> Var] /\ ranks \in [Var -> {0} \cup Rank]
              /\ ParentFits(m.staged, w, parent) /\ ChildFits(m.staged, w, parent)
              /\ RankFits(m.staged, w, ranks)
              /\ Rooted(parent) /\ Sized(parent, ranks)
              /\ w \in m.changed <=> Linkable(w)
              /\ (\E i \in DOMAIN m.delta : w \in m.delta[i].cond) <=> Linkable(w)
              /\ \A i \in DOMAIN m.delta : w \in m.delta[i].cond => m.delta[i].var = Loser(w)
<1> DEFINE f == IF Linkable(w) THEN Linked(P(w), Winner(w), Loser(w)) ELSE P(w)
           ranks == IF Linkable(w) THEN Forests!Ranked(K(w), Winner(w), Loser(w)) ELSE K(w)
<1>1. StagedFits(w) /\ DeltaFits(w) /\ WorldSound(w) /\ PairsAre
    BY DEF Inv, MergeInv
<1>2. ~Todo(w)
    BY <1>1 DEF Todo, PairsAre, Ranking
<1>3. /\ Staged(w) <=> Linkable(w)
      /\ \A edit : Wrote(w, edit) <=> Linkable(w)
    BY <1>2 DEF Staged, Wrote, Waiting
<1>4. /\ f \in [Var -> Var] /\ Rooted(f)
      /\ ranks \in [Var -> {0} \cup Rank] /\ Sized(f, ranks)
  <2>1. CASE Linkable(w)
    <3>1. /\ Winner(w) \in Var /\ Loser(w) \in Var /\ Winner(w) # Loser(w)
          /\ IsRoot(P(w), Winner(w)) /\ IsRoot(P(w), Loser(w))
          /\ K(w)[Loser(w)] <= K(w)[Winner(w)]
        BY <2>1, WinnerIs
    <3>2. /\ P(w) \in [Var -> Var] /\ K(w) \in [Var -> {0} \cup Rank]
          /\ Rooted(P(w)) /\ Sized(P(w), K(w))
        BY <1>1 DEF WorldSound
    <3>3. /\ Linked(P(w), Winner(w), Loser(w)) \in [Var -> Var]
          /\ Rooted(Linked(P(w), Winner(w), Loser(w)))
        BY <3>1, <3>2, LinkMovesClass
    <3>4. /\ Forests!Ranked(K(w), Winner(w), Loser(w)) \in [Var -> {0} \cup Rank]
          /\ Sized(Linked(P(w), Winner(w), Loser(w)), Forests!Ranked(K(w), Winner(w), Loser(w)))
        BY <3>1, <3>2, LinkKeepsSizes
    <3>5. QED
        BY <2>1, <3>3, <3>4
  <2>2. CASE ~Linkable(w)
      BY <1>1, <2>2 DEF WorldSound
  <2>3. QED
      BY <2>1, <2>2
<1>5. StagedParent(w, "parent") = f /\ StagedParent(w, "child") = f
    BY <1>3 DEF StagedParent
<1>6. StagedRank(w) = ranks
  <2>1. CASE Linkable(w) /\ Tied(w)
    <3>1. K(w)[Winner(w)] = K(w)[Loser(w)]
        BY <2>1, WinnerIs
    <3>2. QED
        BY <1>3, <2>1, <3>1 DEF StagedRank, Forests!Ranked
  <2>2. CASE Linkable(w) /\ ~Tied(w)
    <3>1. /\ K(w)[Winner(w)] # K(w)[Loser(w)] /\ K(w) \in [Var -> {0} \cup Rank]
          /\ Winner(w) \in Var
        BY <1>1, <2>2, WinnerIs DEF WorldSound
    <3>2. ranks = K(w)
        BY <2>2, <3>1 DEF Forests!Ranked
    <3>3. QED
        BY <1>3, <2>2, <3>2 DEF StagedRank
  <2>3. CASE ~Linkable(w)
      BY <1>3, <2>3 DEF StagedRank
  <2>4. QED
      BY <2>1, <2>2, <2>3
<1> HIDE DEF f, ranks
<1>7. /\ ParentFits(m.staged, w, f) /\ ChildFits(m.staged, w, f)
      /\ RankFits(m.staged, w, ranks)
    BY <1>1, <1>5, <1>6 DEF StagedFits
<1>8. ParentIn(m.staged, w) = f /\ RankIn(m.staged, w) = ranks
    BY <1>4, <1>7, ParentsAreRead, RanksAreRead
<1>9. /\ w \in m.changed <=> Linkable(w)
      /\ (\E i \in DOMAIN m.delta : w \in m.delta[i].cond) <=> Linkable(w)
      /\ \A i \in DOMAIN m.delta : w \in m.delta[i].cond => m.delta[i].var = Loser(w)
    BY <1>1, <1>3 DEF StagedFits, DeltaFits
<1>10. QED
    BY <1>4, <1>7, <1>8, <1>9 DEF f, ranks

(* The staged root becomes the root.                                       *)
LEMMA PublishStep == Inv /\ Publish => Inv'
<1> SUFFICES ASSUME Inv, Publish PROVE Inv'
    OBVIOUS
<1>1. m # None /\ m.phase = "Done" /\ rows' = m.staged /\ merge' = None
    BY DEF Publish, In
<1>2. rows' \in Rows
    BY <1>1 DEF Inv, MergeInv, MergeRecords
<1>3. ASSUME NEW w \in World PROVE WorldSound(w)'
    BY <1>1, DoneIs DEF WorldSound, P, K
<1>4. QED
    BY <1>1, <1>2, <1>3 DEF Inv, m

(* Every step keeps the invariant.                                         *)
LEMMA NextInv == Inv /\ [Next]_vars => Inv'
<1> SUFFICES ASSUME Inv, [Next]_vars PROVE Inv'
    OBVIOUS
<1>1. CASE \E x, y \in Var, scope \in Condition \ {{}} : Start(x, y, scope)
    BY <1>1, StartStep
<1>2. CASE Left
    BY <1>2, LeftStep
<1>3. CASE Right
    BY <1>3, RightStep
<1>4. CASE Pair
    BY <1>4, PairStep
<1>5. CASE PairSupport
    BY <1>5, SupportStep
<1>6. CASE LeftRank
    BY <1>6, LeftRankStep
<1>7. CASE RightRank
    BY <1>7, RightRankEnds, RightRankStages
<1>8. CASE Edits
    BY <1>8, EditsEnd, EditsStep
<1>9. CASE Publish
    BY <1>9, PublishStep
<1>10. CASE UNCHANGED vars
  <2>1. rows' = rows /\ m' = m
      BY <1>10 DEF vars, m
  <2>2. \A w : P(w)' = P(w) /\ K(w)' = K(w)
      BY <2>1 DEF P, K
  <2>3. \A w : Lft(w)' = Lft(w) /\ Rgt(w)' = Rgt(w)
      BY <2>1, <2>2 DEF Lft, Rgt
  <2>4. \A w : /\ Reps(w)' = Reps(w) /\ Linkable(w)' = Linkable(w) /\ Tied(w)' = Tied(w)
               /\ Winner(w)' = Winner(w) /\ Loser(w)' = Loser(w)
      BY <2>1, <2>2, <2>3 DEF Reps, Linkable, Tied, Winner, Loser
  <2>5. \A w : OfPair(w)' = OfPair(w) /\ Staged(w)' = Staged(w)
      BY <2>1, <2>4 DEF OfPair, Staged, Todo
  <2>6. \A w, edit : Wrote(w, edit)' = Wrote(w, edit)
      BY <2>1, <2>5 DEF Wrote, Waiting
  <2>7. \A w : /\ StagedRank(w)' = StagedRank(w)
               /\ \A edit : StagedParent(w, edit)' = StagedParent(w, edit)
      BY <2>2, <2>4, <2>6 DEF StagedRank, StagedParent
  <2>8. \A w \in World : WorldSound(w)'
      BY <2>1, <2>2 DEF Inv, WorldSound
  <2>9. m # None => PairsAre' /\ PartsAre' /\ LinkIs'
      BY <2>1, <2>2, <2>4, <2>5 DEF Inv, MergeInv, PairsAre, PartsAre, LinkIs
  <2>10. m # None => \A w \in World : StagedFits(w)' /\ DeltaFits(w)'
      BY <2>1, <2>4, <2>5, <2>6, <2>7 DEF Inv, MergeInv, StagedFits, DeltaFits
  <2>11. QED
      BY <2>1, <2>8, <2>9, <2>10 DEF Inv, MergeInv
<1>11. QED
    BY <1>1, <1>2, <1>3, <1>4, <1>5, <1>6, <1>7, <1>8, <1>9, <1>10 DEF Next

(* Between any two ticks of Merge::tick every world of the staged root has *)
(* its old forest, with the edits of one link that were taken there.       *)
THEOREM InvHolds == Spec => []Inv
BY InitInv, NextInv, PTL DEF Spec

-----------------------------------------------------------------------------
(* The theorems.                                                           *)

(* Rows of the current and of the staged root stay partitions, whatever    *)
(* the order in which Merge stages links and edits; edges are there in     *)
(* both directions in every published root; and the rank of a              *)
(* representative, which Merge counts up by one on a tie, stays below the  *)
(* logarithm of its class, so it cannot run over.                          *)
THEOREM RowsStayConsistent == Spec => []RowsConsistent
<1>1. ASSUME Inv PROVE PartitionsDisjoint
  <2>1. ASSUME NEW root \in {rows} \cup (IF m = None THEN {} ELSE {m.staged}), NEW w \in World
        PROVE  \E f, ranks : ParentFits(root, w, f) /\ RankFits(root, w, ranks)
    <3>1. CASE root = rows
        BY <1>1, <3>1 DEF Inv, WorldSound
    <3>2. CASE m # None /\ root = m.staged
        BY <1>1, <3>2 DEF Inv, MergeInv, StagedFits
    <3>3. QED
        BY <2>1, <3>1, <3>2
  <2>2. ASSUME NEW root \in {rows} \cup (IF m = None THEN {} ELSE {m.staged}), NEW v \in Var
        PROVE  /\ \A p, q \in Var : p # q => root.PARENT[v][p] \cap root.PARENT[v][q] = {}
               /\ \A j, k \in Rank : j # k => root.RANK[v][j] \cap root.RANK[v][k] = {}
    <3>1. root \in Rows
        BY <1>1, <2>2 DEF Inv, MergeInv, MergeRecords
    <3>2. /\ \A p \in Var : root.PARENT[v][p] \subseteq World
          /\ \A k \in Rank : root.RANK[v][k] \subseteq World
        BY <3>1 DEF Rows, Condition
    <3>3. ASSUME NEW p \in Var, NEW q \in Var, p # q
          PROVE  root.PARENT[v][p] \cap root.PARENT[v][q] = {}
      <4>1. ASSUME NEW w \in World PROVE ~(w \in root.PARENT[v][p] /\ w \in root.PARENT[v][q])
        <5>1. PICK f : ParentFits(root, w, f)
            BY <2>1, <2>2
        <5>2. QED
            BY <3>3, <5>1 DEF ParentFits
      <4>2. QED
          BY <3>2, <4>1
    <3>4. ASSUME NEW j \in Rank, NEW k \in Rank, j # k
          PROVE  root.RANK[v][j] \cap root.RANK[v][k] = {}
      <4>1. ASSUME NEW w \in World PROVE ~(w \in root.RANK[v][j] /\ w \in root.RANK[v][k])
        <5>1. PICK ranks : RankFits(root, w, ranks)
            BY <2>1, <2>2
        <5>2. QED
            BY <3>4, <5>1 DEF RankFits
      <4>2. QED
          BY <3>2, <4>1
    <3>5. QED
        BY <3>3, <3>4
  <2>3. QED
      BY <2>2 DEF PartitionsDisjoint
<1>2. ASSUME Inv PROVE ChildrenMirrorParents
  <2>1. ASSUME NEW p \in Var, NEW v \in Var PROVE rows.CHILD[p][v] = rows.PARENT[v][p]
    <3>1. rows.CHILD[p][v] \subseteq World /\ rows.PARENT[v][p] \subseteq World
        BY <1>2 DEF Inv, Rows, Condition
    <3>2. ASSUME NEW w \in World PROVE w \in rows.CHILD[p][v] <=> w \in rows.PARENT[v][p]
        BY <1>2 DEF Inv, WorldSound, ChildFits, ParentFits
    <3>3. QED
        BY <3>1, <3>2
  <2>2. QED
      BY <2>1 DEF ChildrenMirrorParents
<1>3. Inv => RankIsLogarithmic
    BY DEF Inv, WorldSound, Sized, RankIsLogarithmic, P, K
<1>4. Inv => RowsConsistent
    BY <1>1, <1>2, <1>3 DEF RowsConsistent, RowsAgree
<1>5. QED
    BY <1>4, InvHolds, PTL

(* The delta that the wake takes from a merge: in every world the seed's   *)
(* class, and no other variable, has a new representative after it, and    *)
(* `changed' is where that is so.                                          *)
THEOREM DeltasAreExact == Spec => DeltaNamesMovedClasses
<1>1. ASSUME Inv, [Next]_vars, rows' # rows
      PROVE  /\ m.changed = UNION {m.delta[i].cond : i \in DOMAIN m.delta}
             /\ \A w \in World, v \in Var :
                  Root(ParentIn(rows', w), v) # Root(ParentIn(rows, w), v) <=>
                     \E i \in DOMAIN m.delta :
                        /\ w \in m.delta[i].cond
                        /\ Root(ParentIn(rows, w), v) = m.delta[i].var
  <2>1. Publish
      BY <1>1 DEF Next, vars, Start, Left, Right, Pair, PairSupport, LeftRank, RightRank, Edits
  <2>2. m # None /\ m.phase = "Done" /\ rows' = m.staged
      BY <2>1 DEF Publish, In
  <2>3. /\ m.changed \subseteq World
        /\ \A i \in DOMAIN m.delta : m.delta[i].cond \subseteq World
    <3>1. m.changed \in Condition /\ m.delta \in Seq([var : Var, cond : Condition])
        BY <1>1, <2>2 DEF Inv, MergeInv, MergeRecords
    <3>2. \A i \in DOMAIN m.delta : m.delta[i] \in [var : Var, cond : Condition]
        BY <3>1, SeedIn
    <3>3. QED
        BY <3>1, <3>2 DEF Condition
  <2>4. ASSUME NEW w \in World
        PROVE  w \in m.changed <=> \E i \in DOMAIN m.delta : w \in m.delta[i].cond
      BY <1>1, <2>2, DoneIs
  <2>5. m.changed = UNION {m.delta[i].cond : i \in DOMAIN m.delta}
      BY <2>3, <2>4
  <2>6. ASSUME NEW w \in World, NEW v \in Var
        PROVE  Root(ParentIn(rows', w), v) # Root(ParentIn(rows, w), v) <=>
                   \E i \in DOMAIN m.delta :
                      /\ w \in m.delta[i].cond
                      /\ Root(ParentIn(rows, w), v) = m.delta[i].var
    <3>1. ParentIn(rows, w) = P(w) /\ P(w) \in [Var -> Var] /\ Rooted(P(w))
        BY <1>1 DEF Inv, WorldSound, P
    <3>2. /\ ParentIn(rows', w) = IF Linkable(w) THEN Linked(P(w), Winner(w), Loser(w)) ELSE P(w)
          /\ (\E i \in DOMAIN m.delta : w \in m.delta[i].cond) <=> Linkable(w)
          /\ \A i \in DOMAIN m.delta : w \in m.delta[i].cond => m.delta[i].var = Loser(w)
        BY <1>1, <2>2, DoneIs
    <3>3. CASE Linkable(w)
      <4>1. /\ Winner(w) \in Var /\ Loser(w) \in Var /\ Winner(w) # Loser(w)
            /\ IsRoot(P(w), Winner(w)) /\ IsRoot(P(w), Loser(w))
          BY <1>1, <2>2, <3>3, WinnerIs
      <4>2. Root(ParentIn(rows', w), v) = IF Root(P(w), v) = Loser(w) THEN Winner(w)
                                          ELSE Root(P(w), v)
          BY <3>1, <3>2, <3>3, <4>1, LinkMovesClass
      <4>3. QED
          BY <3>1, <3>2, <3>3, <4>1, <4>2
    <3>4. CASE ~Linkable(w)
        BY <3>1, <3>2, <3>4
    <3>5. QED
        BY <3>3, <3>4
  <2>7. QED
      BY <2>5, <2>6
<1>2. QED
    BY <1>1, InvHolds, PTL DEF Spec, DeltaNamesMovedClasses

(* Merge implements union by rank: publishing the staged root is one union *)
(* in every world of the scope, whatever links in however many conditions  *)
(* it took, and no other tick is seen.                                     *)
THEOREM ImplementsAbstract == Spec => ImplementsUnionFind
<1>1. Init => Forests!Init
  <2> SUFFICES ASSUME Init PROVE Forests!Init
      OBVIOUS
  <2>1. ASSUME NEW w \in World
        PROVE  ParentIn(rows, w) = [v \in Var |-> v] /\ RankIn(rows, w) = [v \in Var |-> 0]
      BY DEF Init, NoRows, ParentIn, RankIn
  <2>2. QED
      BY <2>1 DEF Init, Forests!Init
<1>2. ASSUME Inv, [Next]_vars PROVE [Forests!Next]_Forests!vars
  <2>1. CASE rows' = rows /\ same' = same
      BY <2>1 DEF Forests!vars
  <2>2. CASE Publish
    <3>1. /\ m # None /\ m.phase = "Done" /\ rows' = m.staged
          /\ same' = [w \in World |-> IF w \in m.scope
                                      THEN Forests!Equated(same[w], m.x, m.y) ELSE same[w]]
        BY <2>2 DEF Publish, In
    <3>2. m.x \in Var /\ m.y \in Var /\ m.scope \in SUBSET World
        BY <1>2, <3>1 DEF Inv, MergeInv, MergeRecords, Condition
    <3>3. ASSUME NEW w \in World
          PROVE  /\ ParentIn(rows', w) = IF w \in m.scope /\ Lft(w) # Rgt(w)
                                         THEN Linked(P(w), Winner(w), Loser(w)) ELSE P(w)
                 /\ RankIn(rows', w) = IF w \in m.scope /\ Lft(w) # Rgt(w)
                                       THEN Forests!Ranked(K(w), Winner(w), Loser(w)) ELSE K(w)
        BY <1>2, <3>1, DoneIs DEF Linkable
    <3> DEFINE parents == [w \in World |-> ParentIn(rows, w)]
               ranks == [w \in World |-> RankIn(rows, w)]
    <3>4. /\ \A f, v : Forests!Root(f, v) = Root(f, v)
          /\ \A f, k, l : Forests!Linked(f, k, l) = Linked(f, k, l)
        BY DEF Forests!Root, Forests!Reached, Forests!Closed, Forests!IsRoot, Forests!Linked,
               Root, Reached, Closed, IsRoot, Linked
    <3>5. \A w \in World : /\ parents[w] = P(w) /\ ranks[w] = K(w)
                           /\ Forests!Root(parents[w], m.x) = Lft(w)
                           /\ Forests!Root(parents[w], m.y) = Rgt(w)
        BY <3>4 DEF P, K, Lft, Rgt
    <3>6. Forests!Union(m.x, m.y, m.scope)
        BY <3>1, <3>2, <3>3, <3>4, <3>5 DEF Forests!Union, Winner, Loser
    <3>7. QED
        BY <3>2, <3>6 DEF Forests!Next
  <2>3. QED
      BY <1>2, <2>1, <2>2
      DEF Next, vars, Start, Left, Right, Pair, PairSupport, LeftRank, RightRank, Edits
<1>3. QED
    BY <1>1, <1>2, InvHolds, PTL DEF Spec, ImplementsUnionFind, Forests!Spec

(* And so Equal and Resolve, reading the rows, report in every world what  *)
(* the merges equated there, directly or by way of others, and no more.    *)
THEOREM ClassesAreWhatWasEquated == Spec => []Forests!PartitionIsWhatWasEquated
<1>1. Forests!Init => U!Init
    BY DEF Forests!Init, U!Init
<1>2. [Forests!Next]_Forests!vars => [U!Next]_U!vars
    BY DEF Forests!Next, Forests!vars, Forests!Union, Forests!Wins, Forests!Ranked,
           Forests!Equated, Forests!Root, Forests!Reached, Forests!Closed, Forests!IsRoot,
           Forests!Linked, U!Next, U!vars, U!Union, U!Wins, U!Ranked, U!Equated, U!Root,
           U!Reached, U!Closed, U!IsRoot, U!Linked
<1>3. U!PartitionIsWhatWasEquated => Forests!PartitionIsWhatWasEquated
    BY DEF Forests!PartitionIsWhatWasEquated, Forests!Rooted, Forests!Root, Forests!Reached,
           Forests!Closed, Forests!IsRoot, U!PartitionIsWhatWasEquated, U!Rooted, U!Root,
           U!Reached, U!Closed, U!IsRoot
<1>4. U!Spec => []U!PartitionIsWhatWasEquated
    BY VariablesAreNumbers, U!RepresentativesAreRight
<1>5. QED
    BY <1>1, <1>2, <1>3, <1>4, ImplementsAbstract, PTL
    DEF ImplementsUnionFind, Forests!Spec, U!Spec

-----------------------------------------------------------------------------
(* Prunes: what a prune returns.                                           *)

(* A variable has one parent in a world, and never itself.                 *)
Lone(identity) ==
    \A w \in World : \A v, p \in Var :
       w \in identity.PARENT[v][p] =>
          p # v /\ \A q \in Var : w \in identity.PARENT[v][q] => q = p

(* All rows of the identity are of the active worlds, and of variables     *)
(* that are needed there.                                                  *)
RowsNeeded(root, seeds, active) ==
    \A w \in World, v \in Var :
       (\/ \E p \in Var : w \in root.identity.PARENT[v][p] \/ w \in root.identity.CHILD[p][v]
        \/ \E k \in Rank : w \in root.identity.RANK[v][k]) =>
          w \in active /\ v \in Needed(root, seeds, w)

(* The types of the state of a prune.                                     *)
Roots == [live : [Cell -> Condition], identity : Rows]
SeedRecords == [var : Var, cond : Condition]
Certificates ==
    [root : Roots, active : Condition, order : Nat, free : BOOLEAN,
     seeds : Seq(SeedRecords), dirty : Seq(Cell)]

PrunePhases ==
    {"Records", "Certificate", "Noop", "Seeds", "Occurrences", "Next", "Identity", "Cleanup"}
PruneJobs ==
    [phase : PrunePhases, seeds : Seq(SeedRecords), given : Seq(SeedRecords), before : Roots,
     rows : SUBSET Cell, heads : SUBSET HeadsOf, names : SUBSET Var, free : BOOLEAN,
     next : Certificates \cup {NoCertificate},
     pending : [Var -> Condition], marked : [Var -> Condition]]

PruneTypes ==
    /\ base \in Roots /\ staged \in Roots
    /\ records \in [HeadsOf -> Condition]
    /\ live \in Condition /\ order \in Nat
    /\ certificate \in Certificates \cup {NoCertificate}
    /\ prune \in PruneJobs \cup {NoJob}

(* What a certificate says of its root: it is as a prune leaves it, but    *)
(* for the dirty rows.                                                     *)
CertificateTrue(c) ==
    /\ \A o \in Cell : o \in Range(c.dirty) \/ c.root.live[o] \subseteq c.active
    /\ c.free => c.root.identity = NoRows
    /\ c.dirty # <<>> => c.free
    /\ c.free \/ RowsNeeded(c.root, c.seeds, c.active)

(* What is pending will be marked.                                         *)
Held(v) == prune.pending[v] \cup prune.marked[v]

(* Only what is needed is held.                                            *)
MarksSound ==
    \A v \in Var : \A w \in Held(v) : w \in live /\ v \in Needed(base, prune.given, w)

(* Every reference is still to be visited, or held where it is active.     *)
SeedsHeld ==
    \A i \in DOMAIN prune.given :
       \/ \E j \in DOMAIN prune.seeds : prune.seeds[j] = prune.given[i]
       \/ prune.given[i].cond \cap live \subseteq Held(prune.given[i].var)

(* What is still to be visited was given.                                  *)
SeedsGiven ==
    \A j \in DOMAIN prune.seeds : \E i \in DOMAIN prune.given : prune.seeds[j] = prune.given[i]

(* So are the arguments of the occurrences that were visited.              *)
ArgsHeld ==
    \A o \in Cell \ prune.rows : \A v \in Range(ArgsOf[o]) :
       base.live[o] \cap live \subseteq Held(v)

(* The parents of what is marked are held.                                 *)
MarksClosed ==
    \A v, p \in Var : prune.marked[v] \cap base.identity.PARENT[v][p] \subseteq Held(p)

Marking == MarksSound /\ SeedsHeld /\ SeedsGiven /\ ArgsHeld /\ MarksClosed

(* A row of the identity, before and after its variable was visited.       *)
CutRow(v, row) == IF v \in prune.names THEN row ELSE row \cap prune.marked[v] \cap live

(* The identity rows while they are cut, variable by variable.             *)
IdentityIsCut ==
    \A v \in Var :
       /\ \A p \in Var :
             /\ staged.identity.PARENT[v][p] = CutRow(v, base.identity.PARENT[v][p])
             /\ staged.identity.CHILD[p][v] = CutRow(v, base.identity.CHILD[p][v])
       /\ \A k \in Rank : staged.identity.RANK[v][k] = CutRow(v, base.identity.RANK[v][k])

(* The rows of the occurrences while they are cut, one by one.             *)
RowsAreCut ==
    \A o \in Cell : staged.live[o] = IF o \in prune.rows THEN base.live[o]
                                     ELSE base.live[o] \cap live

(* The records that were visited are cut.                                  *)
RecordsAreCut ==
    /\ At("Records") \/ prune.heads = {}
    /\ \A heads \in HeadsOf \ prune.heads : \A w \in records[heads] :
          w \in live /\ \A i \in DOMAIN heads : w \in base.live[heads[i]]

During(phases) == prune.phase \in phases

(* How far a prune is in each of its phases.                               *)
Progress ==
    /\ During({"Records", "Certificate", "Noop", "Seeds"}) => staged = base
    /\ During({"Records", "Certificate", "Seeds"}) => prune.rows = Cell
    /\ During({"Records", "Certificate", "Seeds", "Occurrences", "Next"}) => prune.names = Var
    /\ During({"Records", "Certificate"}) =>
          /\ prune.seeds = prune.given
          /\ \A v \in Var : prune.pending[v] = {} /\ prune.marked[v] = {}
    /\ During({"Seeds", "Next", "Identity"}) => ~prune.free
    /\ During({"Occurrences", "Next", "Identity"}) => RowsAreCut
    /\ During({"Next", "Identity"}) => prune.rows = {}
    /\ During({"Occurrences", "Next"}) => staged.identity = base.identity
    /\ During({"Occurrences"}) /\ prune.free => base.identity = NoRows
    /\ During({"Seeds", "Occurrences", "Next", "Identity"}) /\ ~prune.free => Marking
    /\ During({"Occurrences", "Next", "Identity"}) /\ ~prune.free => prune.seeds = <<>>
    /\ During({"Identity"}) => IdentityIsCut /\ \A v \in Var : prune.pending[v] = {}

(* The certificate a prune will leave, but for its root.                   *)
NextIsTrue ==
    During({"Seeds", "Occurrences", "Next", "Identity", "Cleanup"}) /\ prune.next # NoCertificate =>
       /\ prune.next.active = live /\ prune.next.dirty = <<>>
       /\ prune.next.free = prune.free
       /\ prune.free \/ prune.next.seeds = prune.given
       /\ prune.free => base.identity = NoRows

(* At its end nothing is to be done.                                       *)
Finished ==
    During({"Noop", "Cleanup"}) => staged = Pruned(base, prune.given)

JobSound ==
    /\ prune.before = base
    /\ RecordsAreCut
    /\ Progress
    /\ NextIsTrue
    /\ Finished

(* The invariant of the prunes.                                            *)
PruneInv ==
    /\ PruneTypes
    /\ Lone(base.identity)
    /\ prune = NoJob => Lone(staged.identity)
    /\ HasCertificate => CertificateTrue(certificate)
    /\ prune # NoJob => JobSound

-----------------------------------------------------------------------------
(* What is needed: references, and whatever is above something needed.     *)

(* The parent a row holds is the one that is read, and one not held is     *)
(* the variable itself.                                                    *)
LEMMA ParentIs ==
    ASSUME NEW root \in Roots, Lone(root.identity), NEW w \in World, NEW v \in Var
    PROVE  /\ ParentIn(root.identity, w)[v] \in Var
           /\ \A p \in Var : w \in root.identity.PARENT[v][p] =>
                 ParentIn(root.identity, w)[v] = p
           /\ \/ ParentIn(root.identity, w)[v] = v
              \/ w \in root.identity.PARENT[v][ParentIn(root.identity, w)[v]]
<1>1. CASE \E p \in Var : w \in root.identity.PARENT[v][p]
  <2>1. PICK p \in Var : w \in root.identity.PARENT[v][p]
      BY <1>1
  <2>2. \A q \in Var : w \in root.identity.PARENT[v][q] => q = p
      BY <2>1 DEF Lone
  <2>3. ParentIn(root.identity, w)[v] = CHOOSE q \in Var : w \in root.identity.PARENT[v][q]
      BY <2>1 DEF ParentIn
  <2>4. (CHOOSE q \in Var : w \in root.identity.PARENT[v][q]) = p
      BY <2>1, <2>2
  <2>5. QED
      BY <2>1, <2>2, <2>3, <2>4
<1>2. CASE ~\E p \in Var : w \in root.identity.PARENT[v][p]
    BY <1>2 DEF ParentIn
<1>3. QED
    BY <1>1, <1>2

(* The variables that are referred to in a world.                          *)
Named(root, seeds, w) ==
    {seeds[i].var : i \in {i \in DOMAIN seeds : w \in seeds[i].cond}}
       \cup UNION {Range(ArgsOf[o]) : o \in {o \in Cell : w \in root.live[o]}}

(* Needed, by what is named.                                               *)
LEMMA NeededIs ==
    ASSUME NEW root, NEW seeds, NEW w
    PROVE  Needed(root, seeds, w) =
              {v \in Var : \E u \in Named(root, seeds, w) :
                              v \in Reached(ParentIn(root.identity, w), u)}
BY DEF Needed, Named

(* References from outside are named.                                      *)
LEMMA NamedSeed ==
    ASSUME NEW root, NEW seeds, NEW w, NEW i \in DOMAIN seeds, w \in seeds[i].cond
    PROVE  seeds[i].var \in Named(root, seeds, w)
BY DEF Named

(* Arguments of what lives are named.                                      *)
LEMMA NamedArg ==
    ASSUME NEW root, NEW seeds, NEW w, NEW o \in Cell, w \in root.live[o],
           NEW v \in Range(ArgsOf[o])
    PROVE  v \in Named(root, seeds, w)
BY DEF Named

(* Nothing else is named.                                                  *)
LEMMA NamedOnly ==
    ASSUME NEW root, NEW seeds, NEW w, NEW u \in Named(root, seeds, w)
    PROVE  \/ \E i \in DOMAIN seeds : w \in seeds[i].cond /\ u = seeds[i].var
           \/ \E o \in Cell : w \in root.live[o] /\ u \in Range(ArgsOf[o])
BY DEF Named

(* What is named are variables.                                            *)
LEMMA NamedAreVariables ==
    ASSUME NEW root, NEW seeds \in Seq(SeedRecords), NEW w
    PROVE  Named(root, seeds, w) \subseteq Var
<1> SUFFICES ASSUME NEW u \in Named(root, seeds, w) PROVE u \in Var
    OBVIOUS
<1>1. CASE \E i \in DOMAIN seeds : w \in seeds[i].cond /\ u = seeds[i].var
  <2>1. PICK i \in DOMAIN seeds : u = seeds[i].var
      BY <1>1
  <2>2. seeds[i] \in SeedRecords
      OBVIOUS
  <2>3. QED
      BY <2>1, <2>2 DEF SeedRecords
<1>2. CASE \E o \in Cell : w \in root.live[o] /\ u \in Range(ArgsOf[o])
  <2>1. PICK o \in Cell : u \in Range(ArgsOf[o])
      BY <1>2
  <2>2. ArgsOf[o] \in Seq(Var)
      BY PrunesAreOfRows
  <2>3. QED
      BY <2>1, <2>2 DEF Range
<1>3. QED
    BY <1>1, <1>2, NamedOnly

(* What is named is needed.                                                *)
LEMMA NamedNeeded ==
    ASSUME NEW root, NEW seeds \in Seq(SeedRecords), NEW w,
           NEW u \in Named(root, seeds, w)
    PROVE  u \in Needed(root, seeds, w)
<1>1. u \in Var
    BY NamedAreVariables
<1>2. u \in Reached(ParentIn(root.identity, w), u)
    BY <1>1 DEF Reached
<1>3. QED
    BY <1>1, <1>2, NeededIs

(* With a variable its parent is needed.                                   *)
LEMMA NeededUp ==
    ASSUME NEW root \in Roots, Lone(root.identity), NEW seeds, NEW w \in World,
           NEW v \in Needed(root, seeds, w)
    PROVE  v \in Var /\ ParentIn(root.identity, w)[v] \in Needed(root, seeds, w)
<1> DEFINE f == ParentIn(root.identity, w)
<1>1. v \in Var
    BY NeededIs
<1>2. PICK u \in Named(root, seeds, w) : v \in Reached(f, u)
    BY NeededIs
<1>3. f[v] \in Var
    BY <1>1, ParentIs
<1>4. f[v] \in Reached(f, u)
  <2> HIDE DEF f
  <2> QED
      BY <1>2, <1>3 DEF Reached, Closed
<1>5. QED
    BY <1>1, <1>3, <1>4, NeededIs

(* The parent of something needed is needed.                               *)
LEMMA NeededParent ==
    ASSUME NEW root \in Roots, Lone(root.identity), NEW seeds, NEW w \in World,
           NEW v \in Needed(root, seeds, w), NEW p \in Var, w \in root.identity.PARENT[v][p]
    PROVE  p \in Needed(root, seeds, w)
<1>1. v \in Var
    BY NeededIs
<1>2. QED
    BY <1>1, NeededUp, ParentIs

(* Nothing else is.                                                        *)
LEMMA NeededLeast ==
    ASSUME NEW root \in Roots, Lone(root.identity), NEW seeds, NEW w \in World,
           NEW set \in SUBSET Var, Named(root, seeds, w) \subseteq set,
           \A v \in set, p \in Var : w \in root.identity.PARENT[v][p] => p \in set
    PROVE  Needed(root, seeds, w) \subseteq set
<1> DEFINE f == ParentIn(root.identity, w)
<1>1. Closed(f, set)
  <2> SUFFICES ASSUME NEW v \in set PROVE f[v] \in set
      BY DEF Closed
  <2> QED
      BY ParentIs
<1>2. ASSUME NEW v \in Needed(root, seeds, w) PROVE v \in set
  <2>1. PICK u \in Named(root, seeds, w) : v \in Reached(f, u)
      BY <1>2, NeededIs
  <2>2. QED
      BY <1>1, <2>1 DEF Reached
<1>3. QED
    BY <1>2

(* A pruned root, row by row.                                              *)
LEMMA PrunedIs ==
    ASSUME NEW root \in Roots, NEW seeds
    PROVE  /\ Pruned(root, seeds) \in Roots
           /\ \A o \in Cell : Pruned(root, seeds).live[o] = root.live[o] \cap live
           /\ \A v, p \in Var :
                /\ Pruned(root, seeds).identity.PARENT[v][p] =
                      KeptRow(root, seeds, v, root.identity.PARENT[v][p])
                /\ Pruned(root, seeds).identity.CHILD[p][v] =
                      KeptRow(root, seeds, v, root.identity.CHILD[p][v])
           /\ \A v \in Var, k \in Rank :
                Pruned(root, seeds).identity.RANK[v][k] =
                   KeptRow(root, seeds, v, root.identity.RANK[v][k])
<1>1. /\ \A v, p \in Var : /\ KeptRow(root, seeds, v, root.identity.PARENT[v][p]) \in Condition
                           /\ KeptRow(root, seeds, v, root.identity.CHILD[p][v]) \in Condition
      /\ \A v \in Var, k \in Rank :
            KeptRow(root, seeds, v, root.identity.RANK[v][k]) \in Condition
    BY DEF Roots, Rows, Condition, KeptRow
<1>2. \A o \in Cell : root.live[o] \cap live \in Condition
    BY DEF Roots, Condition
<1>3. Pruned(root, seeds) \in Roots
    BY <1>1, <1>2 DEF Roots, Rows, Pruned
<1>4. QED
    BY <1>3 DEF Pruned

(* The worlds that a pruned row keeps.                                     *)
LEMMA KeptRows ==
    ASSUME NEW root \in Roots, NEW seeds, NEW w \in World, NEW v \in Var
    PROVE  /\ \A p \in Var :
                /\ w \in Pruned(root, seeds).identity.PARENT[v][p] <=>
                      w \in root.identity.PARENT[v][p] /\ w \in live /\ v \in Needed(root, seeds, w)
                /\ w \in Pruned(root, seeds).identity.CHILD[p][v] <=>
                      w \in root.identity.CHILD[p][v] /\ w \in live /\ v \in Needed(root, seeds, w)
           /\ \A k \in Rank : w \in Pruned(root, seeds).identity.RANK[v][k] <=>
                      w \in root.identity.RANK[v][k] /\ w \in live /\ v \in Needed(root, seeds, w)
BY PrunedIs DEF KeptRow

(* Rows are equal when their tables are.                                   *)
LEMMA SameRows ==
    ASSUME NEW a \in Rows, NEW b \in Rows, a.PARENT = b.PARENT, a.CHILD = b.CHILD,
           a.RANK = b.RANK
    PROVE  a = b
BY DEF Rows

(* Two roots are equal when all their rows are.                            *)
LEMMA SameRoot ==
    ASSUME NEW r \in Roots, NEW s \in Roots,
           \A o \in Cell : r.live[o] = s.live[o],
           \A v \in Var :
              /\ \A p \in Var : /\ r.identity.PARENT[v][p] = s.identity.PARENT[v][p]
                                /\ r.identity.CHILD[p][v] = s.identity.CHILD[p][v]
              /\ \A k \in Rank : r.identity.RANK[v][k] = s.identity.RANK[v][k]
    PROVE  r = s
<1>1. r.live = s.live
    BY DEF Roots
<1>2. r.identity \in Rows /\ s.identity \in Rows
    BY DEF Roots
<1>3. ASSUME NEW v \in Var PROVE r.identity.PARENT[v] = s.identity.PARENT[v]
    BY <1>2, <1>3 DEF Rows
<1>4. ASSUME NEW v \in Var PROVE r.identity.CHILD[v] = s.identity.CHILD[v]
    BY <1>2, <1>4 DEF Rows
<1>5. ASSUME NEW v \in Var PROVE r.identity.RANK[v] = s.identity.RANK[v]
    BY <1>2, <1>5 DEF Rows
<1>6. r.identity.PARENT = s.identity.PARENT
    BY <1>2, <1>3 DEF Rows
<1>7. r.identity.CHILD = s.identity.CHILD
    BY <1>2, <1>4 DEF Rows
<1>8. r.identity.RANK = s.identity.RANK
    BY <1>2, <1>5 DEF Rows
<1>9. r.identity = s.identity
    BY <1>2, <1>6, <1>7, <1>8, SameRows
<1>10. QED
    BY <1>1, <1>9 DEF Roots

(* A root whose rows are active and needed is its own prune.               *)
LEMMA PrunedAlready ==
    ASSUME NEW root \in Roots, NEW seeds, live \in Condition,
           \A o \in Cell : root.live[o] \subseteq live,
           RowsNeeded(root, seeds, live)
    PROVE  root = Pruned(root, seeds)
<1> DEFINE r == Pruned(root, seeds)
<1>0. r \in Roots /\ \A o \in Cell : r.live[o] = root.live[o] \cap live
    BY PrunedIs
<1>1. \A w \in World, v \in Var :
         /\ \A p \in Var :
              /\ w \in r.identity.PARENT[v][p] <=>
                    w \in root.identity.PARENT[v][p] /\ w \in live /\ v \in Needed(root, seeds, w)
              /\ w \in r.identity.CHILD[p][v] <=>
                    w \in root.identity.CHILD[p][v] /\ w \in live /\ v \in Needed(root, seeds, w)
         /\ \A k \in Rank : w \in r.identity.RANK[v][k] <=>
                    w \in root.identity.RANK[v][k] /\ w \in live /\ v \in Needed(root, seeds, w)
    BY KeptRows
<1> HIDE DEF r
<1>2. ASSUME NEW w \in World, NEW v \in Var
      PROVE  /\ \A p \in Var :
                  /\ w \in r.identity.PARENT[v][p] <=> w \in root.identity.PARENT[v][p]
                  /\ w \in r.identity.CHILD[p][v] <=> w \in root.identity.CHILD[p][v]
             /\ \A k \in Rank : w \in r.identity.RANK[v][k] <=> w \in root.identity.RANK[v][k]
    BY <1>1, <1>2 DEF RowsNeeded
<1>3. ASSUME NEW s \in Roots, NEW v \in Var
      PROVE  /\ \A p \in Var : /\ s.identity.PARENT[v][p] \subseteq World
                               /\ s.identity.CHILD[p][v] \subseteq World
             /\ \A k \in Rank : s.identity.RANK[v][k] \subseteq World
    BY <1>3 DEF Roots, Rows, Condition
<1>4. \A v \in Var :
         /\ \A p \in Var : /\ r.identity.PARENT[v][p] = root.identity.PARENT[v][p]
                           /\ r.identity.CHILD[p][v] = root.identity.CHILD[p][v]
         /\ \A k \in Rank : r.identity.RANK[v][k] = root.identity.RANK[v][k]
  <2> TAKE v \in Var
  <2>1. ASSUME NEW p \in Var
        PROVE  /\ r.identity.PARENT[v][p] = root.identity.PARENT[v][p]
               /\ r.identity.CHILD[p][v] = root.identity.CHILD[p][v]
    <3>1. /\ r.identity.PARENT[v][p] \subseteq World /\ root.identity.PARENT[v][p] \subseteq World
          /\ r.identity.CHILD[p][v] \subseteq World /\ root.identity.CHILD[p][v] \subseteq World
        BY <1>0, <1>3
    <3>2. QED
        BY <1>2, <3>1
  <2>2. ASSUME NEW k \in Rank PROVE r.identity.RANK[v][k] = root.identity.RANK[v][k]
    <3>1. r.identity.RANK[v][k] \subseteq World /\ root.identity.RANK[v][k] \subseteq World
        BY <1>0, <1>3
    <3>2. QED
        BY <1>2, <3>1
  <2>3. QED
      BY <2>1, <2>2
<1>5. \A o \in Cell : r.live[o] = root.live[o]
    BY <1>0
<1>6. r = root
    BY <1>0, <1>4, <1>5, SameRoot
<1>7. QED
    BY <1>6 DEF r

(* A prune takes nothing away that what stays needs.                       *)
LEMMA NeededStays ==
    ASSUME NEW root \in Roots, Lone(root.identity), NEW seeds \in Seq(SeedRecords),
           NEW w \in World, w \in live
    PROVE  Needed(root, seeds, w) \subseteq Needed(Pruned(root, seeds), seeds, w)
<1> DEFINE r == Pruned(root, seeds)
           N == Needed(root, seeds, w)
           S == Needed(r, seeds, w)
<1>0. r \in Roots /\ \A o \in Cell : r.live[o] = root.live[o] \cap live
    BY PrunedIs
<1>1. \A v \in Var : \A p \in Var :
         w \in r.identity.PARENT[v][p] <=>
            w \in root.identity.PARENT[v][p] /\ w \in live /\ v \in N
    BY KeptRows
<1>2. Lone(r.identity)
  <2>1. \A u \in World, v \in Var, p \in Var :
           u \in r.identity.PARENT[v][p] => u \in root.identity.PARENT[v][p]
      BY KeptRows
  <2> HIDE DEF r
  <2>2. QED
      BY <2>1 DEF Lone
<1>3. Named(root, seeds, w) \subseteq S
  <2>1. ASSUME NEW u \in Named(root, seeds, w) PROVE u \in Named(r, seeds, w)
    <3> HIDE DEF r
    <3>1. CASE \E i \in DOMAIN seeds : w \in seeds[i].cond /\ u = seeds[i].var
        BY <3>1, NamedSeed
    <3>2. CASE \E o \in Cell : w \in root.live[o] /\ u \in Range(ArgsOf[o])
      <4>1. PICK o \in Cell : w \in root.live[o] /\ u \in Range(ArgsOf[o])
          BY <3>2
      <4>2. w \in r.live[o]
          BY <1>0, <4>1
      <4>3. QED
          BY <4>1, <4>2, NamedArg
    <3>3. QED
        BY <2>1, <3>1, <3>2, NamedOnly
  <2>2. QED
      BY <2>1, NamedNeeded
<1>4. Named(root, seeds, w) \subseteq N
    BY NamedNeeded
<1>5. N \subseteq Var /\ S \subseteq Var
    BY NeededIs
<1>6. ASSUME NEW v \in S \cap N, NEW p \in Var, w \in root.identity.PARENT[v][p]
      PROVE  p \in S \cap N
  <2>1. p \in N
      BY <1>6, NeededParent
  <2>2. w \in r.identity.PARENT[v][p]
      BY <1>1, <1>5, <1>6
  <2>3. p \in S
      BY <1>0, <1>2, <1>6, <2>2, NeededParent
  <2>4. QED
      BY <2>1, <2>3
<1>7. N \subseteq S \cap N
  <2> DEFINE set == S \cap N
  <2>1. set \in SUBSET Var /\ Named(root, seeds, w) \subseteq set
      BY <1>3, <1>4, <1>5
  <2>2. \A v \in set, p \in Var : w \in root.identity.PARENT[v][p] => p \in set
      BY <1>6
  <2> HIDE DEF set
  <2>3. N \subseteq set
      BY <2>1, <2>2, NeededLeast
  <2>4. QED
      BY <2>3 DEF set
<1>8. QED
    BY <1>7

(* So what a prune leaves is active and needed.                            *)
LEMMA PrunedNeeded ==
    ASSUME NEW root \in Roots, Lone(root.identity), NEW seeds \in Seq(SeedRecords)
    PROVE  /\ RowsNeeded(Pruned(root, seeds), seeds, live)
           /\ Lone(Pruned(root, seeds).identity)
<1>1. RowsNeeded(Pruned(root, seeds), seeds, live)
  <2> SUFFICES ASSUME NEW w \in World, NEW v \in Var,
                      \/ \E p \in Var : \/ w \in Pruned(root, seeds).identity.PARENT[v][p]
                                        \/ w \in Pruned(root, seeds).identity.CHILD[p][v]
                      \/ \E k \in Rank : w \in Pruned(root, seeds).identity.RANK[v][k]
               PROVE  w \in live /\ v \in Needed(Pruned(root, seeds), seeds, w)
      BY DEF RowsNeeded
  <2>1. w \in live /\ v \in Needed(root, seeds, w)
      BY KeptRows
  <2>2. QED
      BY <2>1, NeededStays
<1>2. Lone(Pruned(root, seeds).identity)
  <2>1. \A u \in World, v \in Var, p \in Var :
           u \in Pruned(root, seeds).identity.PARENT[v][p] => u \in root.identity.PARENT[v][p]
      BY KeptRows
  <2>2. QED
      BY <2>1 DEF Lone
<1>3. QED
    BY <1>1, <1>2

(* No identity rows need no prune.                                         *)
LEMMA PrunedNoRows ==
    ASSUME NEW root \in Roots, root.identity = NoRows, NEW seeds
    PROVE  Pruned(root, seeds) = [root EXCEPT !.live = [o \in Cell |-> root.live[o] \cap live]]
<1> DEFINE r == [root EXCEPT !.live = [o \in Cell |-> root.live[o] \cap live]]
           q == Pruned(root, seeds)
<1>1. r \in Roots /\ r.identity = NoRows
    BY DEF Roots, Condition
<1>2. q \in Roots /\ \A o \in Cell : q.live[o] = root.live[o] \cap live
    BY PrunedIs
<1>3. ASSUME NEW v \in Var
      PROVE  /\ \A p \in Var : q.identity.PARENT[v][p] = {} /\ q.identity.CHILD[p][v] = {}
             /\ \A k \in Rank : q.identity.RANK[v][k] = {}
    BY <1>3, PrunedIs DEF KeptRow, NoRows
<1>4. ASSUME NEW v \in Var
      PROVE  /\ \A p \in Var : r.identity.PARENT[v][p] = {} /\ r.identity.CHILD[p][v] = {}
             /\ \A k \in Rank : r.identity.RANK[v][k] = {}
    BY <1>1, <1>4 DEF NoRows
<1>5. \A o \in Cell : r.live[o] = root.live[o] \cap live
    BY DEF Roots
<1> HIDE DEF r, q
<1>6. \A o \in Cell : q.live[o] = r.live[o]
    BY <1>2, <1>5
<1>7. \A v \in Var :
         /\ \A p \in Var : /\ q.identity.PARENT[v][p] = r.identity.PARENT[v][p]
                           /\ q.identity.CHILD[p][v] = r.identity.CHILD[p][v]
         /\ \A k \in Rank : q.identity.RANK[v][k] = r.identity.RANK[v][k]
    BY <1>3, <1>4
<1>8. q = r
    BY <1>1, <1>2, <1>6, <1>7, SameRoot
<1>9. QED
    BY <1>8 DEF r, q

-----------------------------------------------------------------------------
(* Steps beside a prune.                                                   *)

(* The empty interval of the identity rows.                                *)
LEMMA NoRowsAreRows == NoRows \in Rows /\ Lone(NoRows)
BY DEF NoRows, Rows, Condition, Lone

(* A prune is not the absence of one.                                      *)
LEMMA NotAJob == ASSUME NEW job \in PruneJobs PROVE job # NoJob /\ job.phase \in PrunePhases
BY DEF PruneJobs, NoJob, PrunePhases

(* It holds before the first write.                                        *)
LEMMA InitPruneInv == PruneInit => PruneInv
<1> SUFFICES ASSUME PruneInit PROVE PruneInv
    OBVIOUS
<1>1. base \in Roots /\ staged = base /\ base.identity = NoRows
    BY NoRowsAreRows DEF PruneInit, EmptyRoot, Roots, Condition
<1>2. PruneTypes
    BY <1>1 DEF PruneInit, PruneTypes, Condition
<1>3. ~HasCertificate
    BY DEF PruneInit, HasCertificate
<1>4. QED
    BY <1>1, <1>2, <1>3, NoRowsAreRows DEF PruneInit, PruneInv

(* A write of rows leaves the certificate true, or drops it.               *)
LEMMA WriteRowStep ==
    ASSUME PruneInv, NEW o \in Cell, NEW support \in SUBSET World, WriteRow(o, support)
    PROVE  PruneInv'
<1> USE DEF WriteRow
<1>1. PruneTypes /\ prune = NoJob /\ prune' = NoJob
    BY DEF PruneInv
<1>2. /\ staged' \in Roots /\ staged'.identity = staged.identity
      /\ staged'.live[o] = support
      /\ \A x \in Cell : x # o => staged'.live[x] = staged.live[x]
    BY <1>1 DEF PruneTypes, Roots, Condition
<1>3. CASE certificate' = NoCertificate
  <2>1. PruneTypes'
      BY <1>1, <1>2, <1>3 DEF PruneTypes
  <2>2. ~HasCertificate'
      BY <1>3 DEF HasCertificate
  <2>3. QED
      BY <1>1, <1>2, <2>1, <2>2 DEF PruneInv
<1>4. CASE /\ Carried
           /\ certificate' = [certificate EXCEPT !.root = staged', !.dirty = Dirty(o, support)]
  <2>1. /\ certificate \in Certificates /\ certificate.root = staged /\ certificate.free
        /\ CertificateTrue(certificate)
      BY <1>1, <1>4 DEF Carried, HasCertificate, PruneTypes, PruneInv
  <2>2. /\ Dirty(o, support) \in Seq(Cell)
        /\ \A x \in Range(certificate.dirty) : x \in Range(Dirty(o, support))
        /\ support \in {{}, certificate.active} \/ certificate.active = World
              \/ o \in Range(Dirty(o, support))
    <3>1. certificate.dirty \in Seq(Cell)
        BY <2>1 DEF Certificates
    <3>2. CASE support \in {{}, certificate.active} \/ certificate.active = World
        BY <3>1, <3>2 DEF Dirty
    <3>3. CASE ~(support \in {{}, certificate.active} \/ certificate.active = World)
      <4>1. Dirty(o, support) = Append(certificate.dirty, o)
          BY <3>3 DEF Dirty
      <4>2. /\ Append(certificate.dirty, o) \in Seq(Cell)
            /\ Append(certificate.dirty, o)[Len(certificate.dirty) + 1] = o
            /\ Len(certificate.dirty) + 1 \in DOMAIN Append(certificate.dirty, o)
            /\ \A i \in DOMAIN certificate.dirty :
                  /\ i \in DOMAIN Append(certificate.dirty, o)
                  /\ Append(certificate.dirty, o)[i] = certificate.dirty[i]
          BY <3>1
      <4>3. QED
          BY <4>1, <4>2 DEF Range
    <3>4. QED
        BY <3>2, <3>3
  <2>3. certificate' \in Certificates
      BY <1>2, <1>4, <2>1, <2>2 DEF Certificates
  <2>4. /\ certificate'.root = staged' /\ certificate'.dirty = Dirty(o, support)
        /\ certificate'.free /\ certificate'.active = certificate.active
      BY <1>4, <2>1 DEF Certificates
  <2>5. CertificateTrue(certificate')
    <3>1. ASSUME NEW x \in Cell
          PROVE  \/ x \in Range(certificate'.dirty)
                 \/ certificate'.root.live[x] \subseteq certificate'.active
      <4>1. CASE x = o
          BY <1>2, <2>2, <2>4, <4>1
      <4>2. CASE x # o
        <5>1. certificate'.root.live[x] = certificate.root.live[x]
            BY <1>2, <2>1, <2>4, <4>2
        <5>2. \/ x \in Range(certificate.dirty)
              \/ certificate.root.live[x] \subseteq certificate.active
            BY <2>1 DEF CertificateTrue
        <5>3. QED
            BY <2>2, <2>4, <5>1, <5>2
      <4>3. QED
          BY <4>1, <4>2
    <3>2. certificate'.root.identity = NoRows
        BY <1>2, <2>1, <2>4 DEF CertificateTrue
    <3>3. QED
        BY <2>4, <3>1, <3>2 DEF CertificateTrue
  <2>6. PruneTypes'
      BY <1>1, <1>2, <2>3 DEF PruneTypes
  <2>7. QED
      BY <1>1, <1>2, <2>5, <2>6 DEF PruneInv
<1>5. QED
    BY <1>3, <1>4

(* A merge gives parents to representatives only.                          *)
LEMMA LinkStep ==
    ASSUME PruneInv, NEW link \in Links, Link(link)
    PROVE  PruneInv'
<1> USE DEF Link
<1>1. /\ PruneTypes /\ prune = NoJob /\ prune' = NoJob /\ Lone(staged.identity)
      /\ Lone(base.identity) /\ certificate' = NoCertificate
    BY DEF PruneInv
<1>2. /\ link.child \in Var /\ link.parent \in Var /\ link.cond \in Condition
      /\ link.child # link.parent
    BY PrunesAreOfRows
<1>3. staged \in Roots /\ staged.identity \in Rows
    BY <1>1 DEF PruneTypes, Roots
<1> DEFINE parents == [staged.identity.PARENT EXCEPT ![link.child][link.parent] = @ \cup link.cond]
           children == [staged.identity.CHILD EXCEPT ![link.parent][link.child] = @ \cup link.cond]
           first == {w \in link.cond : RankIn(staged.identity, w)[link.parent] = 0}
           ranks == [staged.identity.RANK EXCEPT ![link.parent][1] = @ \cup first]
<1>4. parents \in [Var -> [Var -> Condition]] /\ children \in [Var -> [Var -> Condition]]
    BY <1>2, <1>3 DEF Rows, Condition
<1>5. ranks \in [Var -> [Rank -> Condition]]
  <2>1. staged.identity.RANK \in [Var -> [Rank -> Condition]] /\ first \in Condition
      BY <1>2, <1>3 DEF Rows, Condition
  <2> HIDE DEF first
  <2>2. QED
      BY <1>2, <2>1 DEF Condition
<1>6. /\ staged' \in Roots
      /\ staged'.identity.PARENT = parents
  <2> HIDE DEF parents, children, ranks
  <2> DEFINE new == [staged EXCEPT !.identity.PARENT = parents, !.identity.CHILD = children,
                                   !.identity.RANK = ranks]
  <2>1. staged' = new
      BY <1>3 DEF Roots, Rows, parents, children, ranks, first
  <2>2. new \in Roots
      BY <1>3, <1>4, <1>5 DEF Roots, Rows
  <2>3. new.identity.PARENT = parents
      BY <1>3 DEF Roots, Rows
  <2>4. QED
      BY <2>1, <2>2, <2>3
<1>9. ASSUME NEW w \in World, NEW v \in Var, NEW p \in Var
      PROVE  w \in parents[v][p] <=>
                \/ w \in staged.identity.PARENT[v][p]
                \/ v = link.child /\ p = link.parent /\ w \in link.cond
    BY <1>2, <1>3, <1>9 DEF Rows
<1>10. ASSUME NEW w \in link.cond, NEW p \in Var
       PROVE  w \notin staged.identity.PARENT[link.child][p]
  <2>1. w \in World /\ ParentIn(staged.identity, w)[link.child] = link.child
      BY <1>2 DEF Condition, IsRoot
  <2> SUFFICES ASSUME w \in staged.identity.PARENT[link.child][p] PROVE FALSE
      OBVIOUS
  <2>2. p # link.child
      BY <1>1, <1>2, <2>1 DEF Lone
  <2>3. \A q \in Var : w \in staged.identity.PARENT[link.child][q] =>
           ParentIn(staged.identity, w)[link.child] = q
    <3> DEFINE root == staged
               v == link.child
    <3>1. root \in Roots /\ Lone(root.identity) /\ w \in World /\ v \in Var
        BY <1>1, <1>2, <1>3, <2>1
    <3> HIDE DEF root, v
    <3>2. \A q \in Var : w \in root.identity.PARENT[v][q] => ParentIn(root.identity, w)[v] = q
        BY ONLY <3>1, ParentIs
    <3>3. QED
        BY <3>2 DEF root, v
  <2>4. QED
      BY ONLY <2>1, <2>2, <2>3, p \in Var, w \in staged.identity.PARENT[link.child][p]
<1>11. Lone(staged'.identity)
  <2> HIDE DEF parents
  <2> SUFFICES ASSUME NEW w \in World, NEW v \in Var, NEW p \in Var, w \in parents[v][p]
               PROVE  p # v /\ \A q \in Var : w \in parents[v][q] => q = p
      BY <1>6 DEF Lone
  <2>1. CASE v = link.child /\ w \in link.cond
    <3>1. \A q \in Var : w \in parents[v][q] => q = link.parent
        BY <1>9, <1>10, <2>1
    <3>2. QED
        BY ONLY <1>2, <2>1, <3>1, p \in Var, w \in parents[v][p]
  <2>2. CASE ~(v = link.child /\ w \in link.cond)
      BY <1>1, <1>9, <2>2 DEF Lone
  <2>3. QED
      BY <2>1, <2>2
<1>12. PruneTypes'
    BY <1>1, <1>6 DEF PruneTypes
<1>13. ~HasCertificate'
    BY <1>1 DEF HasCertificate
<1>14. QED
    BY <1>1, <1>11, <1>12, <1>13 DEF PruneInv

(* Commits, failures, answers and reorders do not touch what a prune       *)
(* works on.                                                               *)
LEMMA OtherStep ==
    ASSUME PruneInv, NEW cond \in SUBSET World, PublishRoot \/ Abandon \/ CutActive(cond)
    PROVE  PruneInv'
<1>1. prune = NoJob /\ prune' = NoJob /\ certificate' = certificate
    BY DEF PublishRoot, Abandon, CutActive
<1>2. PruneTypes'
    BY DEF PruneInv, PruneTypes, PublishRoot, Abandon, CutActive, Condition
<1>3. Lone(base.identity)' /\ Lone(staged.identity)'
    BY <1>1 DEF PruneInv, PublishRoot, Abandon, CutActive, Lone
<1>4. HasCertificate' => CertificateTrue(certificate')
    BY <1>1 DEF PruneInv, HasCertificate
<1>5. QED
    BY <1>1, <1>2, <1>3, <1>4 DEF PruneInv

(* A reorder changes no row and no mark.                                   *)
LEMMA ReorderStep ==
    ASSUME PruneInv, Reorder
    PROVE  PruneInv'
<1>1. /\ UNCHANGED <<base, staged, records, live, certificate, prune, writes, prunes>>
      /\ order' = order + 1
    BY DEF Reorder
<1>2. PruneTypes'
    BY <1>1 DEF PruneInv, PruneTypes
<1>3. Pruned(base, prune.given)' = Pruned(base, prune.given)
    BY <1>1 DEF Pruned, KeptRow
<1>4. JobSound => JobSound'
  <2>1. (prune.before = base)' <=> prune.before = base
      BY <1>1
  <2>2. RecordsAreCut' <=> RecordsAreCut
      BY <1>1 DEF RecordsAreCut, At
  <2>3. Marking' <=> Marking
      BY <1>1 DEF Marking, MarksSound, SeedsHeld, SeedsGiven, ArgsHeld, MarksClosed, Held
  <2>4. IdentityIsCut' <=> IdentityIsCut
      BY <1>1 DEF IdentityIsCut, CutRow
  <2>5. RowsAreCut' <=> RowsAreCut
      BY <1>1 DEF RowsAreCut
  <2>6. Progress' <=> Progress
      BY <1>1, <2>3, <2>4, <2>5 DEF Progress, During
  <2>7. NextIsTrue' <=> NextIsTrue
      BY <1>1 DEF NextIsTrue, During
  <2>8. Finished' <=> Finished
      BY <1>1, <1>3 DEF Finished, During
  <2>9. QED
      BY <2>1, <2>2, <2>6, <2>7, <2>8 DEF JobSound
<1>5. QED
    BY <1>1, <1>2, <1>4 DEF PruneInv, HasCertificate

(* A prune starts on the published root.                                   *)
LEMMA StartPruneStep ==
    ASSUME PruneInv, NEW seeds \in SeedLists, StartPrune(seeds)
    PROVE  PruneInv'
<1> USE DEF StartPrune
<1>1. /\ UNCHANGED <<base, staged, records, live, order, certificate>>
      /\ staged = base
    OBVIOUS
<1>2. seeds \in Seq(SeedRecords)
    BY PrunesAreOfRows DEF SeedRecords
<1>3. /\ prune' \in PruneJobs
      /\ prune'.phase = "Records" /\ prune'.before = base /\ prune'.rows = Cell
      /\ prune'.heads = HeadsOf /\ prune'.names = Var /\ ~prune'.free
      /\ prune'.seeds = seeds /\ prune'.given = seeds /\ prune'.next = NoCertificate
      /\ \A v \in Var : prune'.pending[v] = {} /\ prune'.marked[v] = {}
    BY <1>2 DEF PruneInv, PruneTypes, PruneJobs, PrunePhases, Condition
<1>4. PruneTypes'
    BY <1>1, <1>3 DEF PruneInv, PruneTypes
<1>5. JobSound'
    BY <1>1, <1>3 DEF JobSound, RecordsAreCut, Progress, NextIsTrue, Finished, At, During
<1>6. QED
    BY <1>1, <1>3, <1>4, <1>5, NotAJob DEF PruneInv, HasCertificate

-----------------------------------------------------------------------------
(* The steps of a prune.                                                   *)

(* What is known in a phase of a prune.                                    *)
LEMMA InJob ==
    ASSUME PruneInv, NEW phase \in PrunePhases, At(phase)
    PROVE  prune \in PruneJobs /\ JobSound /\ PruneTypes /\ Lone(base.identity)
<1>1. prune # NoJob
    BY DEF At, PrunePhases, NoJob
<1>2. QED
    BY <1>1 DEF PruneInv, PruneTypes

(* What is left to show of a tick that does not end the prune.             *)
LEMMA TickStep ==
    ASSUME PruneInv, prune \in PruneJobs, prune' \in PruneJobs,
           base' = base, live' = live, order' = order, staged' \in Roots,
           records' \in [HeadsOf -> Condition], certificate' \in {certificate, NoCertificate},
           JobSound'
    PROVE  PruneInv'
<1>1. PruneTypes'
    BY DEF PruneInv, PruneTypes
<1>2. prune' # NoJob
    BY NotAJob
<1>3. HasCertificate' => CertificateTrue(certificate')
    BY DEF PruneInv, HasCertificate
<1>4. QED
    BY <1>1, <1>2, <1>3 DEF PruneInv

(* What a prune is to return does not change under it.                     *)
LEMMA PrunedStays ==
    ASSUME base' = base, live' = live, prune'.given = prune.given
    PROVE  Pruned(base, prune.given)' = Pruned(base, prune.given)
BY DEF Pruned, KeptRow

(* Nor do the marks in a step that neither visits nor marks.               *)
LEMMA MarkingStays ==
    ASSUME base' = base, live' = live, prune'.given = prune.given, prune'.seeds = prune.seeds,
           prune'.rows = prune.rows, prune'.pending = prune.pending, prune'.marked = prune.marked
    PROVE  Marking' <=> Marking
BY DEF Marking, MarksSound, SeedsHeld, SeedsGiven, ArgsHeld, MarksClosed, Held

(* Nor the records once they are cut.                                      *)
LEMMA RecordsStay ==
    ASSUME base' = base, live' = live, records' = records, prune'.heads = prune.heads,
           RecordsAreCut, prune'.phase = prune.phase \/ prune.heads = {}
    PROVE  RecordsAreCut'
BY DEF RecordsAreCut, At

(* A record is cut to the active worlds where its heads live.              *)
LEMMA PruneRecordStep ==
    ASSUME PruneInv, PruneRecord
    PROVE  PruneInv'
<1>1. prune \in PruneJobs /\ JobSound /\ PruneTypes
    BY InJob DEF PruneRecord, PrunePhases
<1>2. UNCHANGED <<base, staged, live, order, certificate>> /\ prune.phase = "Records"
    BY DEF PruneRecord, At
<1>3. CASE prune.heads = {}
  <2>1. /\ prune' \in PruneJobs /\ prune'.phase = "Certificate" /\ records' = records
        /\ prune'.before = prune.before /\ prune'.rows = prune.rows /\ prune'.heads = prune.heads
        /\ prune'.names = prune.names /\ prune'.free = prune.free /\ prune'.seeds = prune.seeds
        /\ prune'.given = prune.given /\ prune'.next = prune.next
        /\ prune'.pending = prune.pending /\ prune'.marked = prune.marked
      BY <1>1, <1>3 DEF PruneRecord, PruneJobs, PrunePhases
  <2>2. RecordsAreCut'
      BY <1>1, <1>2, <1>3, <2>1, RecordsStay DEF JobSound
  <2>3. Progress'
      BY <1>1, <1>2, <2>1 DEF JobSound, Progress, During
  <2>4. NextIsTrue' /\ Finished'
      BY <2>1 DEF NextIsTrue, Finished, During
  <2>5. JobSound'
      BY <1>1, <1>2, <2>1, <2>2, <2>3, <2>4 DEF JobSound
  <2>6. QED
      BY <1>1, <1>2, <2>1, <2>5, TickStep DEF PruneTypes
<1>4. CASE prune.heads # {}
  <2>1. PICK heads \in prune.heads :
           /\ prune' = [prune EXCEPT !.heads = @ \ {heads}]
           /\ records' = [records EXCEPT ![heads] =
                {w \in @ \cap live : \A i \in DOMAIN heads : w \in base.live[heads[i]]}]
      BY <1>4 DEF PruneRecord
  <2>2. /\ prune' \in PruneJobs /\ prune'.phase = "Records"
        /\ prune'.before = prune.before /\ prune'.rows = prune.rows
        /\ prune'.heads = prune.heads \ {heads}
        /\ prune'.names = prune.names /\ prune'.free = prune.free /\ prune'.seeds = prune.seeds
        /\ prune'.given = prune.given /\ prune'.next = prune.next
        /\ prune'.pending = prune.pending /\ prune'.marked = prune.marked
      BY <1>1, <1>2, <2>1 DEF PruneJobs
  <2>3. heads \in HeadsOf /\ records \in [HeadsOf -> Condition]
      BY <1>1 DEF PruneJobs, PruneTypes
  <2>4. /\ records' \in [HeadsOf -> Condition]
        /\ records'[heads] =
              {w \in records[heads] \cap live : \A i \in DOMAIN heads : w \in base.live[heads[i]]}
        /\ \A h \in HeadsOf : h # heads => records'[h] = records[h]
      BY <2>1, <2>3 DEF Condition
  <2>5. RecordsAreCut'
    <3>1. ASSUME NEW h \in HeadsOf \ prune'.heads, NEW w \in records'[h]
          PROVE  w \in live /\ \A i \in DOMAIN h : w \in base.live[h[i]]
      <4>1. CASE h = heads
          BY <2>4, <3>1, <4>1
      <4>2. CASE h # heads
          BY <1>1, <2>2, <2>4, <3>1, <4>2 DEF JobSound, RecordsAreCut
      <4>3. QED
          BY <4>1, <4>2
    <3>2. QED
        BY <1>2, <2>2, <3>1 DEF RecordsAreCut, At
  <2>6. Progress'
      BY <1>1, <1>2, <2>2 DEF JobSound, Progress, During
  <2>7. NextIsTrue' /\ Finished'
      BY <2>2 DEF NextIsTrue, Finished, During
  <2>8. JobSound'
      BY <1>1, <1>2, <2>2, <2>5, <2>6, <2>7 DEF JobSound
  <2>9. QED
      BY <1>1, <1>2, <2>2, <2>4, <2>8, TickStep DEF PruneTypes
<1>5. QED
    BY <1>3, <1>4

(* No rows, nothing that is not needed.                                    *)
LEMMA NoRowsNeeded ==
    ASSUME NEW root, root.identity = NoRows, NEW seeds, NEW active
    PROVE  RowsNeeded(root, seeds, active)
BY DEF RowsNeeded, NoRows

(* The certificate of a true root leaves nothing to do, or its dirty rows. *)
LEMMA UseCertificateStep ==
    ASSUME PruneInv, UseCertificate
    PROVE  PruneInv'
<1>1. prune \in PruneJobs /\ JobSound /\ PruneTypes
    BY InJob DEF UseCertificate, PrunePhases
<1>2. UNCHANGED <<base, staged, records, live, order>> /\ prune.phase = "Certificate"
    BY DEF UseCertificate, At
<1>3. /\ certificate \in Certificates /\ CertificateTrue(certificate)
      /\ certificate.root = base /\ certificate.active = live
      /\ certificate.free \/ certificate.seeds = prune.given
    BY <1>1, <1>2 DEF UseCertificate, Applies, PruneInv, PruneTypes, HasCertificate, JobSound,
       Progress, During
<1>4. staged = base /\ base \in Roots /\ live \in Condition
    BY <1>1, <1>2 DEF JobSound, Progress, During, PruneTypes
<1>5. RowsNeeded(base, prune.given, live) \/ base.identity = NoRows
    BY <1>3 DEF CertificateTrue
<1>6. CASE certificate.dirty = <<>>
  <2>1. /\ prune' \in PruneJobs /\ prune'.phase = "Noop" /\ certificate' = certificate
        /\ prune'.before = prune.before /\ prune'.heads = prune.heads
        /\ prune'.given = prune.given
      BY <1>1, <1>6 DEF UseCertificate, PruneJobs, PrunePhases
  <2>2. RecordsAreCut'
      BY <1>1, <1>2, <2>1, RecordsStay DEF JobSound, RecordsAreCut, At
  <2>3. \A o \in Cell : base.live[o] \subseteq live
      BY <1>3, <1>6 DEF CertificateTrue, Range
  <2>4. base = Pruned(base, prune.given)
      BY <1>4, <1>5, <2>3, PrunedAlready, NoRowsNeeded
  <2>5. staged' = Pruned(base, prune.given)'
      BY <1>2, <1>4, <2>1, <2>4, PrunedStays
  <2>6. Progress' /\ NextIsTrue' /\ Finished'
      BY <1>2, <1>4, <2>1, <2>5 DEF Progress, NextIsTrue, Finished, During
  <2>7. JobSound'
      BY <1>1, <1>2, <2>1, <2>2, <2>6 DEF JobSound
  <2>8. QED
      BY <1>1, <1>2, <1>4, <2>1, <2>7, TickStep DEF PruneTypes
<1>7. CASE certificate.dirty # <<>>
  <2>1. Range(certificate.dirty) \subseteq Cell
      BY <1>3 DEF Certificates, Range
  <2> DEFINE next == [certificate EXCEPT !.dirty = <<>>]
  <2>2. /\ next \in Certificates /\ next.active = live /\ next.dirty = <<>>
        /\ next.free = TRUE
    <3>1. certificate.free = TRUE
        BY <1>3, <1>7 DEF Certificates, CertificateTrue
    <3>2. <<>> \in Seq(Cell)
        OBVIOUS
    <3>3. QED
        BY <1>3, <3>1, <3>2 DEF Certificates
  <2>3. /\ prune' = [prune EXCEPT !.phase = "Occurrences", !.free = TRUE,
                            !.rows = Range(certificate.dirty), !.next = next]
        /\ certificate' = NoCertificate
      BY <1>7 DEF UseCertificate
  <2> HIDE DEF next
  <2>4. /\ prune' \in PruneJobs /\ prune'.phase = "Occurrences" /\ prune'.free = TRUE
        /\ prune'.before = prune.before /\ prune'.heads = prune.heads
        /\ prune'.given = prune.given /\ prune'.names = prune.names
        /\ prune'.rows = Range(certificate.dirty) /\ prune'.next = next
      BY <1>1, <2>1, <2>2, <2>3 DEF PruneJobs, PrunePhases
  <2>5. RecordsAreCut'
      BY <1>1, <1>2, <2>4, RecordsStay DEF JobSound, RecordsAreCut, At
  <2>6. base.identity = NoRows
      BY <1>3, <1>7 DEF CertificateTrue
  <2>7. \A o \in Cell : o \in Range(certificate.dirty) \/ base.live[o] \subseteq live
      BY <1>3 DEF CertificateTrue
  <2>8. RowsAreCut'
      BY <1>2, <1>4, <2>4, <2>7 DEF RowsAreCut
  <2>9. prune.names = Var
      BY <1>1, <1>2 DEF JobSound, Progress, During
  <2>10. Progress'
      BY <1>2, <1>4, <2>4, <2>6, <2>8, <2>9 DEF Progress, During
  <2>11. NextIsTrue' /\ Finished'
      BY <1>2, <2>2, <2>4, <2>6 DEF NextIsTrue, Finished, During
  <2>12. JobSound'
      BY <1>1, <1>2, <2>4, <2>5, <2>10, <2>11 DEF JobSound
  <2>13. QED
      BY <1>1, <1>2, <1>4, <2>3, <2>4, <2>12, TickStep DEF PruneTypes
<1>8. QED
    BY <1>6, <1>7

(* Without a certificate that applies all rows are visited, unless none    *)
(* can be taken out.                                                       *)
LEMMA StartFullStep ==
    ASSUME PruneInv, StartFull
    PROVE  PruneInv'
<1>1. prune \in PruneJobs /\ JobSound /\ PruneTypes
    BY InJob DEF StartFull, PrunePhases
<1>2. /\ UNCHANGED <<base, staged, records, live, order>> /\ prune.phase = "Certificate"
      /\ certificate' = NoCertificate
    BY DEF StartFull, At
<1>3. staged = base /\ base \in Roots /\ live \in Condition /\ order \in Nat
    BY <1>1, <1>2 DEF JobSound, Progress, During, PruneTypes
<1>4. /\ prune.rows = Cell /\ prune.names = Var /\ prune.seeds = prune.given
      /\ \A v \in Var : prune.pending[v] = {} /\ prune.marked[v] = {}
    BY <1>1, <1>2 DEF JobSound, Progress, During
<1>5. /\ NewCertificate \in Certificates /\ NewCertificate.active = live
      /\ NewCertificate.dirty = <<>> /\ NewCertificate.free = IdentityFree(base)
      /\ ~IdentityFree(base) => NewCertificate.seeds = prune.seeds
  <2>1. (IF IdentityFree(base) THEN <<>> ELSE prune.seeds) \in Seq(SeedRecords)
      BY <1>1 DEF PruneJobs
  <2>2. IdentityFree(base) \in BOOLEAN
      BY DEF IdentityFree
  <2>3. <<>> \in Seq(Cell)
      OBVIOUS
  <2> DEFINE kept == IF IdentityFree(base) THEN <<>> ELSE prune.seeds
             free == IdentityFree(base)
  <2>4. NewCertificate = [root |-> base, active |-> live, order |-> order, free |-> free,
                          seeds |-> kept, dirty |-> <<>>]
      BY DEF NewCertificate
  <2>5. ~IdentityFree(base) => kept = prune.seeds
      OBVIOUS
  <2>6. kept \in Seq(SeedRecords) /\ free \in BOOLEAN
      BY <2>1, <2>2
  <2>7. NewCertificate \in Certificates
    <3> HIDE DEF kept, free
    <3> QED
        BY <1>3, <2>3, <2>4, <2>6 DEF Certificates
  <2>8. /\ NewCertificate.active = live /\ NewCertificate.dirty = <<>>
        /\ NewCertificate.free = free /\ NewCertificate.seeds = kept
    <3> HIDE DEF kept, free
    <3> QED
        BY <2>4
  <2>9. QED
      BY <2>5, <2>7, <2>8
<1>6. PICK phase, next :
         /\ prune' = [prune EXCEPT !.free = IdentityFree(base), !.phase = phase, !.next = next]
         /\ phase = IF IdentityFree(base) /\ live = World THEN "Noop"
                    ELSE IF IdentityFree(base) THEN "Occurrences" ELSE "Seeds"
         /\ next \in {NewCertificate, NoCertificate}
    BY DEF StartFull
<1>7. /\ prune' \in PruneJobs /\ prune'.phase = phase /\ prune'.next = next
      /\ prune'.free = IdentityFree(base)
      /\ prune'.before = prune.before /\ prune'.heads = prune.heads
      /\ prune'.given = prune.given /\ prune'.seeds = prune.seeds
      /\ prune'.names = prune.names /\ prune'.rows = prune.rows
      /\ prune'.pending = prune.pending /\ prune'.marked = prune.marked
  <2>1. phase \in PrunePhases /\ next \in Certificates \cup {NoCertificate}
      BY <1>5, <1>6 DEF PrunePhases
  <2>2. IdentityFree(base) \in BOOLEAN
      BY DEF IdentityFree
  <2>3. QED
      BY <1>1, <1>6, <2>1, <2>2 DEF PruneJobs
<1>8. RecordsAreCut'
    BY <1>1, <1>2, <1>7, RecordsStay DEF JobSound, RecordsAreCut, At
<1>9. NextIsTrue'
    BY <1>2, <1>4, <1>5, <1>6, <1>7 DEF NextIsTrue, IdentityFree
<1>10. Progress' /\ Finished'
  <2>1. CASE IdentityFree(base) /\ live = World
    <3>1. RowsNeeded(base, prune.given, live)
        BY <2>1, NoRowsNeeded DEF IdentityFree
    <3>2. \A o \in Cell : base.live[o] \subseteq live
        BY <1>3, <2>1 DEF Roots, Condition
    <3>3. staged' = Pruned(base, prune.given)'
        BY <1>2, <1>3, <1>7, <3>1, <3>2, PrunedAlready, PrunedStays
    <3>4. prune'.phase = "Noop"
        BY <1>6, <1>7, <2>1
    <3>5. QED
        BY <1>2, <1>3, <3>3, <3>4 DEF Progress, Finished, During
  <2>2. CASE IdentityFree(base) /\ live # World
    <3>1. prune'.phase = "Occurrences" /\ prune'.free
        BY <1>6, <1>7, <2>2
    <3>2. RowsAreCut'
        BY <1>2, <1>3, <1>4, <1>7 DEF RowsAreCut
    <3>3. QED
        BY <1>2, <1>3, <1>4, <1>7, <2>2, <3>1, <3>2 DEF Progress, Finished, During, IdentityFree
  <2>3. CASE ~IdentityFree(base)
    <3>1. prune'.phase = "Seeds" /\ ~prune'.free
        BY <1>6, <1>7, <2>3
    <3>2. \A v \in Var : Held(v)' = {}
        BY <1>4, <1>7 DEF Held
    <3>3. Marking'
      <4>1. MarksSound'
          BY <3>2 DEF MarksSound
      <4>2. SeedsHeld'
          BY <1>4, <1>7 DEF SeedsHeld
      <4>6. SeedsGiven'
          BY <1>4, <1>7 DEF SeedsGiven
      <4>3. ArgsHeld'
          BY <1>4, <1>7 DEF ArgsHeld
      <4>4. MarksClosed'
          BY <1>4, <1>7 DEF MarksClosed
      <4>5. QED
          BY <4>1, <4>2, <4>3, <4>4, <4>6 DEF Marking
    <3>4. QED
        BY <1>2, <1>3, <1>4, <1>7, <3>1, <3>3 DEF Progress, Finished, During
  <2>4. QED
      BY <2>1, <2>2, <2>3
<1>11. JobSound'
    BY <1>1, <1>2, <1>7, <1>8, <1>9, <1>10 DEF JobSound
<1>12. QED
    BY <1>1, <1>2, <1>3, <1>7, <1>11, TickStep DEF PruneTypes

(* A prune that takes nothing out ends.                                    *)
LEMMA NoopStep ==
    ASSUME PruneInv, Noop
    PROVE  PruneInv'
<1>1. prune \in PruneJobs /\ JobSound /\ PruneTypes /\ Lone(base.identity)
    BY InJob DEF Noop, PrunePhases
<1>2. UNCHANGED <<base, staged, records, live, order, certificate>> /\ prune' = NoJob
    BY DEF Noop
<1>3. staged = base
    BY <1>1 DEF Noop, At, JobSound, Progress, During
<1>4. PruneTypes'
    BY <1>1, <1>2 DEF PruneTypes
<1>5. HasCertificate' => CertificateTrue(certificate')
    BY <1>2 DEF PruneInv, HasCertificate
<1>6. QED
    BY <1>1, <1>2, <1>3, <1>4, <1>5 DEF PruneInv

(* What Pend changes and what it leaves.                                   *)
LEMMA PendIs ==
    ASSUME NEW job \in PruneJobs, NEW more, \A v \in DOMAIN more : more[v] \in Condition
    PROVE  /\ Pend(job, more) \in PruneJobs
           /\ Pend(job, more).phase = job.phase /\ Pend(job, more).before = job.before
           /\ Pend(job, more).rows = job.rows /\ Pend(job, more).heads = job.heads
           /\ Pend(job, more).names = job.names /\ Pend(job, more).free = job.free
           /\ Pend(job, more).seeds = job.seeds /\ Pend(job, more).given = job.given
           /\ Pend(job, more).next = job.next /\ Pend(job, more).marked = job.marked
           /\ \A v \in Var : Pend(job, more).pending[v] =
                 IF v \in DOMAIN more THEN job.pending[v] \cup more[v] ELSE job.pending[v]
<1> DEFINE pending == [v \in Var |-> IF v \in DOMAIN more THEN job.pending[v] \cup more[v]
                                     ELSE job.pending[v]]
<1>1. pending \in [Var -> Condition]
    BY DEF PruneJobs, Condition
<1>2. Pend(job, more) = [job EXCEPT !.pending = pending]
    BY DEF Pend, PruneJobs
<1>3. \A v \in Var : pending[v] = IF v \in DOMAIN more THEN job.pending[v] \cup more[v]
                                  ELSE job.pending[v]
    OBVIOUS
<1> HIDE DEF pending
<1>4. QED
    BY <1>1, <1>2, <1>3 DEF PruneJobs

(* Arguments are variables.                                                *)
LEMMA ArgsAreVariables ==
    ASSUME NEW o \in Cell, NEW v \in Range(ArgsOf[o])
    PROVE  v \in Var
<1>1. ArgsOf[o] \in Seq(Var)
    BY PrunesAreOfRows
<1>2. QED
    BY <1>1 DEF Range

(* What a reference from outside is made of.                               *)
LEMMA GivenIs ==
    ASSUME prune \in PruneJobs, NEW i \in DOMAIN prune.given
    PROVE  prune.given[i].var \in Var /\ prune.given[i].cond \in Condition
<1>1. prune.given \in Seq(SeedRecords)
    BY DEF PruneJobs
<1>2. prune.given[i] \in SeedRecords
    BY <1>1
<1>3. QED
    BY <1>2 DEF SeedRecords

(* A reference from outside.                                               *)
LEMMA PendSeedStep ==
    ASSUME PruneInv, PendSeed
    PROVE  PruneInv'
<1>1. prune \in PruneJobs /\ JobSound /\ PruneTypes
    BY InJob DEF PendSeed, PrunePhases
<1>2. UNCHANGED <<base, staged, records, live, order, certificate>> /\ prune.phase = "Seeds"
    BY DEF PendSeed, At
<1>3. /\ staged = base /\ prune.rows = Cell /\ prune.names = Var /\ ~prune.free /\ Marking
    BY <1>1, <1>2 DEF JobSound, Progress, During
<1>4. CASE prune.seeds = <<>>
  <2>1. /\ prune' \in PruneJobs /\ prune'.phase = "Occurrences"
        /\ prune'.before = prune.before /\ prune'.rows = prune.rows /\ prune'.heads = prune.heads
        /\ prune'.names = prune.names /\ prune'.free = prune.free /\ prune'.seeds = prune.seeds
        /\ prune'.given = prune.given /\ prune'.next = prune.next
        /\ prune'.pending = prune.pending /\ prune'.marked = prune.marked
      BY <1>1, <1>4 DEF PendSeed, PruneJobs, PrunePhases
  <2>2. RecordsAreCut'
      BY <1>1, <1>2, <2>1, RecordsStay DEF JobSound, RecordsAreCut, At
  <2>3. Marking'
      BY <1>2, <1>3, <2>1, MarkingStays
  <2>4. RowsAreCut'
      BY <1>2, <1>3, <2>1 DEF RowsAreCut
  <2>5. Progress'
      BY <1>2, <1>3, <1>4, <2>1, <2>3, <2>4 DEF Progress, During
  <2>6. NextIsTrue' /\ Finished'
      BY <1>1, <1>2, <2>1 DEF JobSound, NextIsTrue, Finished, During
  <2>7. JobSound'
      BY <1>1, <1>2, <2>1, <2>2, <2>5, <2>6 DEF JobSound
  <2>8. QED
      BY <1>1, <1>2, <2>1, <2>7, TickStep DEF PruneTypes
<1>5. CASE prune.seeds # <<>>
  <2> DEFINE seed == Head(prune.seeds)
             job == [prune EXCEPT !.seeds = Tail(@)]
             more == [v \in {seed.var} |-> seed.cond \cap live]
  <2>1. /\ prune.seeds \in Seq(SeedRecords) /\ seed \in SeedRecords
        /\ Tail(prune.seeds) \in Seq(SeedRecords)
        /\ 1 \in DOMAIN prune.seeds /\ seed = prune.seeds[1]
        /\ \A j \in DOMAIN Tail(prune.seeds) :
              j + 1 \in DOMAIN prune.seeds /\ Tail(prune.seeds)[j] = prune.seeds[j + 1]
        /\ \A j \in DOMAIN prune.seeds : j # 1 =>
              /\ j - 1 \in DOMAIN Tail(prune.seeds)
              /\ Tail(prune.seeds)[j - 1] = prune.seeds[j]
      BY <1>1, <1>5 DEF PruneJobs
  <2>2. /\ job \in PruneJobs
        /\ job.phase = prune.phase /\ job.before = prune.before /\ job.rows = prune.rows
        /\ job.heads = prune.heads /\ job.names = prune.names /\ job.free = prune.free
        /\ job.seeds = Tail(prune.seeds) /\ job.given = prune.given /\ job.next = prune.next
        /\ job.pending = prune.pending /\ job.marked = prune.marked
      BY <1>1, <2>1 DEF PruneJobs
  <2>3. prune' = Pend(job, more)
      BY <1>5 DEF PendSeed
  <2>4. seed.var \in Var /\ seed.cond \in Condition
      BY <2>1 DEF SeedRecords
  <2>5. DOMAIN more = {seed.var} /\ more[seed.var] = seed.cond \cap live
      OBVIOUS
  <2> HIDE DEF job, more, seed
  <2>6. \A v \in DOMAIN more : more[v] \in Condition
      BY <2>4, <2>5 DEF Condition
  <2>7. /\ prune' \in PruneJobs
        /\ prune'.phase = prune.phase /\ prune'.before = prune.before /\ prune'.rows = prune.rows
        /\ prune'.heads = prune.heads /\ prune'.names = prune.names /\ prune'.free = prune.free
        /\ prune'.seeds = Tail(prune.seeds) /\ prune'.given = prune.given
        /\ prune'.next = prune.next /\ prune'.marked = prune.marked
        /\ \A v \in Var : prune'.pending[v] = IF v = seed.var
                                              THEN prune.pending[v] \cup (seed.cond \cap live)
                                              ELSE prune.pending[v]
    <3>1. /\ prune' \in PruneJobs
          /\ prune'.phase = job.phase /\ prune'.before = job.before /\ prune'.rows = job.rows
          /\ prune'.heads = job.heads /\ prune'.names = job.names /\ prune'.free = job.free
          /\ prune'.seeds = job.seeds /\ prune'.given = job.given
          /\ prune'.next = job.next /\ prune'.marked = job.marked
          /\ \A v \in Var : prune'.pending[v] = IF v \in DOMAIN more
                                                THEN job.pending[v] \cup more[v]
                                                ELSE job.pending[v]
        BY ONLY <2>2, <2>3, <2>6, PendIs
    <3>2. QED
        BY ONLY <2>2, <2>5, <3>1
  <2>8. PICK g \in DOMAIN prune.given : seed = prune.given[g]
      BY <1>3, <2>1 DEF Marking, SeedsGiven
  <2>9. \A v \in Var : Held(v)' = IF v = seed.var THEN Held(v) \cup (seed.cond \cap live)
                                  ELSE Held(v)
      BY <2>7 DEF Held
  <2>10. MarksSound'
    <3>1. ASSUME NEW v \in Var, NEW w \in Held(v)'
          PROVE  w \in live /\ v \in Needed(base, prune.given, w)
      <4>1. CASE w \in Held(v)
          BY <1>3, <4>1 DEF Marking, MarksSound
      <4>2. CASE v = seed.var /\ w \in seed.cond \cap live
        <5>1. v \in Named(base, prune.given, w)
            BY <2>8, <4>2, NamedSeed
        <5>2. prune.given \in Seq(SeedRecords)
            BY <1>1 DEF PruneJobs
        <5>3. QED
            BY <4>2, <5>1, <5>2, NamedNeeded
      <4>3. QED
          BY <2>9, <3>1, <4>1, <4>2
    <3>2. QED
        BY <1>2, <2>7, <3>1 DEF MarksSound, Needed
  <2>11. SeedsHeld'
    <3>1. ASSUME NEW i \in DOMAIN prune.given, NEW v \in Var, v = prune.given[i].var,
                 ~\E j \in DOMAIN Tail(prune.seeds) : Tail(prune.seeds)[j] = prune.given[i]
          PROVE  prune.given[i].cond \cap live \subseteq Held(v)'
      <4>1. CASE prune.given[i] = seed
          BY <2>9, <3>1, <4>1
      <4>2. CASE prune.given[i] # seed
        <5>1. ~\E j \in DOMAIN prune.seeds : prune.seeds[j] = prune.given[i]
            BY <2>1, <3>1, <4>2
        <5>2. prune.given[i].cond \cap live \subseteq Held(v)
            BY <1>3, <3>1, <5>1 DEF Marking, SeedsHeld
        <5>3. QED
            BY <2>9, <5>2
      <4>3. QED
          BY <4>1, <4>2
    <3>2. QED
        BY <1>1, <1>2, <2>7, <3>1, GivenIs DEF SeedsHeld, Held
  <2>12. SeedsGiven'
      BY <1>3, <2>1, <2>7 DEF Marking, SeedsGiven
  <2>13. ArgsHeld'
      BY <1>3, <2>7 DEF ArgsHeld
  <2>14. MarksClosed'
    <3>1. ASSUME NEW v \in Var, NEW p \in Var
          PROVE  prune.marked[v] \cap base.identity.PARENT[v][p] \subseteq Held(p)'
      <4>1. prune.marked[v] \cap base.identity.PARENT[v][p] \subseteq Held(p)
          BY <1>3 DEF Marking, MarksClosed
      <4>2. QED
          BY <2>9, <4>1
    <3>2. QED
        BY <1>2, <2>7, <3>1 DEF MarksClosed
  <2>15. Marking'
      BY <2>10, <2>11, <2>12, <2>13, <2>14 DEF Marking
  <2>16. RecordsAreCut'
      BY <1>1, <1>2, <2>7, RecordsStay DEF JobSound
  <2>17. Progress' /\ NextIsTrue' /\ Finished'
      BY <1>1, <1>2, <1>3, <2>7, <2>15 DEF JobSound, Progress, NextIsTrue, Finished, During
  <2>18. JobSound'
      BY <1>1, <1>2, <2>7, <2>16, <2>17 DEF JobSound
  <2>19. QED
      BY <1>1, <1>2, <2>7, <2>18, TickStep DEF PruneTypes
<1>6. QED
    BY <1>4, <1>5

(* The least of some numbers is one of them.                               *)
LEMMA LeastIsIn ==
    ASSUME NEW S \in SUBSET Nat, S # {}
    PROVE  Min(S) \in S
<1>1. PICK k \in S : \A j \in S : k <= j
    BY LeastNatural
<1>2. QED
    BY <1>1 DEF Min

(* One occurrence is cut, and what it mentions is pending.                 *)
LEMMA PruneOccurrenceStep ==
    ASSUME PruneInv, PruneOccurrence, prune.rows # {}
    PROVE  PruneInv'
<1>1. prune \in PruneJobs /\ JobSound /\ PruneTypes
    BY InJob DEF PruneOccurrence, PrunePhases
<1>2. UNCHANGED <<base, records, live, order, certificate>> /\ prune.phase = "Occurrences"
    BY DEF PruneOccurrence, At
<1>3. /\ RowsAreCut /\ staged.identity = base.identity /\ prune.names = Var
      /\ prune.free => base.identity = NoRows
      /\ ~prune.free => Marking /\ prune.seeds = <<>>
    BY <1>1, <1>2 DEF JobSound, Progress, During
<1> DEFINE o == Min(prune.rows)
           cond == staged.live[o] \cap live
           rest == [prune EXCEPT !.rows = @ \ {o}]
           more == [v \in Range(ArgsOf[o]) |-> cond]
<1>4. o \in prune.rows /\ o \in Cell
  <2>1. prune.rows \subseteq Cell
      BY <1>1 DEF PruneJobs
  <2>2. prune.rows \in SUBSET Nat
      BY <2>1, PrunesAreOfRows
  <2>3. QED
      BY <2>1, <2>2, LeastIsIn
<1>5. /\ staged' = [staged EXCEPT !.live[o] = cond]
      /\ prune' = IF prune.free THEN rest ELSE Pend(rest, more)
    BY DEF PruneOccurrence
<1>6. DOMAIN more = Range(ArgsOf[o]) /\ \A v \in DOMAIN more : more[v] = cond
    OBVIOUS
<1>7. /\ rest \in PruneJobs
      /\ rest.phase = prune.phase /\ rest.before = prune.before /\ rest.rows = prune.rows \ {o}
      /\ rest.heads = prune.heads /\ rest.names = prune.names /\ rest.free = prune.free
      /\ rest.seeds = prune.seeds /\ rest.given = prune.given /\ rest.next = prune.next
      /\ rest.pending = prune.pending /\ rest.marked = prune.marked
    BY <1>1 DEF PruneJobs
<1>8. cond = base.live[o] \cap live /\ cond \in Condition
    BY <1>1, <1>3, <1>4 DEF RowsAreCut, PruneTypes, Roots, Condition
<1>9. Range(ArgsOf[o]) \subseteq Var
    BY <1>4, ArgsAreVariables
<1> HIDE DEF o, cond, rest, more
<1>10. /\ staged' \in Roots /\ staged'.identity = staged.identity
       /\ staged'.live[o] = cond
       /\ \A x \in Cell : x # o => staged'.live[x] = staged.live[x]
    BY <1>1, <1>4, <1>5, <1>8 DEF PruneTypes, Roots
<1>11. /\ prune' \in PruneJobs
       /\ prune'.phase = prune.phase /\ prune'.before = prune.before
       /\ prune'.rows = prune.rows \ {o}
       /\ prune'.heads = prune.heads /\ prune'.names = prune.names /\ prune'.free = prune.free
       /\ prune'.seeds = prune.seeds /\ prune'.given = prune.given /\ prune'.next = prune.next
       /\ prune'.marked = prune.marked
       /\ ~prune.free => \A v \in Var :
             prune'.pending[v] = IF v \in Range(ArgsOf[o]) THEN prune.pending[v] \cup cond
                                 ELSE prune.pending[v]
  <2>1. CASE prune.free
      BY <1>5, <1>7, <2>1
  <2>2. CASE ~prune.free
    <3>1. prune' = Pend(rest, more)
        BY <1>5, <2>2
    <3>2. \A v \in DOMAIN more : more[v] \in Condition
        BY <1>6, <1>8
    <3>3. QED
      <4>1. /\ prune' \in PruneJobs
            /\ prune'.phase = rest.phase /\ prune'.before = rest.before /\ prune'.rows = rest.rows
            /\ prune'.heads = rest.heads /\ prune'.names = rest.names /\ prune'.free = rest.free
            /\ prune'.seeds = rest.seeds /\ prune'.given = rest.given
            /\ prune'.next = rest.next /\ prune'.marked = rest.marked
            /\ \A v \in Var : prune'.pending[v] = IF v \in DOMAIN more
                                                  THEN rest.pending[v] \cup more[v]
                                                  ELSE rest.pending[v]
          BY ONLY <1>7, <3>1, <3>2, PendIs
      <4>2. QED
          BY ONLY <1>6, <1>7, <4>1
  <2>3. QED
      BY <2>1, <2>2
<1>12. RowsAreCut'
  <2>1. ASSUME NEW x \in Cell
        PROVE  staged'.live[x] = IF x \in prune'.rows THEN base.live[x] ELSE base.live[x] \cap live
    <3>1. CASE x = o
        BY <1>8, <1>10, <1>11, <3>1
    <3>2. CASE x # o
        BY <1>3, <1>10, <1>11, <3>2 DEF RowsAreCut
    <3>3. QED
        BY <3>1, <3>2
  <2>2. QED
      BY <1>2, <2>1 DEF RowsAreCut
<1>13. ASSUME ~prune.free PROVE Marking'
  <2>1. Marking
      BY <1>3, <1>13
  <2>2. \A v \in Var : Held(v)' = IF v \in Range(ArgsOf[o]) THEN Held(v) \cup cond ELSE Held(v)
      BY <1>11, <1>13 DEF Held
  <2>3. MarksSound'
    <3>1. ASSUME NEW v \in Var, NEW w \in Held(v)'
          PROVE  w \in live /\ v \in Needed(base, prune.given, w)
      <4>1. CASE w \in Held(v)
          BY <2>1, <4>1 DEF Marking, MarksSound
      <4>2. CASE v \in Range(ArgsOf[o]) /\ w \in cond
        <5>1. v \in Named(base, prune.given, w)
            BY <1>4, <1>8, <4>2, NamedArg
        <5>2. prune.given \in Seq(SeedRecords)
            BY <1>1 DEF PruneJobs
        <5>3. QED
            BY <1>8, <4>2, <5>1, <5>2, NamedNeeded
      <4>3. QED
          BY <2>2, <3>1, <4>1, <4>2
    <3>2. QED
        BY <1>2, <1>11, <3>1 DEF MarksSound, Needed
  <2>4. SeedsHeld'
    <3>1. ASSUME NEW i \in DOMAIN prune.given, NEW v \in Var, v = prune.given[i].var,
                 ~\E j \in DOMAIN prune.seeds : prune.seeds[j] = prune.given[i]
          PROVE  prune.given[i].cond \cap live \subseteq Held(v)'
      <4>1. prune.given[i].cond \cap live \subseteq Held(v)
          BY <2>1, <3>1 DEF Marking, SeedsHeld
      <4>2. QED
          BY <2>2, <4>1
    <3>2. QED
        BY <1>1, <1>2, <1>11, <3>1, GivenIs DEF SeedsHeld, Held
  <2>5. SeedsGiven'
      BY <1>11, <2>1 DEF Marking, SeedsGiven
  <2>6. ArgsHeld'
    <3>1. ASSUME NEW x \in Cell \ prune'.rows, NEW v \in Range(ArgsOf[x])
          PROVE  base.live[x] \cap live \subseteq Held(v)'
      <4>1. v \in Var
          BY <3>1, ArgsAreVariables
      <4>2. CASE x = o
          BY <1>8, <2>2, <3>1, <4>1, <4>2
      <4>3. CASE x # o
        <5>1. base.live[x] \cap live \subseteq Held(v)
            BY <1>11, <2>1, <3>1, <4>3 DEF Marking, ArgsHeld
        <5>2. QED
            BY <2>2, <4>1, <5>1
      <4>4. QED
          BY <4>2, <4>3
    <3>2. QED
        BY <1>2, <3>1 DEF ArgsHeld
  <2>7. MarksClosed'
    <3>1. ASSUME NEW v \in Var, NEW p \in Var
          PROVE  prune.marked[v] \cap base.identity.PARENT[v][p] \subseteq Held(p)'
      <4>1. prune.marked[v] \cap base.identity.PARENT[v][p] \subseteq Held(p)
          BY <2>1 DEF Marking, MarksClosed
      <4>2. QED
          BY <2>2, <4>1
    <3>2. QED
        BY <1>2, <1>11, <3>1 DEF MarksClosed
  <2>8. QED
      BY <2>3, <2>4, <2>5, <2>6, <2>7 DEF Marking
<1>14. RecordsAreCut'
    BY <1>1, <1>2, <1>11, RecordsStay DEF JobSound
<1>15. Progress' /\ NextIsTrue' /\ Finished'
    BY <1>1, <1>2, <1>3, <1>10, <1>11, <1>12, <1>13 DEF JobSound, Progress, NextIsTrue, Finished,
       During
<1>16. JobSound'
    BY <1>1, <1>2, <1>11, <1>14, <1>15 DEF JobSound
<1>17. QED
    BY <1>1, <1>2, <1>10, <1>11, <1>16, TickStep DEF PruneTypes

(* When the occurrences are done, a prune without identity rows is.        *)
LEMMA OccurrencesEnd ==
    ASSUME PruneInv, PruneOccurrence, prune.rows = {}
    PROVE  PruneInv'
<1>1. prune \in PruneJobs /\ JobSound /\ PruneTypes
    BY InJob DEF PruneOccurrence, PrunePhases
<1>2. /\ UNCHANGED <<base, staged, records, live, order, certificate>>
      /\ prune.phase = "Occurrences"
    BY DEF PruneOccurrence, At
<1>3. /\ RowsAreCut /\ staged.identity = base.identity /\ prune.names = Var
      /\ prune.free => base.identity = NoRows
      /\ ~prune.free => Marking /\ prune.seeds = <<>>
    BY <1>1, <1>2 DEF JobSound, Progress, During
<1>4. /\ prune' \in PruneJobs /\ prune'.phase = IF prune.free THEN "Cleanup" ELSE "Next"
      /\ prune'.before = prune.before /\ prune'.rows = prune.rows /\ prune'.heads = prune.heads
      /\ prune'.names = prune.names /\ prune'.free = prune.free /\ prune'.seeds = prune.seeds
      /\ prune'.given = prune.given /\ prune'.next = prune.next
      /\ prune'.pending = prune.pending /\ prune'.marked = prune.marked
    BY <1>1 DEF PruneOccurrence, PruneJobs, PrunePhases
<1>5. RecordsAreCut'
    BY <1>1, <1>2, <1>4, RecordsStay DEF JobSound, RecordsAreCut, At
<1>6. NextIsTrue'
    BY <1>1, <1>2, <1>4 DEF JobSound, NextIsTrue, During
<1>7. Progress' /\ Finished'
  <2>1. CASE prune.free
    <3>1. staged \in Roots /\ base \in Roots
        BY <1>1 DEF PruneTypes
    <3>2. /\ Pruned(base, prune.given).identity = NoRows
          /\ \A o \in Cell : Pruned(base, prune.given).live[o] = base.live[o] \cap live
          /\ Pruned(base, prune.given) \in Roots
        BY <1>3, <2>1, <3>1, PrunedNoRows, PrunedIs DEF Roots
    <3>3. \A o \in Cell : staged.live[o] = Pruned(base, prune.given).live[o]
        BY <1>3, <3>2 DEF RowsAreCut
    <3>4. staged.identity = Pruned(base, prune.given).identity
        BY <1>3, <2>1, <3>2
    <3>5. staged = Pruned(base, prune.given)
        BY <3>1, <3>2, <3>3, <3>4, SameRoot
    <3>6. staged' = Pruned(base, prune.given)'
        BY <1>2, <1>4, <3>5, PrunedStays
    <3>7. QED
        BY <1>4, <2>1, <3>6 DEF Progress, Finished, During
  <2>2. CASE ~prune.free
    <3>1. Marking'
        BY <1>2, <1>3, <1>4, <2>2, MarkingStays
    <3>2. RowsAreCut'
        BY <1>2, <1>3, <1>4 DEF RowsAreCut
    <3>3. QED
        BY <1>2, <1>3, <1>4, <2>2, <3>1, <3>2 DEF Progress, Finished, During
  <2>3. QED
      BY <2>1, <2>2
<1>8. JobSound'
    BY <1>1, <1>2, <1>4, <1>5, <1>6, <1>7 DEF JobSound
<1>9. QED
    BY <1>1, <1>2, <1>4, <1>8, TickStep DEF PruneTypes

(* One variable is marked, and its parents are pending.                    *)
LEMMA MarkStep ==
    ASSUME PruneInv, Mark
    PROVE  PruneInv'
<1>1. prune \in PruneJobs /\ JobSound /\ PruneTypes /\ Lone(base.identity)
    BY InJob DEF Mark, PrunePhases
<1>2. UNCHANGED <<base, staged, records, live, order, certificate>> /\ prune.phase = "Next"
    BY DEF Mark, At
<1>3. /\ RowsAreCut /\ staged.identity = base.identity /\ prune.names = Var
      /\ prune.rows = {} /\ ~prune.free /\ Marking /\ prune.seeds = <<>>
    BY <1>1, <1>2 DEF JobSound, Progress, During
<1> DEFINE open == {v \in Var : prune.pending[v] # {}}
           v == Min(open)
           fresh == prune.pending[v] \ prune.marked[v]
           job == [prune EXCEPT !.pending[v] = {}, !.marked[v] = @ \cup fresh]
           more == [p \in Var |-> staged.identity.PARENT[v][p] \cap fresh]
<1>4. prune' = IF open = {} THEN [prune EXCEPT !.phase = "Identity"] ELSE Pend(job, more)
    BY DEF Mark
<1>5. CASE open = {}
  <2>1. /\ prune' \in PruneJobs /\ prune'.phase = "Identity"
        /\ prune'.before = prune.before /\ prune'.rows = prune.rows /\ prune'.heads = prune.heads
        /\ prune'.names = prune.names /\ prune'.free = prune.free /\ prune'.seeds = prune.seeds
        /\ prune'.given = prune.given /\ prune'.next = prune.next
        /\ prune'.pending = prune.pending /\ prune'.marked = prune.marked
    <3> HIDE DEF job, more, open
    <3> QED
        BY <1>1, <1>4, <1>5 DEF PruneJobs, PrunePhases
  <2>2. RecordsAreCut'
      BY <1>1, <1>2, <2>1, RecordsStay DEF JobSound, RecordsAreCut, At
  <2>3. Marking'
      BY <1>2, <1>3, <2>1, MarkingStays
  <2>4. RowsAreCut'
      BY <1>2, <1>3, <2>1 DEF RowsAreCut
  <2>5. IdentityIsCut'
      BY <1>2, <1>3, <2>1 DEF IdentityIsCut, CutRow
  <2>6. \A u \in Var : prune'.pending[u] = {}
      BY <1>5, <2>1
  <2>7. Progress'
      BY <1>3, <2>1, <2>3, <2>4, <2>5, <2>6 DEF Progress, During
  <2>8. NextIsTrue' /\ Finished'
      BY <1>1, <1>2, <2>1 DEF JobSound, NextIsTrue, Finished, During
  <2>9. JobSound'
      BY <1>1, <1>2, <2>1, <2>2, <2>7, <2>8 DEF JobSound
  <2>10. QED
      BY <1>1, <1>2, <2>1, <2>9, TickStep DEF PruneTypes
<1>6. CASE open # {}
  <2>1. v \in Var /\ open \subseteq Var
    <3>1. open \in SUBSET Nat
        BY VariablesAreNumbers
    <3>2. v \in open
        BY <1>6, <3>1, LeastIsIn
    <3>3. QED
        BY <3>2
  <2> HIDE DEF v
  <2>2. fresh \in Condition
      BY <1>1, <2>1 DEF PruneJobs, Condition
  <2>3. /\ job \in PruneJobs
        /\ job.phase = prune.phase /\ job.before = prune.before /\ job.rows = prune.rows
        /\ job.heads = prune.heads /\ job.names = prune.names /\ job.free = prune.free
        /\ job.seeds = prune.seeds /\ job.given = prune.given /\ job.next = prune.next
        /\ \A u \in Var :
              /\ job.pending[u] = IF u = v THEN {} ELSE prune.pending[u]
              /\ job.marked[u] = IF u = v THEN prune.marked[u] \cup fresh ELSE prune.marked[u]
    <3> HIDE DEF fresh
    <3> QED
        BY <1>1, <2>1, <2>2 DEF PruneJobs, Condition
  <2>4. /\ DOMAIN more = Var
        /\ \A p \in Var : more[p] = base.identity.PARENT[v][p] \cap fresh
      BY <1>3
  <2>5. prune' = Pend(job, more)
      BY <1>4, <1>6
  <2> HIDE DEF job, more, open
  <2>6. \A p \in DOMAIN more : more[p] \in Condition
      BY <2>2, <2>4 DEF Condition
  <2>7. /\ prune' \in PruneJobs
        /\ prune'.phase = job.phase /\ prune'.before = job.before /\ prune'.rows = job.rows
        /\ prune'.heads = job.heads /\ prune'.names = job.names /\ prune'.free = job.free
        /\ prune'.seeds = job.seeds /\ prune'.given = job.given
        /\ prune'.next = job.next /\ prune'.marked = job.marked
        /\ \A u \in Var : prune'.pending[u] = IF u \in DOMAIN more
                                              THEN job.pending[u] \cup more[u]
                                              ELSE job.pending[u]
    <3>1. job \in PruneJobs
        BY <2>3
    <3> HIDE DEF fresh
    <3>2. QED
        BY ONLY <2>5, <2>6, <3>1, PendIs
  <2>8. \A u \in Var :
           /\ prune'.pending[u] = (IF u = v THEN {} ELSE prune.pending[u])
                                     \cup (base.identity.PARENT[v][u] \cap fresh)
           /\ prune'.marked[u] = IF u = v THEN prune.marked[u] \cup fresh ELSE prune.marked[u]
    <3> HIDE DEF fresh
    <3> QED
        BY <2>3, <2>4, <2>7
  <2>9. ASSUME NEW u \in Var
        PROVE  Held(u)' = Held(u) \cup (base.identity.PARENT[v][u] \cap fresh)
    <3>1. CASE u = v
        BY <2>8, <3>1 DEF Held
    <3>2. CASE u # v
        BY <2>8, <3>2 DEF Held
    <3>3. QED
        BY <3>1, <3>2
  <2>10. MarksSound'
    <3>1. ASSUME NEW u \in Var, NEW w \in Held(u)'
          PROVE  w \in live /\ u \in Needed(base, prune.given, w)
      <4>1. CASE w \in Held(u)
          BY <1>3, <4>1 DEF Marking, MarksSound
      <4>2. CASE w \in base.identity.PARENT[v][u] \cap fresh
        <5>1. w \in Held(v)
            BY <4>2 DEF Held
        <5>2. w \in live /\ v \in Needed(base, prune.given, w)
            BY <1>3, <2>1, <5>1 DEF Marking, MarksSound
        <5>3. w \in World /\ base \in Roots
            BY <1>1, <5>2 DEF PruneTypes, Condition
        <5>4. u \in Needed(base, prune.given, w)
            BY <1>1, <4>2, <5>2, <5>3, NeededParent
        <5>5. QED
            BY <5>2, <5>4
      <4>3. QED
          BY <2>9, <3>1, <4>1, <4>2
    <3>2. QED
        BY <1>2, <2>3, <2>7, <3>1 DEF MarksSound, Needed
  <2>11. SeedsHeld'
    <3>1. ASSUME NEW i \in DOMAIN prune.given, NEW u \in Var, u = prune.given[i].var,
                 ~\E j \in DOMAIN prune.seeds : prune.seeds[j] = prune.given[i]
          PROVE  prune.given[i].cond \cap live \subseteq Held(u)'
      <4>1. prune.given[i].cond \cap live \subseteq Held(u)
          BY <1>3, <3>1 DEF Marking, SeedsHeld
      <4>2. QED
          BY <2>9, <4>1
    <3>2. QED
        BY <1>1, <1>2, <2>3, <2>7, <3>1, GivenIs DEF SeedsHeld, Held
  <2>12. SeedsGiven'
      BY <1>3, <2>3, <2>7 DEF Marking, SeedsGiven
  <2>13. ArgsHeld'
    <3>1. ASSUME NEW x \in Cell \ prune.rows, NEW u \in Range(ArgsOf[x])
          PROVE  base.live[x] \cap live \subseteq Held(u)'
      <4>1. u \in Var
          BY <3>1, ArgsAreVariables
      <4>2. base.live[x] \cap live \subseteq Held(u)
          BY <1>3, <3>1 DEF Marking, ArgsHeld
      <4>3. QED
          BY <2>9, <4>1, <4>2
    <3>2. QED
        BY <1>2, <2>3, <2>7, <3>1 DEF ArgsHeld
  <2>14. MarksClosed'
    <3>1. ASSUME NEW u \in Var, NEW p \in Var, NEW w \in prune'.marked[u],
                 w \in base.identity.PARENT[u][p]
          PROVE  w \in Held(p)'
      <4>1. CASE w \in prune.marked[u]
          BY <1>3, <2>9, <3>1, <4>1 DEF Marking, MarksClosed
      <4>2. CASE u = v /\ w \in fresh
          BY <2>9, <3>1, <4>2
      <4>3. QED
          BY <2>8, <3>1, <4>1, <4>2
    <3>2. QED
        BY <1>2, <3>1 DEF MarksClosed
  <2>15. Marking'
      BY <2>10, <2>11, <2>12, <2>13, <2>14 DEF Marking
  <2>16. RecordsAreCut'
      BY <1>1, <1>2, <2>3, <2>7, RecordsStay DEF JobSound
  <2>17. RowsAreCut'
      BY <1>2, <1>3, <2>3, <2>7 DEF RowsAreCut
  <2>18. Progress' /\ NextIsTrue' /\ Finished'
      BY <1>1, <1>2, <1>3, <2>3, <2>7, <2>15, <2>17 DEF JobSound, Progress, NextIsTrue, Finished,
         During
  <2>19. JobSound'
      BY <1>1, <1>2, <2>3, <2>7, <2>16, <2>18 DEF JobSound
  <2>20. QED
      BY <1>1, <1>2, <2>7, <2>19, TickStep DEF PruneTypes
<1>7. QED
    BY <1>5, <1>6

(* When nothing is pending, what is marked is what is needed.              *)
LEMMA MarksExact ==
    ASSUME PruneTypes, prune \in PruneJobs, Marking, Lone(base.identity), prune.rows = {},
           prune.seeds = <<>>, \A v \in Var : prune.pending[v] = {},
           NEW w \in live, NEW v \in Var
    PROVE  w \in prune.marked[v] <=> v \in Needed(base, prune.given, w)
<1>1. \A u \in Var : Held(u) = prune.marked[u]
    BY DEF Held
<1>2. w \in World /\ base \in Roots
    BY DEF PruneTypes, Condition
<1> DEFINE set == {u \in Var : w \in prune.marked[u]}
<1>3. ASSUME NEW u \in Named(base, prune.given, w) PROVE u \in set
  <2>1. CASE \E i \in DOMAIN prune.given : w \in prune.given[i].cond /\ u = prune.given[i].var
    <3>1. PICK i \in DOMAIN prune.given : w \in prune.given[i].cond /\ u = prune.given[i].var
        BY <2>1
    <3>2. prune.given[i].cond \cap live \subseteq Held(prune.given[i].var)
        BY DEF Marking, SeedsHeld
    <3>3. QED
        BY <1>1, <3>1, <3>2, GivenIs
  <2>2. CASE \E o \in Cell : w \in base.live[o] /\ u \in Range(ArgsOf[o])
    <3>1. PICK o \in Cell : w \in base.live[o] /\ u \in Range(ArgsOf[o])
        BY <2>2
    <3>2. base.live[o] \cap live \subseteq Held(u)
        BY <3>1 DEF Marking, ArgsHeld
    <3>3. u \in Var
        BY <3>1, ArgsAreVariables
    <3>4. QED
        BY <1>1, <3>1, <3>2, <3>3
  <2>3. QED
      BY <1>3, <2>1, <2>2, NamedOnly
<1>4. ASSUME NEW u \in set, NEW p \in Var, w \in base.identity.PARENT[u][p] PROVE p \in set
    BY <1>1, <1>4 DEF Marking, MarksClosed
<1>5. set \in SUBSET Var /\ Named(base, prune.given, w) \subseteq set
    BY <1>3
<1>6. Needed(base, prune.given, w) \subseteq set
  <2> HIDE DEF set
  <2> QED
      BY <1>2, <1>4, <1>5, NeededLeast
<1>7. w \in prune.marked[v] => v \in Needed(base, prune.given, w)
    BY <1>1 DEF Marking, MarksSound
<1>8. QED
    BY <1>6, <1>7

(* A row of u when those of v are cut.                                     *)
OnlyAt(u, v, row, cond) == IF u = v THEN row \cap cond ELSE row

(* What a visit of a variable leaves, row by row.                          *)
LEMMA KeepRowsIs ==
    ASSUME NEW id \in Rows, NEW v \in Var, NEW cond
    PROVE  /\ KeepRows(id, v, cond) \in Rows
           /\ \A u, p \in Var :
                /\ KeepRows(id, v, cond).PARENT[u][p] =
                      OnlyAt(u, v, id.PARENT[u][p], cond)
                /\ KeepRows(id, v, cond).CHILD[p][u] =
                      OnlyAt(u, v, id.CHILD[p][u], cond)
           /\ \A u \in Var, k \in Rank : KeepRows(id, v, cond).RANK[u][k] =
                OnlyAt(u, v, id.RANK[u][k], cond)
<1> DEFINE parent == [x \in DOMAIN id.PARENT[v] |-> id.PARENT[v][x] \cap cond]
           rank == [x \in DOMAIN id.RANK[v] |-> id.RANK[v][x] \cap cond]
           parents == [id.PARENT EXCEPT ![v] = parent]
           ranks == [id.RANK EXCEPT ![v] = rank]
           children == [p \in Var |-> [id.CHILD[p] EXCEPT ![v] = @ \cap cond]]
<1>1. KeepRows(id, v, cond) = [PARENT |-> parents, RANK |-> ranks, CHILD |-> children]
    BY DEF KeepRows
<1>2. /\ id.PARENT \in [Var -> [Var -> Condition]] /\ id.CHILD \in [Var -> [Var -> Condition]]
      /\ id.RANK \in [Var -> [Rank -> Condition]]
    BY DEF Rows
<1>3. parent \in [Var -> Condition] /\ \A p \in Var : parent[p] = id.PARENT[v][p] \cap cond
    BY <1>2 DEF Condition
<1>4. rank \in [Rank -> Condition] /\ \A k \in Rank : rank[k] = id.RANK[v][k] \cap cond
    BY <1>2 DEF Condition
<1>5. children \in [Var -> [Var -> Condition]]
    BY <1>2 DEF Condition
<1>6. \A u, p \in Var : children[p][u] = OnlyAt(u, v, id.CHILD[p][u], cond)
    BY <1>2 DEF OnlyAt
<1> HIDE DEF parent, rank
<1>7. parents \in [Var -> [Var -> Condition]] /\ ranks \in [Var -> [Rank -> Condition]]
    BY <1>2, <1>3, <1>4
<1>8. \A u, p \in Var : parents[u][p] =
         OnlyAt(u, v, id.PARENT[u][p], cond)
    BY <1>2, <1>3 DEF OnlyAt
<1>9. \A u \in Var, k \in Rank : ranks[u][k] =
         OnlyAt(u, v, id.RANK[u][k], cond)
    BY <1>2, <1>4 DEF OnlyAt
<1> HIDE DEF parents, ranks, children
<1>10. KeepRows(id, v, cond) \in Rows
    BY <1>1, <1>5, <1>7 DEF Rows
<1>11. /\ KeepRows(id, v, cond).PARENT = parents /\ KeepRows(id, v, cond).RANK = ranks
       /\ KeepRows(id, v, cond).CHILD = children
    BY <1>1
<1>12. QED
    BY <1>6, <1>8, <1>9, <1>10, <1>11

(* The identity rows of one variable are cut to where it is marked.        *)
LEMMA PruneIdentityStep ==
    ASSUME PruneInv, PruneIdentity, prune.names # {}
    PROVE  PruneInv'
<1>1. prune \in PruneJobs /\ JobSound /\ PruneTypes
    BY InJob DEF PruneIdentity, PrunePhases
<1>2. UNCHANGED <<base, records, live, order, certificate>> /\ prune.phase = "Identity"
    BY DEF PruneIdentity, At
<1>3. /\ RowsAreCut /\ prune.rows = {} /\ ~prune.free /\ Marking /\ prune.seeds = <<>>
      /\ IdentityIsCut /\ \A v \in Var : prune.pending[v] = {}
    BY <1>1, <1>2 DEF JobSound, Progress, During
<1> DEFINE v == Min(prune.names)
           cond == prune.marked[v] \cap live
           id == staged.identity
           new == KeepRows(id, v, cond)
<1>4. v \in prune.names /\ v \in Var
  <2>1. prune.names \subseteq Var
      BY <1>1 DEF PruneJobs
  <2>2. prune.names \in SUBSET Nat
      BY <2>1, VariablesAreNumbers
  <2>3. QED
      BY <2>1, <2>2, LeastIsIn
<1>5. /\ prune' = [prune EXCEPT !.names = @ \ {v}]
      /\ staged' = [staged EXCEPT !.identity = KeepRows(@, v, cond)]
    BY DEF PruneIdentity
<1>6. /\ prune' \in PruneJobs /\ prune'.phase = prune.phase
      /\ prune'.before = prune.before /\ prune'.rows = prune.rows /\ prune'.heads = prune.heads
      /\ prune'.names = prune.names \ {v} /\ prune'.free = prune.free
      /\ prune'.seeds = prune.seeds /\ prune'.given = prune.given /\ prune'.next = prune.next
      /\ prune'.pending = prune.pending /\ prune'.marked = prune.marked
  <2> HIDE DEF v
  <2> QED
      BY <1>1, <1>5 DEF PruneJobs
<1>7. staged \in Roots /\ id \in Rows
    BY <1>1 DEF PruneTypes, Roots
<1>8. /\ new \in Rows
      /\ \A u, p \in Var :
           /\ new.PARENT[u][p] = OnlyAt(u, v, id.PARENT[u][p], cond)
           /\ new.CHILD[p][u] = OnlyAt(u, v, id.CHILD[p][u], cond)
      /\ \A u \in Var, k \in Rank :
           new.RANK[u][k] = OnlyAt(u, v, id.RANK[u][k], cond)
  <2> HIDE DEF v, cond, id
  <2> QED
      BY <1>4, <1>7, KeepRowsIs
<1>9. staged' = [staged EXCEPT !.identity = new]
    BY <1>5
<1> HIDE DEF v, new
<1>10. staged' \in Roots /\ staged'.live = staged.live /\ staged'.identity = new
    BY <1>7, <1>8, <1>9 DEF Roots
<1>11. /\ base' = base /\ live' = live /\ prune'.names = prune.names \ {v}
       /\ prune'.marked = prune.marked
    BY <1>2, <1>6
<1>12. IdentityIsCut'
  <2>1. \A u \in Var : \A row : OnlyAt(u, v, CutRow(u, row), cond) =
           IF u \in prune.names \ {v} THEN row ELSE row \cap prune.marked[u] \cap live
      BY <1>4 DEF OnlyAt, CutRow
  <2>2. ASSUME NEW u \in Var, NEW p \in Var
        PROVE  /\ staged'.identity.PARENT[u][p] = CutRow(u, base.identity.PARENT[u][p])'
               /\ staged'.identity.CHILD[p][u] = CutRow(u, base.identity.CHILD[p][u])'
    <3>1. /\ id.PARENT[u][p] = CutRow(u, base.identity.PARENT[u][p])
          /\ id.CHILD[p][u] = CutRow(u, base.identity.CHILD[p][u])
        BY <1>3 DEF IdentityIsCut
    <3> HIDE DEF id, cond
    <3>2. /\ new.PARENT[u][p] = OnlyAt(u, v, CutRow(u, base.identity.PARENT[u][p]), cond)
          /\ new.CHILD[p][u] = OnlyAt(u, v, CutRow(u, base.identity.CHILD[p][u]), cond)
        BY <1>8, <3>1
    <3>3. QED
        BY <1>10, <1>11, <2>1, <3>2 DEF CutRow
  <2>3. ASSUME NEW u \in Var, NEW k \in Rank
        PROVE  staged'.identity.RANK[u][k] = CutRow(u, base.identity.RANK[u][k])'
    <3>1. id.RANK[u][k] = CutRow(u, base.identity.RANK[u][k])
        BY <1>3 DEF IdentityIsCut
    <3> HIDE DEF id, cond
    <3>2. new.RANK[u][k] = OnlyAt(u, v, CutRow(u, base.identity.RANK[u][k]), cond)
        BY <1>8, <3>1
    <3>3. QED
        BY <1>10, <1>11, <2>1, <3>2 DEF CutRow
  <2>4. QED
      BY <2>2, <2>3 DEF IdentityIsCut
<1>13. Marking'
    BY <1>2, <1>3, <1>6, MarkingStays
<1>14. RowsAreCut'
    BY <1>2, <1>3, <1>6, <1>10 DEF RowsAreCut
<1>15. RecordsAreCut'
    BY <1>1, <1>2, <1>6, RecordsStay DEF JobSound
<1>16. Progress' /\ NextIsTrue' /\ Finished'
    BY <1>1, <1>2, <1>3, <1>6, <1>12, <1>13, <1>14 DEF JobSound, Progress, NextIsTrue, Finished,
       During
<1>17. JobSound'
    BY <1>1, <1>2, <1>6, <1>15, <1>16 DEF JobSound
<1>18. QED
    BY <1>1, <1>2, <1>6, <1>10, <1>17, TickStep DEF PruneTypes

(* When all variables were visited, the root is pruned.                    *)
LEMMA IdentityEnds ==
    ASSUME PruneInv, PruneIdentity, prune.names = {}
    PROVE  PruneInv'
<1>1. prune \in PruneJobs /\ JobSound /\ PruneTypes /\ Lone(base.identity)
    BY InJob DEF PruneIdentity, PrunePhases
<1>2. UNCHANGED <<base, staged, records, live, order, certificate>> /\ prune.phase = "Identity"
    BY DEF PruneIdentity, At
<1>3. /\ RowsAreCut /\ prune.rows = {} /\ ~prune.free /\ Marking /\ prune.seeds = <<>>
      /\ IdentityIsCut /\ \A v \in Var : prune.pending[v] = {}
    BY <1>1, <1>2 DEF JobSound, Progress, During
<1>4. /\ prune' \in PruneJobs /\ prune'.phase = "Cleanup"
      /\ prune'.before = prune.before /\ prune'.heads = prune.heads /\ prune'.free = prune.free
      /\ prune'.given = prune.given /\ prune'.next = prune.next
    BY <1>1 DEF PruneIdentity, PruneJobs, PrunePhases
<1> DEFINE q == Pruned(base, prune.given)
<1>5. staged \in Roots /\ base \in Roots /\ live \in Condition
    BY <1>1 DEF PruneTypes
<1>6. ASSUME NEW v \in Var, NEW row \in Condition
      PROVE  CutRow(v, row) = KeptRow(base, prune.given, v, row)
  <2>1. \A w \in live : w \in prune.marked[v] <=> v \in Needed(base, prune.given, w)
      BY <1>1, <1>3, <1>6, MarksExact
  <2>2. CutRow(v, row) = row \cap prune.marked[v] \cap live
      BY DEF CutRow
  <2>3. QED
      BY <2>1, <2>2 DEF KeptRow
<1>7. \A v, p \in Var : /\ base.identity.PARENT[v][p] \in Condition
                        /\ base.identity.CHILD[p][v] \in Condition
    BY <1>5 DEF Roots, Rows
<1>8. \A v \in Var, k \in Rank : base.identity.RANK[v][k] \in Condition
    BY <1>5 DEF Roots, Rows
<1>9. /\ q \in Roots
      /\ \A o \in Cell : q.live[o] = base.live[o] \cap live
      /\ \A v, p \in Var :
            /\ q.identity.PARENT[v][p] =
                  KeptRow(base, prune.given, v, base.identity.PARENT[v][p])
            /\ q.identity.CHILD[p][v] =
                  KeptRow(base, prune.given, v, base.identity.CHILD[p][v])
      /\ \A v \in Var, k \in Rank :
            q.identity.RANK[v][k] = KeptRow(base, prune.given, v, base.identity.RANK[v][k])
    BY <1>5, PrunedIs
<1> HIDE DEF q
<1>10. \A o \in Cell : staged.live[o] = q.live[o]
    BY <1>3, <1>9 DEF RowsAreCut
<1>21. ASSUME NEW v \in Var
       PROVE  /\ \A p \in Var :
                   /\ KeptRow(base, prune.given, v, base.identity.PARENT[v][p]) =
                         CutRow(v, base.identity.PARENT[v][p])
                   /\ KeptRow(base, prune.given, v, base.identity.CHILD[p][v]) =
                         CutRow(v, base.identity.CHILD[p][v])
              /\ \A k \in Rank : KeptRow(base, prune.given, v, base.identity.RANK[v][k]) =
                                  CutRow(v, base.identity.RANK[v][k])
    BY <1>6, <1>7, <1>8
<1>11. \A v \in Var :
          /\ \A p \in Var : /\ staged.identity.PARENT[v][p] = q.identity.PARENT[v][p]
                            /\ staged.identity.CHILD[p][v] = q.identity.CHILD[p][v]
          /\ \A k \in Rank : staged.identity.RANK[v][k] = q.identity.RANK[v][k]
  <2> TAKE v \in Var
  <2>1. ASSUME NEW p \in Var
        PROVE  /\ staged.identity.PARENT[v][p] = q.identity.PARENT[v][p]
               /\ staged.identity.CHILD[p][v] = q.identity.CHILD[p][v]
    <3>1. /\ staged.identity.PARENT[v][p] = CutRow(v, base.identity.PARENT[v][p])
          /\ staged.identity.CHILD[p][v] = CutRow(v, base.identity.CHILD[p][v])
        BY <1>3 DEF IdentityIsCut
    <3>2. QED
        BY <1>9, <1>21, <3>1
  <2>2. ASSUME NEW k \in Rank PROVE staged.identity.RANK[v][k] = q.identity.RANK[v][k]
    <3>1. staged.identity.RANK[v][k] = CutRow(v, base.identity.RANK[v][k])
        BY <1>3 DEF IdentityIsCut
    <3>2. QED
        BY <1>9, <1>21, <3>1
  <2>3. QED
      BY <2>1, <2>2
<1>12. staged = q
    BY <1>5, <1>9, <1>10, <1>11, SameRoot
<1>13. staged' = Pruned(base, prune.given)'
    BY <1>2, <1>4, <1>12, PrunedStays DEF q
<1>14. RecordsAreCut'
    BY <1>1, <1>2, <1>4, RecordsStay DEF JobSound, RecordsAreCut, At
<1>15. Progress' /\ NextIsTrue' /\ Finished'
    BY <1>1, <1>2, <1>3, <1>4, <1>13 DEF JobSound, Progress, NextIsTrue, Finished, During
<1>16. JobSound'
    BY <1>1, <1>2, <1>4, <1>14, <1>15 DEF JobSound
<1>17. QED
    BY <1>1, <1>2, <1>4, <1>5, <1>16, TickStep DEF PruneTypes

(* The pruned root is published, and what its certificate says is true.    *)
LEMMA CleanupStep ==
    ASSUME PruneInv, Cleanup
    PROVE  PruneInv'
<1>1. prune \in PruneJobs /\ JobSound /\ PruneTypes /\ Lone(base.identity)
    BY InJob DEF Cleanup, PrunePhases
<1>2. /\ UNCHANGED <<staged, records, live, order>> /\ prune.phase = "Cleanup"
      /\ base' = staged /\ prune' = NoJob
    BY DEF Cleanup, At
<1>3. staged = Pruned(base, prune.given)
    BY <1>1, <1>2 DEF JobSound, Finished, During
<1>4. prune.given \in Seq(SeedRecords) /\ base \in Roots /\ staged \in Roots
    BY <1>1 DEF PruneJobs, PruneTypes
<1>5. Lone(staged.identity) /\ RowsNeeded(staged, prune.given, live)
    BY <1>1, <1>3, <1>4, PrunedNeeded
<1>6. \A o \in Cell : staged.live[o] \subseteq live
    BY <1>3, <1>4, PrunedIs
<1>7. CASE certificate' = certificate
  <2>1. PruneTypes'
      BY <1>1, <1>2, <1>7 DEF PruneTypes
  <2>2. HasCertificate' => CertificateTrue(certificate')
      BY <1>7 DEF PruneInv, HasCertificate
  <2>3. QED
      BY <1>2, <1>5, <2>1, <2>2 DEF PruneInv
<1>8. CASE prune.next # NoCertificate /\ certificate' = [prune.next EXCEPT !.root = staged]
  <2>1. /\ prune.next \in Certificates /\ prune.next.active = live /\ prune.next.dirty = <<>>
        /\ prune.next.free = prune.free
        /\ prune.free \/ prune.next.seeds = prune.given
        /\ prune.free => base.identity = NoRows
      BY <1>1, <1>2, <1>8 DEF JobSound, NextIsTrue, During, PruneJobs
  <2>2. /\ certificate' \in Certificates /\ certificate'.root = staged
        /\ certificate'.active = live /\ certificate'.dirty = <<>>
        /\ certificate'.free = prune.free /\ certificate'.seeds = prune.next.seeds
      BY <1>4, <1>8, <2>1 DEF Certificates
  <2>3. prune.free => staged.identity = NoRows
      BY <1>3, <1>4, <2>1, PrunedNoRows DEF Roots
  <2>4. CertificateTrue(certificate')
      BY <1>5, <1>6, <2>1, <2>2, <2>3 DEF CertificateTrue
  <2>5. PruneTypes'
      BY <1>1, <1>2, <2>2 DEF PruneTypes
  <2>6. QED
      BY <1>2, <1>5, <2>4, <2>5 DEF PruneInv
<1>9. QED
    BY <1>7, <1>8 DEF Cleanup

(* Every step keeps it.                                                    *)
LEMMA PruneNextInv == PruneInv /\ [PruneNext]_pruneVars => PruneInv'
<1> SUFFICES ASSUME PruneInv, [PruneNext]_pruneVars PROVE PruneInv'
    OBVIOUS
<1>1. CASE \E o \in Cell, support \in SUBSET World : WriteRow(o, support)
    BY <1>1, WriteRowStep
<1>2. CASE \E link \in Links : Link(link)
    BY <1>2, LinkStep
<1>3. CASE PublishRoot \/ Abandon \/ \E cond \in SUBSET World : CutActive(cond)
    BY <1>3, OtherStep
<1>4. CASE Reorder
    BY <1>4, ReorderStep
<1>5. CASE \E seeds \in SeedLists : StartPrune(seeds)
    BY <1>5, StartPruneStep
<1>6. CASE PruneRecord \/ UseCertificate \/ StartFull \/ Noop \/ PendSeed
    BY <1>6, PruneRecordStep, UseCertificateStep, StartFullStep, NoopStep, PendSeedStep
<1>7. CASE PruneOccurrence
    BY <1>7, PruneOccurrenceStep, OccurrencesEnd
<1>8. CASE Mark \/ Cleanup
    BY <1>8, MarkStep, CleanupStep
<1>9. CASE PruneIdentity
    BY <1>9, PruneIdentityStep, IdentityEnds
<1>10. CASE UNCHANGED pruneVars
  <2>1. UNCHANGED <<base, staged, records, live, order, certificate, prune>>
      BY <1>10 DEF pruneVars
  <2>2. PruneTypes' /\ Lone(base.identity)' /\ (prune = NoJob => Lone(staged.identity))'
      BY <2>1 DEF PruneInv, PruneTypes
  <2>3. (HasCertificate => CertificateTrue(certificate))'
      BY <2>1 DEF PruneInv, HasCertificate
  <2>4. JobSound => JobSound'
    <3>1. prune # NoJob => Pruned(base, prune.given)' = Pruned(base, prune.given)
        BY <2>1, PrunedStays
    <3>2. RecordsAreCut' <=> RecordsAreCut
        BY <2>1 DEF RecordsAreCut, At
    <3>3. Marking' <=> Marking
        BY <2>1, MarkingStays
    <3>4. IdentityIsCut' <=> IdentityIsCut
        BY <2>1 DEF IdentityIsCut, CutRow
    <3>5. RowsAreCut' <=> RowsAreCut
        BY <2>1 DEF RowsAreCut
    <3>6. Progress' <=> Progress
        BY <2>1, <3>3, <3>4, <3>5 DEF Progress, During
    <3>7. NextIsTrue' <=> NextIsTrue
        BY <2>1 DEF NextIsTrue, During
    <3>8. prune # NoJob => (Finished' <=> Finished)
        BY <2>1, <3>1 DEF Finished, During
    <3>9. Finished => Finished'
        BY <2>1, <3>8, NotAJob DEF Finished, During, NoJob
    <3>10. QED
        BY <2>1, <3>2, <3>6, <3>7, <3>9 DEF JobSound
  <2>5. QED
      BY <2>1, <2>2, <2>3, <2>4 DEF PruneInv
<1>11. QED
    BY <1>1, <1>2, <1>3, <1>4, <1>5, <1>6, <1>7, <1>8, <1>9, <1>10 DEF PruneNext, PruneTick

(* A prune returns exactly what is active and may be resolved, and cuts    *)
(* the records as far: whether it visits all rows, the dirty ones of a     *)
(* certificate, or none, and whatever was written, merged, reordered or    *)
(* given up since the certificate was left.                                *)
THEOREM PrunesAreExact == PruneSpec => []PruneIsExact
<1>1. ASSUME PruneInv PROVE PruneIsExact
  <2>1. CASE prune = NoJob
      BY <2>1 DEF PruneIsExact, NoJob
  <2>2. CASE prune # NoJob
    <3>1. prune \in PruneJobs /\ JobSound
        BY <1>1, <2>2 DEF PruneInv, PruneTypes
    <3>2. prune.phase \in PrunePhases
        BY <3>1, NotAJob
    <3>3. prune.phase \in {"Noop", "Cleanup"} => staged = Pruned(prune.before, prune.given)
        BY <3>1 DEF JobSound, Finished, During
    <3>4. prune.phase # "Records" => prune.heads = {}
        BY <3>1 DEF JobSound, RecordsAreCut, At
    <3>5. prune.phase # "Records" =>
             \A heads \in HeadsOf : \A w \in records[heads] :
                w \in live /\ \A i \in DOMAIN heads : w \in prune.before.live[heads[i]]
        BY <3>1, <3>4 DEF JobSound, RecordsAreCut
    <3>6. QED
        BY <3>3, <3>5 DEF PruneIsExact
  <2>3. QED
      BY <2>1, <2>2
<1>2. QED
    BY <1>1, InitPruneInv, PruneNextInv, PTL DEF PruneSpec
=============================================================================
