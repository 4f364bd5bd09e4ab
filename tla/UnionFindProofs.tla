--------------------------- MODULE UnionFindProofs ---------------------------
(***************************************************************************)
(* UnionFind's invariants for every set of variables and worlds.           *)
(*                                                                         *)
(* Walks have no length here, so nothing is proved by induction over them: *)
(* that a walk ends is itself inductive over the unions.                   *)
(***************************************************************************)
EXTENDS UnionFind, TLAPS

-----------------------------------------------------------------------------
(* Forests.                                                                *)

(* A variable reaches itself.                                              *)
LEMMA ReachedSelf ==
    ASSUME NEW parent_, NEW v \in Var
    PROVE  v \in Reached(parent_, v)
BY DEF Reached

(* A walk that is not at its end goes on from the parent.                  *)
LEMMA ReachedFromParent ==
    ASSUME NEW parent_ \in [Var -> Var], NEW v \in Var,
           NEW r \in Reached(parent_, v), r # v
    PROVE  r \in Reached(parent_, parent_[v])
<1> SUFFICES ASSUME NEW set \in SUBSET Var, parent_[v] \in set, Closed(parent_, set)
             PROVE  r \in set
    BY DEF Reached
<1>1. Closed(parent_, set \cup {v})
    BY DEF Closed
<1>2. r \in set \cup {v}
    BY <1>1 DEF Reached
<1>3. QED
    BY <1>2

(* A root reaches nothing else.                                            *)
LEMMA RootReachesItself ==
    ASSUME NEW parent_ \in [Var -> Var], NEW v \in Var, IsRoot(parent_, v),
           NEW r \in Reached(parent_, v)
    PROVE  r = v
<1>1. {v} \in SUBSET Var /\ Closed(parent_, {v})
    BY DEF Closed, IsRoot
<1>2. QED
    BY <1>1 DEF Reached

(* A walk ends at one representative.                                      *)
LEMMA UniqueRoot ==
    ASSUME NEW parent_ \in [Var -> Var], NEW v \in Var,
           NEW r \in Reached(parent_, v), IsRoot(parent_, r),
           NEW c \in Reached(parent_, v), IsRoot(parent_, c)
    PROVE  r = c
<1> DEFINE towards == {u \in Var : c \in Reached(parent_, u)}
<1>1. Closed(parent_, towards)
  <2> SUFFICES ASSUME NEW u \in towards PROVE parent_[u] \in towards
      BY DEF Closed
  <2>1. CASE u = c
    BY <2>1 DEF IsRoot
  <2>2. CASE u # c
    BY <2>2, ReachedFromParent
  <2>3. QED
    BY <2>1, <2>2
<1>2. v \in towards /\ towards \in SUBSET Var
    OBVIOUS
<1>3. r \in towards
    BY <1>1, <1>2 DEF Reached
<1>4. QED
    BY <1>3, RootReachesItself DEF Reached

(* A root that is reached is the root.                                     *)
LEMMA RootIsTheRoot ==
    ASSUME NEW parent_ \in [Var -> Var], Rooted(parent_), NEW v \in Var
    PROVE  /\ Root(parent_, v) \in Reached(parent_, v)
           /\ Root(parent_, v) \in Var
           /\ IsRoot(parent_, Root(parent_, v))
           /\ \A r \in Reached(parent_, v) : IsRoot(parent_, r) => r = Root(parent_, v)
<1>1. \E r \in Reached(parent_, v) : IsRoot(parent_, r)
    BY DEF Rooted
<1>2. Root(parent_, v) \in Reached(parent_, v) /\ IsRoot(parent_, Root(parent_, v))
    BY <1>1 DEF Root
<1>3. Root(parent_, v) \in Var
    BY <1>2 DEF Reached
<1>4. QED
    BY <1>2, <1>3, UniqueRoot

(* What a link does to walks: those that ended at the loser end at the     *)
(* winner, the others where they did.                                      *)
LEMMA LinkMovesClass ==
    ASSUME NEW parent_ \in [Var -> Var], Rooted(parent_),
           NEW k \in Var, NEW l \in Var, k # l,
           IsRoot(parent_, k), IsRoot(parent_, l)
    PROVE  LET linked == Linked(parent_, k, l)
           IN /\ linked \in [Var -> Var]
              /\ Rooted(linked)
              /\ \A v \in Var : Root(linked, v) = IF Root(parent_, v) = l THEN k
                                                  ELSE Root(parent_, v)
<1> DEFINE linked == Linked(parent_, k, l)
<1>1. linked \in [Var -> Var] /\ linked[l] = k
      /\ \A u \in Var : u # l => linked[u] = parent_[u]
    BY DEF Linked
<1>2. ASSUME NEW set \in SUBSET Var, Closed(linked, set)
      PROVE  Closed(parent_, set)
    BY <1>1, <1>2 DEF Closed, IsRoot
<1>3. ASSUME NEW v \in Var
      PROVE  LET r == IF Root(parent_, v) = l THEN k ELSE Root(parent_, v)
             IN r \in Reached(linked, v) /\ IsRoot(linked, r)
  <2> DEFINE r == IF Root(parent_, v) = l THEN k ELSE Root(parent_, v)
  <2>1. /\ Root(parent_, v) \in Reached(parent_, v)
        /\ Root(parent_, v) \in Var
        /\ IsRoot(parent_, Root(parent_, v))
    BY RootIsTheRoot
  <2>2. ASSUME NEW set \in SUBSET Var, v \in set, Closed(linked, set)
        PROVE  r \in set
    <3>1. Root(parent_, v) \in set
      BY <1>2, <2>1, <2>2 DEF Reached
    <3>2. QED
      BY <1>1, <2>2, <3>1 DEF Closed
  <2>3. r \in Reached(linked, v)
    BY <2>1, <2>2 DEF Reached
  <2>4. IsRoot(linked, r)
    BY <1>1, <2>1 DEF IsRoot
  <2>5. QED
    BY <2>3, <2>4
<1>4. Rooted(linked)
    BY <1>3 DEF Rooted
<1>5. QED
    BY <1>1, <1>3, <1>4, RootIsTheRoot

-----------------------------------------------------------------------------
(* Unions.                                                                 *)

Invariant == TypeOK /\ PartitionIsWhatWasEquated /\ RankGrows

(* One link of the forest of world w: who is hung below whom.              *)
LoserOf(w, l, r) == IF Wins(rank[w], l, r) THEN r ELSE l
WinnerOf(w, l, r) == IF Wins(rank[w], l, r) THEN l ELSE r

(* Single variables satisfy the invariant.                                 *)
LEMMA InitInvariant == Init => Invariant
<1> SUFFICES ASSUME Init PROVE Invariant
    OBVIOUS
<1>1. TypeOK
    BY DEF Init, TypeOK
<1>2. ASSUME NEW w \in World
      PROVE  /\ Rooted(parent[w])
             /\ \A v \in Var : Root(parent[w], v) = v
  <2>1. parent[w] \in [Var -> Var] /\ \A v \in Var : IsRoot(parent[w], v)
    BY DEF Init, IsRoot
  <2>2. \A v \in Var : v \in Reached(parent[w], v)
    BY ReachedSelf
  <2>3. Rooted(parent[w])
    BY <2>1, <2>2 DEF Rooted
  <2>4. QED
    BY <2>1, <2>2, <2>3, RootIsTheRoot
<1>3. PartitionIsWhatWasEquated
    BY <1>2 DEF Init, PartitionIsWhatWasEquated
<1>4. RankGrows
    BY DEF Init, RankGrows
<1>5. QED
    BY <1>1, <1>3, <1>4 DEF Invariant

(* An equation relates what was equal to its two sides.                    *)
LEMMA EquatedPairs ==
    ASSUME NEW pairs, NEW x, NEW y, NEW u \in Var, NEW v \in Var
    PROVE  <<u, v>> \in Equated(pairs, x, y) <=>
              \/ <<u, v>> \in pairs
              \/ <<u, x>> \in pairs /\ <<y, v>> \in pairs
              \/ <<u, y>> \in pairs /\ <<x, v>> \in pairs
<1>1. <<u, v>> \in Var \X Var /\ <<u, v>>[1] = u /\ <<u, v>>[2] = v
    OBVIOUS
<1>2. QED
    BY <1>1 DEF Equated

(* Only the winner of a tie gains rank.                                    *)
LEMMA RankedGrows ==
    ASSUME NEW ranks \in [Var -> Nat], NEW k \in Var, NEW l \in Var, k # l,
           ranks[l] <= ranks[k]
    PROVE  /\ Ranked(ranks, k, l) \in [Var -> Nat]
           /\ ranks[l] < Ranked(ranks, k, l)[k]
           /\ ranks[k] <= Ranked(ranks, k, l)[k]
           /\ \A v \in Var : v # k => Ranked(ranks, k, l)[v] = ranks[v]
<1>1. ranks[k] \in Nat /\ ranks[l] \in Nat
    OBVIOUS
<1>2. CASE ranks[k] = ranks[l]
    BY <1>1, <1>2 DEF Ranked
<1>3. CASE ranks[k] # ranks[l]
    BY <1>1, <1>3 DEF Ranked
<1>4. QED
    BY <1>2, <1>3

(* A world where the variables differed gets one link, the others none.    *)
LEMMA UnionInWorld ==
    ASSUME Invariant, NEW x \in Var, NEW y \in Var, NEW scope \in SUBSET World,
           Union(x, y, scope), NEW w \in World
    PROVE  LET l == Root(parent[w], x)
               r == Root(parent[w], y)
           IN /\ w \in scope /\ l # r =>
                    /\ parent'[w] = Linked(parent[w], WinnerOf(w, l, r), LoserOf(w, l, r))
                    /\ rank'[w] = Ranked(rank[w], WinnerOf(w, l, r), LoserOf(w, l, r))
              /\ ~(w \in scope /\ l # r) =>
                    parent'[w] = parent[w] /\ rank'[w] = rank[w]
              /\ same'[w] = IF w \in scope THEN Equated(same[w], x, y) ELSE same[w]
              /\ parent[w] \in [Var -> Var] /\ rank[w] \in [Var -> Nat]
              /\ Rooted(parent[w])
              /\ l \in Var /\ r \in Var
              /\ IsRoot(parent[w], l) /\ IsRoot(parent[w], r)
<1> DEFINE l == Root(parent[w], x)
           r == Root(parent[w], y)
<1>1. parent[w] \in [Var -> Var] /\ rank[w] \in [Var -> Nat] /\ Rooted(parent[w])
    BY DEF Invariant, TypeOK, PartitionIsWhatWasEquated
<1>2. l \in Var /\ r \in Var /\ IsRoot(parent[w], l) /\ IsRoot(parent[w], r)
    BY <1>1, RootIsTheRoot
<1>3. same'[w] = IF w \in scope THEN Equated(same[w], x, y) ELSE same[w]
    BY DEF Union
<1>4. CASE w \in scope /\ l # r
    BY <1>1, <1>2, <1>3, <1>4 DEF Union, WinnerOf, LoserOf
<1>5. CASE ~(w \in scope /\ l # r)
    BY <1>1, <1>2, <1>3, <1>5 DEF Union
<1>6. QED
    BY <1>4, <1>5

(* The link joins exactly the two classes.                                 *)
LEMMA UnionJoins ==
    ASSUME Invariant, NEW x \in Var, NEW y \in Var, NEW scope \in SUBSET World,
           Union(x, y, scope), NEW w \in World
    PROVE  /\ parent'[w] \in [Var -> Var]
           /\ Rooted(parent'[w])
           /\ \A u, v \in Var :
                 <<u, v>> \in same'[w] <=> Root(parent'[w], u) = Root(parent'[w], v)
<1> DEFINE l == Root(parent[w], x)
           r == Root(parent[w], y)
           winner == WinnerOf(w, l, r)
           loser == LoserOf(w, l, r)
<1>1. /\ w \in scope /\ l # r => parent'[w] = Linked(parent[w], winner, loser)
      /\ ~(w \in scope /\ l # r) => parent'[w] = parent[w]
      /\ same'[w] = IF w \in scope THEN Equated(same[w], x, y) ELSE same[w]
      /\ parent[w] \in [Var -> Var] /\ Rooted(parent[w])
      /\ l \in Var /\ r \in Var
      /\ IsRoot(parent[w], l) /\ IsRoot(parent[w], r)
    BY UnionInWorld
<1>2. \A u, v \in Var : <<u, v>> \in same[w] <=> Root(parent[w], u) = Root(parent[w], v)
    BY DEF Invariant, PartitionIsWhatWasEquated
<1>3. CASE w \in scope /\ l # r
  <2>1. /\ winner \in Var /\ loser \in Var /\ winner # loser
        /\ {winner, loser} = {l, r}
        /\ IsRoot(parent[w], winner) /\ IsRoot(parent[w], loser)
    BY <1>1, <1>3 DEF WinnerOf, LoserOf
  <2>2. /\ parent'[w] \in [Var -> Var]
        /\ Rooted(parent'[w])
        /\ \A v \in Var : Root(parent'[w], v) =
              IF Root(parent[w], v) = loser THEN winner ELSE Root(parent[w], v)
    BY <1>1, <1>3, <2>1, LinkMovesClass
  <2>3. ASSUME NEW u \in Var, NEW v \in Var
        PROVE  <<u, v>> \in same'[w] <=> Root(parent'[w], u) = Root(parent'[w], v)
    <3>1. <<u, v>> \in same'[w] <=>
             \/ Root(parent[w], u) = Root(parent[w], v)
             \/ Root(parent[w], u) = l /\ Root(parent[w], v) = r
             \/ Root(parent[w], u) = r /\ Root(parent[w], v) = l
      <4>1. <<u, v>> \in same'[w] <=>
               \/ <<u, v>> \in same[w]
               \/ <<u, x>> \in same[w] /\ <<y, v>> \in same[w]
               \/ <<u, y>> \in same[w] /\ <<x, v>> \in same[w]
        BY <1>1, <1>3, EquatedPairs
      <4>2. QED
        BY <1>2, <4>1
    <3>2. QED
      BY <2>1, <2>2, <3>1
  <2>4. QED
    BY <2>2, <2>3
<1>4. CASE ~(w \in scope /\ l # r)
  <2>1. ASSUME NEW u \in Var, NEW v \in Var, w \in scope, l = r
        PROVE  <<u, v>> \in same'[w] <=> <<u, v>> \in same[w]
    <3>1. <<u, v>> \in same'[w] <=>
             \/ <<u, v>> \in same[w]
             \/ <<u, x>> \in same[w] /\ <<y, v>> \in same[w]
             \/ <<u, y>> \in same[w] /\ <<x, v>> \in same[w]
      BY <1>1, <2>1, EquatedPairs
    <3>2. QED
      BY <1>2, <2>1, <3>1
  <2>2. QED
    BY <1>1, <1>2, <1>4, <2>1
<1>5. QED
    BY <1>3, <1>4

(* The loser gets a parent of higher rank, and only a root gains rank.     *)
LEMMA UnionKeepsRanks ==
    ASSUME Invariant, NEW x \in Var, NEW y \in Var, NEW scope \in SUBSET World,
           Union(x, y, scope), NEW w \in World
    PROVE  /\ rank'[w] \in [Var -> Nat]
           /\ \A v \in Var : parent'[w][v] # v => rank'[w][v] < rank'[w][parent'[w][v]]
<1> USE VariablesAreNumbers
<1> DEFINE l == Root(parent[w], x)
           r == Root(parent[w], y)
           winner == WinnerOf(w, l, r)
           loser == LoserOf(w, l, r)
<1>1. /\ w \in scope /\ l # r =>
            /\ parent'[w] = Linked(parent[w], winner, loser)
            /\ rank'[w] = Ranked(rank[w], winner, loser)
      /\ ~(w \in scope /\ l # r) => parent'[w] = parent[w] /\ rank'[w] = rank[w]
      /\ parent[w] \in [Var -> Var] /\ rank[w] \in [Var -> Nat]
      /\ l \in Var /\ r \in Var
      /\ IsRoot(parent[w], l) /\ IsRoot(parent[w], r)
    BY UnionInWorld
<1>2. \A v \in Var : parent[w][v] # v => rank[w][v] < rank[w][parent[w][v]]
    BY DEF Invariant, RankGrows
<1>3. CASE w \in scope /\ l # r
  <2>1. /\ winner \in Var /\ loser \in Var /\ winner # loser
        /\ parent[w][winner] = winner
        /\ rank[w][loser] <= rank[w][winner]
    BY <1>1, <1>3 DEF WinnerOf, LoserOf, Wins, IsRoot
  <2>2. /\ rank'[w] \in [Var -> Nat]
        /\ rank[w][loser] < rank'[w][winner]
        /\ rank[w][winner] <= rank'[w][winner]
        /\ \A v \in Var : v # winner => rank'[w][v] = rank[w][v]
    <3>1. rank'[w] = Ranked(rank[w], winner, loser) /\ rank[w] \in [Var -> Nat]
      BY <1>1, <1>3
    <3>2. /\ Ranked(rank[w], winner, loser) \in [Var -> Nat]
          /\ rank[w][loser] < Ranked(rank[w], winner, loser)[winner]
          /\ rank[w][winner] <= Ranked(rank[w], winner, loser)[winner]
          /\ \A v \in Var : v # winner =>
                Ranked(rank[w], winner, loser)[v] = rank[w][v]
      <4> HIDE DEF winner, loser
      <4>1. QED
        BY <2>1, <3>1, RankedGrows
    <3>3. QED
      BY <3>1, <3>2
  <2>3. /\ parent'[w][loser] = winner
        /\ \A v \in Var : v # loser => parent'[w][v] = parent[w][v]
    BY <1>1, <1>3, <2>1 DEF Linked
  <2>4. ASSUME NEW v \in Var, parent'[w][v] # v
        PROVE  rank'[w][v] < rank'[w][parent'[w][v]]
    <3>1. CASE v = loser
      BY <2>1, <2>2, <2>3, <3>1
    <3>2. CASE v # loser
      <4>1. v # winner /\ parent[w][v] \in Var /\ parent'[w][v] = parent[w][v]
        BY <1>1, <2>1, <2>3, <2>4, <3>2
      <4>2. rank'[w][v] = rank[w][v] /\ rank[w][v] < rank[w][parent[w][v]]
        BY <1>2, <2>2, <2>4, <4>1
      <4>3. rank[w][parent[w][v]] <= rank'[w][parent[w][v]]
        <5> HIDE DEF winner
        <5>1. CASE parent[w][v] = winner
          BY <2>2, <5>1
        <5>2. CASE parent[w][v] # winner
          <6>1. rank'[w][parent[w][v]] = rank[w][parent[w][v]]
            BY <2>2, <4>1, <5>2
          <6>2. rank[w][parent[w][v]] \in Nat
            BY <1>1, <4>1
          <6>3. QED
            BY <6>1, <6>2
        <5>3. QED
          BY <5>1, <5>2
      <4>4. rank[w][v] \in Nat /\ rank[w][parent[w][v]] \in Nat
            /\ rank'[w][parent[w][v]] \in Nat
        BY <1>1, <2>2, <4>1
      <4>5. QED
        BY <4>1, <4>2, <4>3, <4>4
    <3>3. QED
      BY <3>1, <3>2
  <2>5. QED
    BY <2>2, <2>4
<1>4. CASE ~(w \in scope /\ l # r)
    BY <1>1, <1>2, <1>4
<1>5. QED
    BY <1>3, <1>4

(* A union keeps it.                                                       *)
LEMMA UnionInvariant ==
    ASSUME Invariant, NEW x \in Var, NEW y \in Var, NEW scope \in SUBSET World,
           Union(x, y, scope)
    PROVE  Invariant'
<1>1. TypeOK'
  <2>1. \A w \in World : parent'[w] \in [Var -> Var] /\ rank'[w] \in [Var -> Nat]
    BY UnionJoins, UnionKeepsRanks
  <2>2. \A w \in World : same'[w] \in SUBSET (Var \X Var)
    BY DEF Union, Equated, Invariant, TypeOK
  <2>3. QED
    BY <2>1, <2>2 DEF Union, TypeOK
<1>2. PartitionIsWhatWasEquated'
    BY UnionJoins DEF PartitionIsWhatWasEquated
<1>3. RankGrows'
    BY UnionKeepsRanks DEF RankGrows
<1>4. QED
    BY <1>1, <1>2, <1>3 DEF Invariant

(* The invariant holds in every behaviour.                                 *)
THEOREM InvariantHolds == Spec => []Invariant
<1>1. Invariant /\ [Next]_vars => Invariant'
  <2> SUFFICES ASSUME Invariant, [Next]_vars PROVE Invariant'
      OBVIOUS
  <2>1. CASE Next
    BY <2>1, UnionInvariant DEF Next
  <2>2. CASE UNCHANGED vars
    BY <2>2 DEF vars, Invariant, TypeOK, PartitionIsWhatWasEquated, RankGrows
  <2>3. QED
    BY <2>1, <2>2
<1>2. QED
    BY <1>1, InitInvariant, PTL DEF Spec

(* What the representatives say is what was equated.                       *)
THEOREM RepresentativesAreRight == Spec => []PartitionIsWhatWasEquated
BY InvariantHolds, PTL DEF Invariant

(* Union by rank keeps the ranks growing towards the representatives.      *)
THEOREM RanksGrow == Spec => []RankGrows
BY InvariantHolds, PTL DEF Invariant
=============================================================================
