------------------------------ MODULE UnionFind ------------------------------
(***************************************************************************)
(* What src/identity.rs promises: in every world a partition of the        *)
(* variables, kept as a forest by union by rank.  A union takes effect at  *)
(* once in all worlds of its scope where the two variables still differ.   *)
(* Identity.tla has the rows and the staged edits of the code and          *)
(* implements this module.                                                 *)
(***************************************************************************)
EXTENDS Forest

CONSTANT World  \* the worlds

VARIABLES
    parent,     \* per world and variable
    rank,       \* per world and variable: bounds the height of its tree
    same        \* history: per world, the pairs equated so far

vars == <<parent, rank, same>>

Init ==
    /\ parent = [w \in World |-> [v \in Var |-> v]]
    /\ rank = [w \in World |-> [v \in Var |-> 0]]
    /\ same = [w \in World |-> {p \in Var \X Var : p[1] = p[2]}]

(* The equations of a world after x = y, closed under equality.            *)
Equated(pairs, x, y) ==
    pairs \cup {p \in Var \X Var :
                  \/ <<p[1], x>> \in pairs /\ <<y, p[2]>> \in pairs
                  \/ <<p[1], y>> \in pairs /\ <<x, p[2]>> \in pairs}

(* The representative with the higher rank, or the smaller one on a tie.   *)
Wins(ranks, l, r) == ranks[l] > ranks[r] \/ (ranks[l] = ranks[r] /\ l < r)

(* A winner of equal rank grows.                                           *)
Ranked(ranks, winner, loser) ==
    [ranks EXCEPT ![winner] = IF ranks[winner] = ranks[loser] THEN @ + 1 ELSE @]

Union(x, y, scope) ==
    LET l(w) == Root(parent[w], x)
        r(w) == Root(parent[w], y)
        winner(w) == IF Wins(rank[w], l(w), r(w)) THEN l(w) ELSE r(w)
        loser(w) == IF Wins(rank[w], l(w), r(w)) THEN r(w) ELSE l(w)
        changed == {w \in scope : l(w) # r(w)}
    IN /\ parent' = [w \in World |-> IF w \in changed
                                     THEN Linked(parent[w], winner(w), loser(w))
                                     ELSE parent[w]]
       /\ rank' = [w \in World |-> IF w \in changed
                                   THEN Ranked(rank[w], winner(w), loser(w))
                                   ELSE rank[w]]
       /\ same' = [w \in World |-> IF w \in scope THEN Equated(same[w], x, y)
                                   ELSE same[w]]

Next == \E x, y \in Var, scope \in SUBSET World : Union(x, y, scope)

Spec == Init /\ [][Next]_vars

-----------------------------------------------------------------------------

TypeOK ==
    /\ parent \in [World -> [Var -> Var]]
    /\ rank \in [World -> [Var -> Nat]]
    /\ same \in [World -> SUBSET (Var \X Var)]

(* Every walk to a representative ends, in every world, and it ends at the *)
(* same one for two variables exactly if they were equated there, directly *)
(* or by way of others: what Equal and Resolve report is what was merged.  *)
PartitionIsWhatWasEquated ==
    \A w \in World :
        /\ Rooted(parent[w])
        /\ \A u, v \in Var :
              <<u, v>> \in same[w] <=> Root(parent[w], u) = Root(parent[w], v)

(* Ranks grow towards the representative, so they bound the height of the  *)
(* projected trees ("Union by rank bounds projected forest depth").        *)
RankGrows ==
    \A w \in World, v \in Var :
        parent[w][v] # v => rank[w][v] < rank[w][parent[w][v]]
=============================================================================
