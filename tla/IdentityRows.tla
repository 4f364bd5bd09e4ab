---------------------------- MODULE IdentityRows ----------------------------
(***************************************************************************)
(* The rows in which a graph root keeps the forests of all worlds, and     *)
(* what src/identity.rs reads from them.                                   *)
(*                                                                         *)
(* Row PARENT[v][p] holds the worlds where p is the parent of v,           *)
(* CHILD[p][v] is its reverse, and RANK[v][k] holds the worlds where v has *)
(* rank k > 0.  An empty condition is an absent row.                       *)
(***************************************************************************)
EXTENDS Forest, Naturals, Sequences

CONSTANTS
    World,      \* the worlds
    MaxRank     \* bound: ranks that have rows

Condition == SUBSET World
Rank == 1 .. MaxRank

Rows == [PARENT : [Var -> [Var -> Condition]],
         CHILD  : [Var -> [Var -> Condition]],
         RANK   : [Var -> [Rank -> Condition]]]

NoRows ==
    LET none == [u \in Var |-> {}]
    IN [PARENT |-> [v \in Var |-> none], CHILD |-> [v \in Var |-> none],
        RANK |-> [v \in Var |-> [k \in Rank |-> {}]]]

-----------------------------------------------------------------------------
(* Reading rows.                                                           *)

(* The forest of one world.                                                *)
ParentIn(root, w) ==
    [v \in Var |-> IF \E p \in Var : w \in root.PARENT[v][p]
                   THEN CHOOSE p \in Var : w \in root.PARENT[v][p]
                   ELSE v]

RankIn(root, w) ==
    [v \in Var |-> IF \E k \in Rank : w \in root.RANK[v][k]
                   THEN CHOOSE k \in Rank : w \in root.RANK[v][k]
                   ELSE 0]

(* Resolved: the representatives of v in the worlds of the scope, each     *)
(* with its worlds.  Members.tla has the walk that finds them.             *)
Resolved(root, v, scope) ==
    LET representative(w) == Root(ParentIn(root, w), v)
    IN [r \in {representative(w) : w \in scope} |->
          {w \in scope : representative(w) = r}]

(* Partition over the rank rows of v, for the worlds `rest': in the order  *)
(* of their keys each row takes its part of what the rows before it left,  *)
(* and rank 0 the rest.  Rows that take nothing emit nothing.              *)
NextRank(root, v, rest) ==
    LET hits == {k \in Rank : rest \cap root.RANK[v][k] # {}}
    IN IF hits = {} THEN 0 ELSE CHOOSE k \in hits : \A j \in hits : k <= j

RankHit(root, v, rest, rank) ==
    IF rank = 0 THEN rest ELSE rest \cap root.RANK[v][rank]
=============================================================================
