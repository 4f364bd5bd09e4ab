-------------------------------- MODULE Forest --------------------------------
(***************************************************************************)
(* Forests of variables, as src/identity.rs keeps one in every world:      *)
(* parent[v] is v for a representative, and another variable of the same   *)
(* class otherwise.                                                        *)
(*                                                                         *)
(* Resolve follows parents to the representative.  What a walk of any      *)
(* length reaches is defined here without counting its steps: the          *)
(* variables in every set that holds the start and is closed under parent. *)
(***************************************************************************)
EXTENDS Naturals

CONSTANT Var    \* the variables

(* Identities are numbers; a tie of ranks goes to the smaller one.         *)
ASSUME VariablesAreNumbers == Var \subseteq Nat

IsRoot(parent, v) == parent[v] = v

Closed(parent, set) == \A u \in set : parent[u] \in set

Reached(parent, v) ==
    {r \in Var : \A set \in SUBSET Var : v \in set /\ Closed(parent, set) => r \in set}

(* The representative of v: where Resolve stops.                           *)
Root(parent, v) == CHOOSE r \in Reached(parent, v) : IsRoot(parent, r)

(* Every walk ends.                                                        *)
Rooted(parent) == \A v \in Var : \E r \in Reached(parent, v) : IsRoot(parent, r)

Class(parent, r) == {v \in Var : Root(parent, v) = r}

(* One representative hangs another one below itself.                      *)
Linked(parent, winner, loser) == [parent EXCEPT ![loser] = winner]
=============================================================================
