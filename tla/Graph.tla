-------------------------------- MODULE Graph --------------------------------
(***************************************************************************)
(* The shared state of all alternatives, as src/graph.rs, src/identity.rs, *)
(* src/matching.rs and src/wake.rs present it to the engine: occurrences   *)
(* of facts with the worlds they live in, and in each world a partition of *)
(* the variables.                                                          *)
(*                                                                         *)
(* A graph is a record with                                                *)
(*    facts   a sequence of occurrences: rel, args, live (a set of worlds) *)
(*    rep     the representative of each variable in each world            *)
(* Roots are persistent in the code; here a graph is a value, so holding   *)
(* one pins it.                                                            *)
(***************************************************************************)
EXTENDS Program

CONSTANTS
    World,      \* the worlds: assignments of truth values to the choices
    MaxVar      \* bound: variables a run may allocate

Var == 1 .. MaxVar
Occurrence(g) == DOMAIN g.facts

EmptyGraph == [facts |-> <<>>, rep |-> [w \in World |-> [v \in Var |-> v]]]

Same(g, u, v, w) == g.rep[w][u] = g.rep[w][v]

(* Graph::post: a new occurrence, identified by its place.                 *)
Posted(g, rel, args, support) ==
    [g EXCEPT !.facts = Append(@, [rel |-> rel, args |-> args, live |-> support])]

(* Graph::set_liveness.                                                    *)
WithLiveness(g, o, support) == [g EXCEPT !.facts[o].live = support]

(* identity::Merge.  changed: the worlds of the scope where x and y differ *)
(* until now.  loser says which of the two classes is hung below the other *)
(* there: the code compares ranks per world, here any choice may be made.  *)
Changed(g, x, y, scope) == {w \in scope : ~Same(g, x, y, w)}

Merged(g, x, y, loser) ==
    [g EXCEPT !.rep = [w \in World |->
        IF w \notin DOMAIN loser THEN g.rep[w]
        ELSE LET l == g.rep[w][loser[w]]
                 k == g.rep[w][IF loser[w] = x THEN y ELSE x]
             IN [v \in Var |-> IF g.rep[w][v] = l THEN k ELSE g.rep[w][v]]]]

(* Wake: the occurrences with a port in the class that lost its root, each *)
(* with the worlds where that happened.  The code walks the class variable *)
(* by variable and reports an occurrence once per world, in one or several *)
(* parts; here it is one part.                                             *)
Woken(g, loser) ==
    LET moved(o) == {w \in DOMAIN loser :
                        /\ w \in g.facts[o].live
                        /\ \E p \in DOMAIN g.facts[o].args :
                              Same(g, g.facts[o].args[p], loser[w], w)}
    IN {[occ |-> o, cond |-> moved(o)] : o \in {q \in Occurrence(g) : moved(q) # {}}}

(* The worlds where occurrence o fits head h of rule r under the bindings. *)
FitsHead(g, r, h, o, vars) ==
    {w \in g.facts[o].live :
        \A p \in DOMAIN g.facts[o].args :
            Same(g, g.facts[o].args[p], vars[Heads(r)[h].args[p]], w)}

(* The bindings of a match: a slot is bound by the first port that is read *)
(* with it, those of the anchored head before the others.                  *)
Bindings(g, r, anchor, occs) ==
    LET before(q, z) == \/ q[1] = z[1] /\ q[2] <= z[2]
                        \/ q[1] # z[1] /\ (q[1] = anchor \/ (z[1] # anchor /\ q[1] < z[1]))
        first(s) == CHOOSE q \in Ports(r, s) : \A z \in Ports(r, s) : before(q, z)
    IN [s \in 1 .. Rules[r].bound |-> g.facts[occs[first(s)[1]]].args[first(s)[2]]]

Distinct(occs) == \A i, j \in DOMAIN occs : occs[i] = occs[j] => i = j

(* Matches: every tuple of distinct occurrences that fits rule r with      *)
(* occurrence o as its head h, with the worlds of the scope it fits in.    *)
Matches(g, r, h, o, scope) ==
    LET tuples == {q \in [DOMAIN Heads(r) -> Occurrence(g)] :
                      /\ q[h] = o
                      /\ Distinct(q)
                      /\ \A k \in DOMAIN q : g.facts[q[k]].rel = Heads(r)[k].rel}
        match(q) ==
            LET vars == Bindings(g, r, h, q)
            IN [occs |-> q, vars |-> vars,
                cond |-> {w \in scope :
                            \A k \in DOMAIN q : w \in FitsHead(g, r, k, q[k], vars)}]
    IN {m \in {match(q) : q \in tuples} : m.cond # {}}

(* Discovery: a direct anchor is found at once, in the reader's scope.     *)
Discovered(g, r, h, o, scope) ==
    IF DirectAnchor(r)
    THEN {[occs |-> <<o>>, vars |-> g.facts[o].args, cond |-> scope]}
    ELSE Matches(g, r, h, o, scope)
=============================================================================
