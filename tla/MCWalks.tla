-------------------------------- MODULE MCWalks --------------------------------
(* What the walks are run on.                                              *)
EXTENDS Walks

CONSTANTS w1, w2

-----------------------------------------------------------------------------
(* Jobs for Members: roots that merges of the variables can lead to.  One  *)
(* world has the deepest forests, or the two trees whose merge gives one,  *)
(* the other world any forest.                                             *)

(* The forests of one world that unions by rank lead to.                   *)
Alone == [parent |-> [v \in Var |-> v], rank |-> [v \in Var |-> 0]]

Union(f, x, y) ==
    LET l == Root(f.parent, x)
        r == Root(f.parent, y)
        leftWins == f.rank[l] > f.rank[r] \/ (f.rank[l] = f.rank[r] /\ l < r)
        winner == IF leftWins THEN l ELSE r
        loser == IF leftWins THEN r ELSE l
    IN IF l = r THEN f
       ELSE [parent |-> Linked(f.parent, winner, loser),
             rank |-> IF f.rank[l] = f.rank[r] THEN [f.rank EXCEPT ![winner] = @ + 1]
                      ELSE f.rank]

RECURSIVE ForestsAfter(_)
ForestsAfter(n) ==
    IF n = 0 THEN {Alone}
    ELSE LET before == ForestsAfter(n - 1)
         IN before \cup {Union(f, x, y) : f \in before, x \in Var, y \in Var}

Forests == ForestsAfter(Cardinality(Var) - 1)

RowsOf(fs) ==
    [PARENT |-> [v \in Var |-> [p \in Var |-> {w \in World : p # v /\ fs[w].parent[v] = p}]],
     CHILD  |-> [p \in Var |-> [v \in Var |-> {w \in World : p # v /\ fs[w].parent[v] = p}]],
     RANK   |-> [v \in Var |-> [k \in Rank |-> {w \in World : fs[w].rank[v] = k}]]]

Deep == {f \in Forests : \E v \in Var : f.rank[v] = 2}
Twin == {f \in Forests : \E u, v \in Var : /\ u # v
                                            /\ f.parent[u] = u /\ f.rank[u] = 1
                                            /\ f.parent[v] = v /\ f.rank[v] = 1}
Of(first) == {fs \in [World -> Forests] : fs[w1] \in first}

AllPorts == <<{1, 2}, {3}, {2, 4}>>
AllLive == {<<World, World, {w}>> : w \in World}

Reads ==
    {[kind |-> "Members", root |-> RowsOf(fs), live |-> <<World, World, World>>,
      var |-> v, scope |-> scope] :
        fs \in Of(Deep), v \in Var, scope \in (SUBSET World) \ {{}}}

(* The delta of a merge of x and y in all worlds.                          *)
WakeOf(fs, x, y, lives) ==
    LET before == [w \in World |-> [v \in Var |-> Root(fs[w].parent, v)]]
        after == (w1 :> Union(fs[w1], x, y)) @@ (w2 :> Union(fs[w2], x, y))
        changed == {w \in World : before[w][x] # before[w][y]}
        loser(w) == IF after[w].parent[before[w][x]] = before[w][x] THEN before[w][y]
                    ELSE before[w][x]
        link(w) == <<loser(w), after[w].parent[loser(w)]>>
        seeds == {Fragment(loser(w), {u \in changed : link(u) = link(w)}) : w \in changed}
    IN [kind |-> "Wake", root |-> RowsOf(after), live |-> lives, before |-> before,
        seeds |-> SetToSeq(seeds)]

Wakes ==
    {j \in {WakeOf(fs, x, y, lives) :
              fs \in Of(Twin), x \in {1, 2, 3}, y \in {2, 3, 4}, lives \in AllLive} :
        j.seeds # <<>>}

Jobs == Reads \cup Wakes

-----------------------------------------------------------------------------
(* Goals: e(X, Y), e(Y, Z), a(X) and e(X, Y), e(Y, X), over facts with a   *)
(* loop, and variables that are equal nowhere, in one world, or            *)
(* differently in the two; from no occurrence or from a changed one.       *)

Fact(rel, args, lives) == [rel |-> rel, args |-> args, live |-> lives]
Atom(rel, args) == [rel |-> rel, args |-> args]

JoinFacts == <<Fact("e", <<1, 2>>, World), Fact("e", <<2, 1>>, {w1}),
               Fact("e", <<3, 3>>, World), Fact("a", <<2>>, World)>>

Apart == <<1, 2, 3>>
RepsOf(first, second) == (w1 :> first) @@ (w2 :> second)
Reps == {RepsOf(Apart, Apart), RepsOf(<<1, 1, 3>>, Apart), RepsOf(<<1, 2, 2>>, <<1, 1, 3>>)}

Path == <<Atom("e", <<1, 2>>), Atom("e", <<2, 3>>), Atom("a", <<1>>)>>
Loop == <<Atom("e", <<1, 2>>), Atom("e", <<2, 1>>)>>

Goals ==
    {[rep |-> rep, facts |-> JoinFacts, tuples |-> {"e"}, heads |-> heads, anchor |-> anchor,
      scope |-> scope] :
       rep \in Reps, heads \in {Path, Loop}, anchor \in {<<>>, <<1, 1>>, <<2, 2>>},
       scope \in {World, {w2}}}

-----------------------------------------------------------------------------
(* Views: three choices, of which the second is born in the right arm of   *)
(* the first, the third in its left arm or in the right arm of the second. *)

Worlds == 1 .. 8
Arm(i) == {w \in Worlds : ((w - 1) \div 2 ^ (i - 1)) % 2 = 1}
Born(i, support) == [support |-> support, decision |-> Arm(i)]
Occurs(args, lives) == [args |-> args, live |-> lives]

Views ==
    {[rep |-> [w \in Worlds |-> IF w \in Arm(1) THEN <<1, 1>>
                                ELSE IF w \in Arm(2) THEN <<2, 2>> ELSE <<1, 2>>],
      births |-> <<Born(1, Worlds), Born(2, Worlds \ Arm(1)), Born(3, third)>>,
      facts |-> <<Occurs(<<1>>, Worlds), Occurs(<<1, 2>>, Arm(1)), Occurs(<<2>>, Arm(2) \ Arm(1)),
                  Occurs(<<2>>, third \cap Arm(3))>>,
      variables |-> <<1, 2>>, scope |-> scope] :
       third \in {Arm(1), Worlds \ (Arm(1) \cup Arm(2))},
       scope \in {Worlds, Arm(1), Worlds \ Arm(1)}}

-----------------------------------------------------------------------------
(* Queries: a bucket of one chunk, one of two, and the next root's, which  *)
(* shares a chunk with it.                                                 *)

Pair(occ, a, b) == [occ |-> occ, args |-> <<a, b>>]
Small == <<Pair(1, 1, 1), Pair(2, 1, 2)>>
Large == Append(Small, Pair(3, 1, 1))
Newer == Append(Small, Pair(4, 1, 2))
Restriction(bucket, value) == [bucket |-> bucket, mask |-> {2}, values |-> (2 :> value)]

Queries == {Restriction(Small, 1), Restriction(Large, 1), Restriction(Newer, 2)}

-----------------------------------------------------------------------------
(* Prunes: two occurrences with three of the variables, references from    *)
(* outside to none, one or more of them, and merges in all or one world.   *)

Args == <<<<1>>, <<2, 3>>>>
Heads == {<<1>>, <<1, 2>>}
Outside(v, cond) == [var |-> v, cond |-> cond]
Seeds == {<<>>, <<Outside(1, World)>>, <<Outside(3, {w1}), Outside(1, {w2})>>}
MergeIn(child, parent, conds) == {[child |-> child, parent |-> parent, cond |-> c] : c \in conds}
Merges == MergeIn(1, 2, {World}) \cup MergeIn(2, 3, {World, {w2}})
=============================================================================
