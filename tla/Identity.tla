------------------------------- MODULE Identity -------------------------------
(***************************************************************************)
(* Merging two variables, by src/identity.rs: Merge::tick.                 *)
(*                                                                         *)
(* The two variables may have different representatives in different       *)
(* worlds, and those different ranks, so a merge is a sequence of links in *)
(* disjoint conditions, and a link is a sequence of edits of single rows.  *)
(* Edits go to a staged root; ranks are read from the root the merge was   *)
(* started on.  That root stays the current one until the merge is done,   *)
(* because its body owns the mutation lane.                                *)
(*                                                                         *)
(* Identity implements UnionFind: the staged root replaces the current one *)
(* in one step.                                                            *)
(***************************************************************************)
EXTENDS IdentityRows, FiniteSets

CONSTANT None   \* no merge is running

(* Identities and ranks are numbers of the same width, so the ranks do not *)
(* run out before the variables do.                                        *)
ASSUME RanksSuffice ==
    /\ IsFiniteSet(Var)
    /\ MaxRank \in Nat
    /\ Cardinality(Var) <= MaxRank + 1

VARIABLES
    rows,       \* the current root
    merge,      \* the running Merge, or None
    same        \* history: per world, the pairs equated so far

vars == <<rows, merge, same>>

(* What the rows mean, world by world.                                     *)
Forests == INSTANCE UnionFind WITH
    parent <- [w \in World |-> ParentIn(rows, w)],
    rank <- [w \in World |-> RankIn(rows, w)]

Init ==
    /\ rows = NoRows
    /\ merge = None
    /\ same = [w \in World |-> {p \in Var \X Var : p[1] = p[2]}]

-----------------------------------------------------------------------------
(* Merge::tick, one action per phase.  A Boolean job of the code is part   *)
(* of the action that uses its result: its operands are private.           *)

m == merge
In(phase) == m # None /\ m.phase = phase

Nowhere == [r \in {} |-> {}]

(* Merge::new.  scope is the condition of an equation's body.              *)
Start(x, y, scope) ==
    /\ merge = None
    /\ merge' = [phase |-> IF x = y THEN "Done" ELSE "Left", x |-> x, y |-> y,
                 scope |-> scope, staged |-> rows, left |-> Nowhere, right |-> Nowhere,
                 pairs |-> {}, pair |-> <<>>, lefts |-> {}, rights |-> {}, rank |-> 0,
                 link |-> None, edits |-> {}, changed |-> {}, delta |-> <<>>]
    /\ UNCHANGED <<rows, same>>

Left ==
    /\ In("Left")
    /\ merge' = [m EXCEPT !.phase = "Right", !.left = Resolved(rows, m.x, m.scope)]
    /\ UNCHANGED <<rows, same>>

Right ==
    /\ In("Right")
    /\ LET right == Resolved(rows, m.y, m.scope)
       IN merge' = [m EXCEPT !.phase = "Pair", !.right = right,
                             !.pairs = (DOMAIN m.left) \X (DOMAIN right)]
    /\ UNCHANGED <<rows, same>>

(* next_pair: the pairs of representatives in the order of their keys.     *)
FirstPair ==
    CHOOSE p \in m.pairs : \A q \in m.pairs : p[1] < q[1] \/ (p[1] = q[1] /\ p[2] <= q[2])

Pair ==
    /\ In("Pair")
    /\ merge' = IF m.pairs = {} THEN [m EXCEPT !.phase = "Done"]
                ELSE [m EXCEPT !.pairs = @ \ {FirstPair}, !.pair = FirstPair,
                               !.phase = IF FirstPair[1] = FirstPair[2]
                                         THEN "Pair" ELSE "Support"]
    /\ UNCHANGED <<rows, same>>

(* Fault: the pair counts wherever its left side is a representative.      *)
SupportOfLeft == m.left[m.pair[1]]

(* The worlds where just these two represent the variables.                *)
Support == m.left[m.pair[1]] \cap m.right[m.pair[2]]

PairSupport ==
    /\ In("Support")
    /\ merge' = IF Support = {} THEN [m EXCEPT !.phase = "Pair"]
                ELSE [m EXCEPT !.phase = "LeftRank", !.lefts = Support]
    /\ UNCHANGED <<rows, same>>

(* The next part of the pair's worlds, by the rank of the left variable.   *)
LeftRank ==
    /\ In("LeftRank")
    /\ LET rank == NextRank(rows, m.pair[1], m.lefts)
           hit == RankHit(rows, m.pair[1], m.lefts, rank)
       IN merge' = IF m.lefts = {} THEN [m EXCEPT !.phase = "Pair"]
                   ELSE [m EXCEPT !.phase = "RightRank", !.rank = rank,
                                  !.lefts = @ \ hit, !.rights = hit]
    /\ UNCHANGED <<rows, same>>

(* Fault: the seed of the wake is the winner.                              *)
SeedWinner(winner, loser, cond) == [var |-> winner, cond |-> cond]

Seed(winner, loser, cond) == [var |-> loser, cond |-> cond]

(* The edits of a link.  The winner of a tie grows: its old rank goes, if  *)
(* that had a row, and the new one comes.                                  *)
EditsOf(lrank, rrank) ==
    {"parent", "child", "changed"}
       \cup (IF lrank = rrank THEN {"grow"} ELSE {})
       \cup (IF lrank = rrank /\ lrank # 0 THEN {"shed"} ELSE {})

(* They are queued, and so taken, in this order.                           *)
Turn == [parent |-> 1, child |-> 2, shed |-> 3, grow |-> 4, changed |-> 5]

NextEdit == CHOOSE e \in m.edits : \A f \in m.edits : Turn[e] <= Turn[f]

(* stage_links: one link, in the worlds where the right representative has *)
(* the rank rrank.                                                         *)
StageLinks(rrank, cond) ==
    LET l == m.pair[1]
        r == m.pair[2]
        leftWins == m.rank > rrank \/ (m.rank = rrank /\ l < r)
        winner == IF leftWins THEN l ELSE r
        loser == IF leftWins THEN r ELSE l
    IN [m EXCEPT !.phase = "Edits",
                 !.rights = @ \ cond,
                 !.link = [winner |-> winner, loser |-> loser, cond |-> cond],
                 !.edits = EditsOf(m.rank, rrank),
                 !.delta = Append(@, Seed(winner, loser, cond))]

(* The next part of that part, by the rank of the right variable.          *)
RightRank ==
    /\ In("RightRank")
    /\ LET rank == NextRank(rows, m.pair[2], m.rights)
       IN merge' = IF m.rights = {} THEN [m EXCEPT !.phase = "LeftRank"]
                   ELSE StageLinks(rank, RankHit(rows, m.pair[2], m.rights, rank))
    /\ UNCHANGED <<rows, same>>

With(table, key, name, cond) == [table EXCEPT ![key][name] = @ \cup cond]
Without(table, key, name, cond) == [table EXCEPT ![key][name] = @ \ cond]

(* Fault: the reverse edge points the same way.                            *)
WriteChildForward(root, link) ==
    [root EXCEPT !.CHILD = With(@, link.loser, link.winner, link.cond)]

WriteChild(root, link) ==
    [root EXCEPT !.CHILD = With(@, link.winner, link.loser, link.cond)]

(* One row of the staged root is written.                                  *)
Written(edit, root, link) ==
    CASE edit = "parent" ->
            [root EXCEPT !.PARENT = With(@, link.loser, link.winner, link.cond)]
      [] edit = "child" -> WriteChild(root, link)
      [] edit = "shed" ->
            [root EXCEPT !.RANK = Without(@, link.winner, m.rank, link.cond)]
      [] edit = "grow" ->
            [root EXCEPT !.RANK = With(@, link.winner, m.rank + 1, link.cond)]
      [] OTHER -> root

EditsDone == m.edits = {}

(* The next edit; the last one of a link extends `changed'.                *)
Edits ==
    /\ In("Edits")
    /\ merge' = IF EditsDone THEN [m EXCEPT !.phase = "RightRank"]
                ELSE [m EXCEPT !.edits = @ \ {NextEdit},
                               !.staged = Written(NextEdit, @, m.link),
                               !.changed = IF NextEdit = "changed"
                                           THEN @ \cup m.link.cond ELSE @]
    /\ UNCHANGED <<rows, same>>

(* The body takes the staged root, and the delta for the wake.             *)
Publish ==
    /\ In("Done")
    /\ rows' = m.staged
    /\ merge' = None
    /\ same' = [w \in World |-> IF w \in m.scope
                                THEN Forests!Equated(same[w], m.x, m.y) ELSE same[w]]

Next ==
    \/ \E x, y \in Var, scope \in Condition \ {{}} : Start(x, y, scope)
    \/ Left \/ Right \/ Pair \/ PairSupport \/ LeftRank \/ RightRank \/ Edits
    \/ Publish

Spec == Init /\ [][Next]_vars

-----------------------------------------------------------------------------

(* The rows of the current root are forests of union by rank, one union    *)
(* per merge, however many links in however many conditions it took.       *)
ImplementsUnionFind == Forests!Spec

(* Types; and a link is complete before the next one is staged.            *)
TypeOK ==
    /\ rows \in Rows
    /\ m # None =>
          /\ m.phase \in {"Left", "Right", "Pair", "Support", "LeftRank", "RightRank",
                          "Edits", "Done"}
          /\ m.staged \in Rows
          /\ m.changed \in Condition
          /\ m.edits # {} => m.phase = "Edits"

(* "Parent and rank partitions are disjoint within one variable's record", *)
(* in the staged root too and between the edits of a link, so that scans   *)
(* of a variable's rows need not look at their order.                      *)
PartitionsDisjoint ==
    \A root \in {rows} \cup (IF m = None THEN {} ELSE {m.staged}) : \A v \in Var :
        /\ \A p, q \in Var : p # q => root.PARENT[v][p] \cap root.PARENT[v][q] = {}
        /\ \A j, k \in Rank : j # k => root.RANK[v][j] \cap root.RANK[v][k] = {}

(* In a current root every edge is there in both directions.               *)
ChildrenMirrorParents ==
    \A p, v \in Var : rows.CHILD[p][v] = rows.PARENT[v][p]

(* The rows of a root agree with each other, whatever was linked where.    *)
RowsAgree == PartitionsDisjoint /\ ChildrenMirrorParents

(* 2^n, in a form that can be reasoned about.                              *)
Power[n \in Nat] == IF n = 0 THEN 1 ELSE 2 * Power[n - 1]

(* Ranks stay below the logarithm of the class, so that the counter of a   *)
(* rank cannot be exhausted.                                               *)
RankIsLogarithmic ==
    \A w \in World, v \in Var :
        LET parent == ParentIn(rows, w)
        IN IsRoot(parent, v) => Power[RankIn(rows, w)[v]] <= Cardinality(Class(parent, v))

(* The rows of a root agree with each other and with the classes they      *)
(* stand for, whatever was linked where.                                   *)
RowsConsistent == RowsAgree /\ RankIsLogarithmic

(* What the delta of a merge says to the wake: in each world the class of  *)
(* the seed, and no other variable, has got a new representative, and      *)
(* `changed' is where that happened.                                       *)
DeltaNamesMovedClasses ==
    [][rows' # rows =>
         /\ m.changed = UNION {m.delta[i].cond : i \in DOMAIN m.delta}
         /\ \A w \in World, v \in Var :
              Root(ParentIn(rows', w), v) # Root(ParentIn(rows, w), v) <=>
                 \E i \in DOMAIN m.delta :
                    /\ w \in m.delta[i].cond
                    /\ Root(ParentIn(rows, w), v) = m.delta[i].var]_vars
=============================================================================
