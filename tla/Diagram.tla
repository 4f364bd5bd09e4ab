------------------------------- MODULE Diagram -------------------------------
(***************************************************************************)
(* Conditions as decision diagrams with complemented edges: the nodes,     *)
(* tables and handles of src/condition.rs, and its two resumable           *)
(* computations, Job and Transform, as functions of the arena.  Module     *)
(* Condition runs them beside the collector.                               *)
(*                                                                         *)
(* A handle is a number: node n stands for a function that is false where  *)
(* every choice is, and 2n and 2n + 1 are the function and its negation.   *)
(* Node 0 is the terminal.                                                 *)
(***************************************************************************)
EXTENDS Naturals, Sequences, FiniteSets, SequencesExt

CONSTANTS
    MaxChoice,  \* bound: choices
    CacheLimit, \* CACHE_LIMIT
    None        \* an empty Option

Choice == 1 .. MaxChoice
World == SUBSET Choice \* those taken
Taken == [x \in Choice |-> {w \in World : x \in w}]

Never == 0      \* Condition::FALSE
Always == 1     \* Condition::TRUE
Id(c) == c \div 2
IsTerminal(c) == Id(c) = 0
Negative(c) == c % 2 = 1
Not(c) == IF Negative(c) THEN c - 1 ELSE c + 1
Signed(c, sign) == IF Negative(sign) THEN Not(c) ELSE c

(* An arena.  rank: the place of a choice in the order, after: its causal  *)
(* bound or 0; both have the choices that have nodes (Arena.order).        *)
(* recent: Arena.cache_order, refs: Node.references, epoch: order_epoch.    *)
EmptyArena ==
    [nodes |-> <<>>, unique |-> <<>>, next |-> 1, choices |-> 0, rank |-> <<>>,
     after |-> <<>>, refs |-> <<>>, cache |-> <<>>, recent |-> <<>>, epoch |-> 0]

Key(node) == <<node.choice, node.low, node.high>>
Level(a, choice) == {n \in DOMAIN a.nodes : a.nodes[n].choice = choice}
Present(a, c) == IsTerminal(c) \/ Id(c) \in DOMAIN a.nodes
Precedes(a, x, y) == a.rank[x] < a.rank[y]

(* Arena::view.                                                            *)
Top(a, c) == a.nodes[Id(c)].choice
Low(a, c) == Signed(a.nodes[Id(c)].low, c)
High(a, c) == Signed(a.nodes[Id(c)].high, c)
Cofactors(a, c, choice) ==
    IF ~IsTerminal(c) /\ Top(a, c) = choice THEN <<Low(a, c), High(a, c)>> ELSE <<c, c>>

SupportMax(a, c) == IF IsTerminal(c) THEN 0 ELSE a.nodes[Id(c)].max

(* Arena::evaluate: the worlds in which it is true.                        *)
Evaluate(a, c) ==
    LET true[d \in Nat] ==
            IF IsTerminal(d) THEN IF d = Always THEN World ELSE {}
            ELSE (true[High(a, d)] \cap Taken[Top(a, d)])
                    \cup (true[Low(a, d)] \ Taken[Top(a, d)])
    IN true[c]

Max2(x, y) == IF x < y THEN y ELSE x

(* Arena::node: the node of this function, which is made when it is new.   *)
(* The low edge of a node is never complemented.                           *)
Made(a, choice, low, high) ==
    LET key == <<choice, Signed(low, low), Signed(high, low)>>
        max == Max2(choice, Max2(SupportMax(a, low), SupportMax(a, high)))
        ranked == choice \in DOMAIN a.rank
    IN IF low = high THEN [arena |-> a, cond |-> low]
       ELSE IF key \in DOMAIN a.unique
       THEN [arena |-> a, cond |-> Signed(2 * a.unique[key], low)]
       ELSE [arena |->
               [a EXCEPT !.nodes = @ @@ (a.next :> [choice |-> choice, low |-> key[2],
                                                    high |-> key[3], max |-> max]),
                         !.unique = @ @@ (key :> a.next),
                         !.next = @ + 1,
                         !.refs = @ @@ (a.next :> 0),
                         !.rank = IF ranked THEN @ ELSE @ @@ (choice :> choice),
                         !.after = IF ranked THEN @ ELSE @ @@ (choice :> 0)],
             cond |-> Signed(2 * a.next, low)]

(* Arena::fresh_scoped_choice: the choice comes after all those the scope  *)
(* may depend on.                                                          *)
Born(a, scope) ==
    LET choice == a.choices + 1
        made == Made([a EXCEPT !.choices = choice], choice, Never, Always)
    IN [made EXCEPT !.arena.after[choice] = SupportMax(a, scope)]

WithoutNode(a, n) ==
    [a EXCEPT !.nodes = [m \in DOMAIN @ \ {n} |-> @[m]],
              !.refs = [m \in DOMAIN @ \ {n} |-> @[m]],
              !.unique = [k \in DOMAIN @ \ {Key(a.nodes[n])} |-> @[k]]]

-----------------------------------------------------------------------------
(* Job: And on a pair of handles; Or and Difference are reduced to it.     *)

Ordered(x, y) == IF x <= y THEN <<x, y>> ELSE <<y, x>>

Simple(p) ==
    CASE p[1] = Never \/ p[2] = Never \/ p[1] = Not(p[2]) -> Never
      [] p[1] = Always                                    -> p[2]
      [] p[2] = Always \/ p[1] = p[2]                     -> p[1]
      [] OTHER                                            -> None

Lookup(table, p) == IF p \in DOMAIN table THEN table[p] ELSE None

Cached(a, p) == IF Simple(p) # None THEN Simple(p) ELSE Lookup(a.cache, p)

(* Arena::remember: the oldest entry gives way.                            *)
Remember(a, p, result) ==
    LET oldest == IF Len(a.recent) = CacheLimit THEN {Head(a.recent)} ELSE {}
        kept == IF oldest = {} THEN a.recent ELSE Tail(a.recent)
    IN IF p \in DOMAIN a.cache THEN a
       ELSE [a EXCEPT !.cache = [q \in DOMAIN @ \ oldest |-> @[q]] @@ (p :> result),
                      !.recent = Append(kept, p)]

(* Arena::start.  restarts counts, for the properties.                     *)
Start(a, op, x, y) ==
    LET p == CASE op = "And"        -> Ordered(x, y)
               [] op = "Or"         -> Ordered(Not(x), Not(y))
               [] op = "Difference" -> Ordered(x, Not(y))
        known == Cached(a, p)
    IN [kind |-> "Job", negative |-> op = "Or",
        input |-> IF known = None THEN p ELSE None,
        frames |-> IF known = None THEN <<[do |-> "Evaluate", pair |-> p]>> ELSE <<>>,
        last |-> known, memo |-> <<>>, epoch |-> a.epoch, leased |-> FALSE, restarts |-> 0]

JobResult(j) ==
    IF j.frames # <<>> \/ j.memo # <<>> \/ j.last = None THEN None
    ELSE IF j.negative THEN Not(j.last) ELSE j.last

(* The frames below the top one.                                           *)
Rest(t) == Front(t.frames)

(* A pair is decided by what is known of it, or split at its first choice. *)
JobEvaluate(a, j, p) ==
    LET known == IF Simple(p) # None THEN Simple(p)
                 ELSE IF Lookup(j.memo, p) # None THEN j.memo[p]
                 ELSE Lookup(a.cache, p)
        tops == {Top(a, p[i]) : i \in {k \in 1 .. 2 : ~IsTerminal(p[k])}}
        choice == CHOOSE x \in tops : \A y \in tops : x = y \/ Precedes(a, x, y)
        x == Cofactors(a, p[1], choice)
        y == Cofactors(a, p[2], choice)
    IN IF known # None
       THEN [j EXCEPT !.frames = Rest(j), !.last = known,
                      !.memo = IF Simple(p) # None \/ p \in DOMAIN @ THEN @ ELSE @ @@ (p :> known)]
       ELSE [j EXCEPT !.frames = Rest(j) \o
                         << [do |-> "AfterLow", pair |-> p, choice |-> choice,
                             high |-> Ordered(x[2], y[2])],
                            [do |-> "Evaluate", pair |-> Ordered(x[1], y[1])] >>,
                      !.last = None]

(* Fault: a job goes on with the frames of the old order.                  *)
JobRestartNot(a, j) == [j EXCEPT !.epoch = a.epoch]

(* After a reordering the frames are dropped and the job starts again;     *)
(* from then on it holds a lease on the order.                             *)
JobRestart(a, j) ==
    [j EXCEPT !.epoch = a.epoch, !.frames = <<[do |-> "Evaluate", pair |-> j.input]>>,
              !.last = None, !.memo = <<>>, !.leased = TRUE, !.restarts = @ + 1]

(* Job::tick, without the reordering it may have to finish first.  What    *)
(* is left when the frames are done is given back in two ticks.            *)
JobTick(a, j) ==
    LET top == Last(j.frames)
        next(job) == [arena |-> a, task |-> job]
    IN IF JobResult(j) # None THEN next(j)
       ELSE IF j.epoch # a.epoch /\ j.frames # <<>> THEN next(JobRestart(a, j))
       ELSE IF j.frames = <<>>
       THEN next(IF j.input # None THEN [j EXCEPT !.epoch = a.epoch, !.input = None]
                 ELSE [j EXCEPT !.epoch = a.epoch, !.memo = <<>>, !.leased = FALSE])
       ELSE CASE top.do = "Evaluate" -> next(JobEvaluate(a, j, top.pair))
              [] top.do = "AfterLow" ->
                    next([j EXCEPT !.frames = Rest(j) \o
                             << [do |-> "AfterHigh", pair |-> top.pair, choice |-> top.choice,
                                 low |-> j.last],
                                [do |-> "Evaluate", pair |-> top.high] >>,
                          !.last = None])
              [] top.do = "AfterHigh" ->
                    LET made == Made(a, top.choice, top.low, j.last)
                    IN [arena |-> Remember(made.arena, top.pair, made.cond),
                        task |-> [j EXCEPT !.frames = Rest(j), !.last = made.cond,
                                           !.memo = @ @@ (top.pair :> made.cond)]]

FrameRoots(f) ==
    CASE f.do = "Evaluate"  -> ToSet(f.pair)
      [] f.do = "AfterLow"  -> ToSet(f.pair) \cup ToSet(f.high)
      [] f.do = "AfterHigh" -> ToSet(f.pair) \cup {f.low}

(* Job::roots.                                                             *)
JobRoots(j) ==
    (IF j.input = None THEN {} ELSE ToSet(j.input))
        \cup UNION {ToSet(p) \cup {j.memo[p]} : p \in DOMAIN j.memo}
        \cup ({j.last} \ {None})
        \cup UNION {FrameRoots(j.frames[i]) : i \in DOMAIN j.frames}
=============================================================================
