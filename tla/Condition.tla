------------------------------ MODULE Condition ------------------------------
(***************************************************************************)
(* The arena of src/condition.rs at work: conditions are computed by tasks *)
(* that run in turns, a collector stops them, sweeps what no root reaches  *)
(* and may change the order of the choices one swap at a time, and may be  *)
(* dropped at any of its steps, which leaves the reordering to the tasks.  *)
(*                                                                         *)
(* The caller is a Script: step i writes register i, in order, and waits   *)
(* for the registers it reads.  The Boolean meaning of each register is    *)
(* fixed by the Script, and the arena has to represent it at every moment. *)
(***************************************************************************)
EXTENDS Transform

CONSTANTS
    Script,        \* the calls
    MaxCollections \* bound: collections

VARIABLES
    arena,      \* Arena, but for the next two
    sift,       \* Arena.sift
    collector,  \* the Collector that holds the GcLease
    regs,       \* the handles the caller holds, by register
    tasks,      \* the Jobs and Transforms it holds, by register
    pc,         \* the next step of the Script
    collections \* Arena.epoch

vars == <<arena, sift, collector, regs, tasks, pc, collections>>

Register == 1 .. Len(Script)
Readers == {r \in Register : tasks[r] # None /\ LET t == tasks[r] IN
              IF t.kind = "Job" THEN t.leased ELSE t.job # None /\ t.job.leased}

TaskRoots(t) == IF t.kind = "Job" THEN JobRoots(t) ELSE TransformRoots(t)

(* What the caller gives Arena::collect.                                   *)
Roots == ({regs[r] : r \in Register}
            \cup UNION {TaskRoots(tasks[r]) : r \in {q \in Register : tasks[q] # None}}) \ {None}

Children(a, ns) ==
    {Id(a.nodes[n].low) : n \in ns} \cup {Id(a.nodes[n].high) : n \in ns}

(* The nodes these handles reach.                                          *)
Reach(a, cs) ==
    LET reach[i \in Nat] == IF i = 0 THEN {Id(c) : c \in cs} \ {0}
                            ELSE (reach[i - 1] \cup Children(a, reach[i - 1])) \ {0}
    IN reach[MaxChoice]

(* The edges into a node, from the nodes ns and from the roots.            *)
Edges(a, ns, roots, n) ==
    Cardinality({m \in ns : Id(a.nodes[m].low) = n})
        + Cardinality({m \in ns : Id(a.nodes[m].high) = n})
        + Cardinality({c \in roots : Id(c) = n})

-----------------------------------------------------------------------------
(* Sift: one choice after another is moved through the order, and put back *)
(* where the diagrams were smallest.                                       *)

(* Sift::new; number: the collection it serves (Sift.epoch).               *)
NewSift(number) ==
    [phase |-> "Candidates", direction |-> None, left |-> 0, right |-> 0, cursor |-> 0,
     end |-> 0, zeros |-> <<>>, candidates |-> {}, bestSize |-> 0, bestRank |-> 0,
     moving |-> 0, number |-> number, reclaim |-> TRUE, stop |-> FALSE, changed |-> FALSE]

Retain(a, c) == IF IsTerminal(c) THEN a ELSE [a EXCEPT !.refs[Id(c)] = @ + 1]

(* Sift::release, on the arena and the sift.                               *)
Release(u, c) ==
    IF IsTerminal(c) THEN u
    ELSE [u EXCEPT !.arena.refs[Id(c)] = @ - 1,
                   !.sift.zeros = IF u.arena.refs[Id(c)] = 1 THEN Append(@, c) ELSE @]

(* Fault: the edges of the nodes made by a swap are not counted.           *)
CountedNot(a, choice, low, high) == Made(a, choice, low, high)

(* Arena::node with count_edges.                                           *)
Counted(a, choice, low, high) ==
    LET made == Made(a, choice, low, high)
    IN IF made.arena.next = a.next THEN made
       ELSE [made EXCEPT !.arena = Retain(Retain(@, low), high)]

Chosen(a, s) ==
    LET first == CHOOSE x \in s.candidates : \A y \in s.candidates :
                    x[1] > y[1] \/ (x[1] = y[1] /\ x[2] <= y[2])
    IN IF s.stop \/ s.candidates = {} THEN [s EXCEPT !.phase = "Cleanup"]
       ELSE [s EXCEPT !.phase = "Move", !.direction = "Earlier", !.moving = first[2],
                      !.candidates = @ \ {first}, !.bestRank = a.rank[first[2]],
                      !.bestSize = Cardinality(DOMAIN a.nodes)]

Candidates(a, s) ==
    IF s.stop THEN [s EXCEPT !.phase = "Cleanup"]
    ELSE [s EXCEPT !.phase = "Choose",
                   !.candidates = {<<Cardinality(Level(a, x)), x>> : x \in DOMAIN a.rank}]

Turned == [Earlier |-> "Later", Later |-> "Return", Return |-> "Return"]

(* A choice stays after those its scope may depend on.                     *)
Blocked(a, left, right) == left <= a.after[right]

(* The pair to swap, in order, or None at an end of the order.             *)
Neighbors(a, s, direction) ==
    LET rank == a.rank[s.moving]
        earlier == direction = "Earlier" \/ (direction = "Return" /\ rank > s.bestRank)
        others == {x \in DOMAIN a.rank : IF earlier THEN a.rank[x] < rank ELSE a.rank[x] > rank}
        near == CHOOSE x \in others : \A y \in others :
                    IF earlier THEN a.rank[x] >= a.rank[y] ELSE a.rank[x] <= a.rank[y]
    IN IF others = {} THEN None ELSE IF earlier THEN <<near, s.moving>> ELSE <<s.moving, near>>

Move(a, s) ==
    LET direction == IF s.stop THEN "Return" ELSE s.direction
        pair == Neighbors(a, s, direction)
    IN IF direction = "Return" /\ a.rank[s.moving] = s.bestRank THEN [s EXCEPT !.phase = "Choose"]
       ELSE IF pair = None THEN [s EXCEPT !.direction = Turned[direction]]
       ELSE IF Blocked(a, pair[1], pair[2]) THEN [s EXCEPT !.direction = Turned[direction]]
       ELSE [s EXCEPT !.phase = "Swap", !.left = pair[1], !.right = pair[2], !.cursor = 0,
                      !.end = a.next, !.direction = direction]

(* The nodes of the left level that a swap has still to look at.           *)
Unswapped(a, s) == {n \in Level(a, s.left) : s.cursor < n /\ n < s.end}

(* One node of the left level becomes one of the right level, in place, so *)
(* that handles to it stay good.                                           *)
Rewritten(a, s, n) ==
    LET old == a.nodes[n]
        x == Cofactors(a, old.low, s.right)
        y == Cofactors(a, old.high, s.right)
        made(b, low, high) == IF s.reclaim THEN Counted(b, s.left, low, high)
                                           ELSE Made(b, s.left, low, high)
        low == made(a, x[1], y[1])
        high == made(low.arena, x[2], y[2])
        new == [old EXCEPT !.choice = s.right, !.low = low.cond, !.high = high.cond]
        b == [high.arena EXCEPT !.nodes[n] = new,
                                !.unique = [k \in (DOMAIN @ \ {Key(old)}) \cup {Key(new)} |->
                                                IF k = Key(new) THEN n ELSE @[k]]]
        u == [arena |-> b, sift |-> s]
    IN IF x[1] = x[2] /\ y[1] = y[2] THEN [arena |-> a, sift |-> s]
       ELSE IF s.reclaim
       THEN Release(Release([u EXCEPT !.arena = Retain(Retain(b, low.cond), high.cond)],
                            old.low), old.high)
       ELSE u

Swap(a, s) ==
    LET rest == Unswapped(a, s)
        n == CHOOSE m \in rest : \A o \in rest : m <= o
    IN IF rest # {} THEN [Rewritten(a, s, n) EXCEPT !.sift.cursor = n]
       ELSE [arena |-> [a EXCEPT !.rank[s.left] = a.rank[s.right],
                                 !.rank[s.right] = a.rank[s.left]],
             sift |-> [s EXCEPT !.phase = "Drain", !.changed = TRUE]]

Measured(a, s) ==
    LET size == Cardinality(DOMAIN a.nodes)
        better == s.reclaim /\ size < s.bestSize
        best == IF better THEN size ELSE s.bestSize
    IN [s EXCEPT !.phase = "Move", !.bestSize = best,
                 !.bestRank = IF better THEN a.rank[s.moving] ELSE @,
                 !.direction = IF s.stop THEN "Return"
                               ELSE IF size > 2 * best
                               THEN (IF @ = "Earlier" THEN "Later" ELSE "Return") ELSE @]

(* A node no edge leads to is removed, if it has not been found again.     *)
Drain(a, s) ==
    LET n == Id(Last(s.zeros))
        popped == [arena |-> a, sift |-> [s EXCEPT !.zeros = Front(@)]]
    IN IF s.zeros = <<>> THEN [arena |-> a, sift |-> Measured(a, s)]
       ELSE IF s.reclaim /\ n \in DOMAIN a.nodes /\ a.refs[n] = 0
       THEN Release(Release([popped EXCEPT !.arena = WithoutNode(a, n)],
                            a.nodes[n].low), a.nodes[n].high)
       ELSE popped

(* Sift::tick and Arena::sift_tick.  stop: by the caller or the budget.    *)
SiftTick(a, before, stop) ==
    LET reclaim == before.reclaim /\ collector # None /\ collector.number = before.number
        s == [before EXCEPT !.reclaim = reclaim, !.stop = @ \/ ~reclaim \/ stop]
        next(t) == [arena |-> a, sift |-> t]
    IN CASE s.phase = "Candidates" -> next(Candidates(a, s))
         [] s.phase = "Choose"     -> next(Chosen(a, s))
         [] s.phase = "Move"       -> next(Move(a, s))
         [] s.phase = "Swap"       -> Swap(a, s)
         [] s.phase = "Drain"      -> Drain(a, s)
         [] s.phase = "Cleanup"    ->
                [arena |-> IF s.changed THEN [a EXCEPT !.epoch = @ + 1] ELSE a, sift |-> None]

SiftStep(stop) ==
    LET u == SiftTick(arena, sift, stop)
    IN arena' = u.arena /\ sift' = u.sift

-----------------------------------------------------------------------------
(* The caller.                                                             *)

Init ==
    /\ arena = EmptyArena
    /\ sift = None
    /\ collector = None
    /\ regs = [r \in Register |-> None]
    /\ tasks = [r \in Register |-> None]
    /\ pc = 1
    /\ collections = 0

Step == Script[pc]
Ready(r) == regs[r] # None

(* Arena::fresh_scoped_choice and Arena::fresh_choice.                     *)
Fresh ==
    /\ Step.do = "Fresh"
    /\ Step.scope # None => Ready(Step.scope)
    /\ LET born == Born(arena, IF Step.scope = None THEN Always ELSE regs[Step.scope])
       IN arena' = born.arena /\ regs' = [regs EXCEPT ![pc] = born.cond]
    /\ UNCHANGED tasks

(* Arena::start.                                                           *)
Begin ==
    /\ Step.do \in {"And", "Or", "Difference"}
    /\ Ready(Step.x) /\ Ready(Step.y)
    /\ tasks' = [tasks EXCEPT ![pc] = Start(arena, Step.do, regs[Step.x], regs[Step.y])]
    /\ UNCHANGED <<arena, regs>>

(* Arena::substitute and Arena::project_before.                            *)
BeginTransform ==
    /\ Step.do = "Transform"
    /\ Ready(Step.x) /\ \A c \in DOMAIN Step.images : Ready(Step.images[c])
    /\ tasks' = [tasks EXCEPT ![pc] =
                    StartTransform(arena, regs[Step.x],
                                   [c \in DOMAIN Step.images |-> regs[Step.images[c]]],
                                   Step.cutoff)]
    /\ UNCHANGED <<arena, regs>>

(* The caller lets go of handles.                                          *)
Forget ==
    /\ Step.do = "Forget"
    /\ \A r \in Step.x : Ready(r)
    /\ regs' = [r \in Register |-> IF r \in Step.x THEN None ELSE regs[r]]
    /\ UNCHANGED <<arena, tasks>>

Call ==
    /\ pc \in Register /\ collector = None
    /\ Fresh \/ Begin \/ BeginTransform \/ Forget
    /\ pc' = pc + 1
    /\ UNCHANGED <<sift, collector, collections>>

(* Job::tick and Transform::tick: a reordering comes first.                *)
TickSift(r) ==
    /\ tasks[r] # None /\ collector = None /\ sift # None
    /\ SiftStep(FALSE)
    /\ UNCHANGED <<collector, regs, tasks, pc, collections>>

Tick(r) ==
    /\ tasks[r] # None /\ collector = None /\ sift = None
    /\ LET t == tasks[r]
           u == IF t.kind = "Job" THEN JobTick(arena, t) ELSE TransformTick(arena, t)
           result == IF t.kind = "Job" THEN JobResult(u.task) ELSE TransformResult(u.task)
       IN /\ arena' = u.arena
          /\ tasks' = [tasks EXCEPT ![r] = IF result = None THEN u.task ELSE None]
          /\ regs' = [regs EXCEPT ![r] = result]
    /\ UNCHANGED <<sift, collector, pc, collections>>

-----------------------------------------------------------------------------
(* The collector.                                                          *)

(* Arena::collect.                                                         *)
Collect ==
    /\ collector = None /\ collections < MaxCollections
    /\ collections' = collections + 1
    /\ collector' = [number |-> collections + 1, phase |-> "Reorder", cursor |-> 0,
                     marked |-> {}, roots |-> {}]
    /\ UNCHANGED <<arena, sift, regs, tasks, pc>>

In(phase) == collector # None /\ collector.phase = phase
Goto(phase) == collector' = [collector EXCEPT !.phase = phase]

(* A reordering that another collector left is brought to its end.         *)
Reorder ==
    /\ In("Reorder")
    /\ \/ sift # None /\ SiftStep(TRUE) /\ UNCHANGED collector
       \/ sift = None /\ Goto("Cache") /\ UNCHANGED <<arena, sift>>
    /\ UNCHANGED <<regs, tasks, pc, collections>>

(* Results that nobody holds may be swept, and are forgotten first.        *)
Cache ==
    /\ In("Cache")
    /\ arena' = [arena EXCEPT !.cache = <<>>, !.recent = <<>>]
    /\ Goto("Mark")
    /\ UNCHANGED <<sift, regs, tasks, pc, collections>>

Mark ==
    /\ In("Mark")
    /\ LET marked == Reach(arena, Roots)
       IN /\ collector' = [collector EXCEPT !.phase = "Sweep", !.marked = marked,
                                            !.roots = Roots]
          /\ arena' = [arena EXCEPT !.refs = [n \in DOMAIN @ |->
                          IF n \in marked THEN Edges(arena, marked, Roots, n) ELSE @[n]]]
    /\ UNCHANGED <<sift, regs, tasks, pc, collections>>

(* One node per step; a choice goes with its last node.                    *)
Swept(a, n) ==
    LET b == WithoutNode(a, n)
        choice == a.nodes[n].choice
    IN IF Level(b, choice) # {} THEN b
       ELSE [b EXCEPT !.rank = [x \in DOMAIN @ \ {choice} |-> @[x]],
                      !.after = [x \in DOMAIN @ \ {choice} |-> @[x]]]

Sweep ==
    /\ In("Sweep")
    /\ LET rest == {n \in DOMAIN arena.nodes : n > collector.cursor}
           n == CHOOSE m \in rest : \A o \in rest : m <= o
       IN IF rest # {}
          THEN /\ arena' = IF n \in collector.marked THEN arena ELSE Swept(arena, n)
               /\ collector' = [collector EXCEPT !.cursor = n]
          ELSE /\ arena' = [arena EXCEPT !.unique =
                              [k \in {Key(arena.nodes[m]) : m \in collector.marked} |->
                                 CHOOSE m \in collector.marked : Key(arena.nodes[m]) = k]]
               /\ Goto("Finish")
    /\ UNCHANGED <<sift, regs, tasks, pc, collections>>

(* Collector.branching.                                                    *)
Branching == \E n \in collector.marked :
    ~IsTerminal(arena.nodes[n].low) /\ ~IsTerminal(arena.nodes[n].high)

(* Fault: leases are ignored.                                              *)
MayReorderAlways == Branching

(* Nobody relies on the order.                                             *)
MayReorder == Branching /\ Readers = {}

(* Whether the arena is large and dense enough is left open.               *)
Finish ==
    /\ In("Finish")
    /\ \/ Goto("Done") /\ UNCHANGED sift
       \/ MayReorder /\ Goto("Sift") /\ sift' = NewSift(collector.number)
    /\ UNCHANGED <<arena, regs, tasks, pc, collections>>

Sifting ==
    /\ In("Sift")
    /\ \/ sift # None /\ (\E stop \in BOOLEAN : SiftStep(stop)) /\ UNCHANGED collector
       \/ sift = None /\ Goto("Done") /\ UNCHANGED <<arena, sift>>
    /\ UNCHANGED <<regs, tasks, pc, collections>>

(* The collector is dropped, done or not.                                  *)
DropCollector ==
    /\ collector # None
    /\ collector' = None
    /\ UNCHANGED <<arena, sift, regs, tasks, pc, collections>>

Next ==
    \/ Call
    \/ \E r \in Register : TickSift(r) \/ Tick(r)
    \/ Collect \/ Reorder \/ Cache \/ Mark \/ Sweep \/ Finish \/ Sifting \/ DropCollector

Spec == Init /\ [][Next]_vars

-----------------------------------------------------------------------------
(* What the calls mean, whatever the arena does.                           *)

ChoiceOf(r) == Cardinality({q \in 1 .. r : Script[q].do = "Fresh"})

(* The worlds a call's result is true in; m: of the registers before it.   *)
MeaningOf(s, m) ==
    LET substituted(w) ==
            {c \in Choice : IF c \in DOMAIN s.images THEN w \in m[s.images[c]] ELSE c \in w}
        agree(v, w) == \A c \in Choice : c < s.cutoff => (c \in v <=> c \in w)
    IN CASE s.do = "Fresh"      -> Taken[ChoiceOf(Len(m) + 1)]
         [] s.do = "And"        -> m[s.x] \cap m[s.y]
         [] s.do = "Or"         -> m[s.x] \cup m[s.y]
         [] s.do = "Difference" -> m[s.x] \ m[s.y]
         [] s.do = "Transform"  ->
                IF s.cutoff = None THEN {w \in World : substituted(w) \in m[s.x]}
                ELSE {w \in World : \E v \in m[s.x] : agree(v, w)}
         [] s.do = "Forget"     -> {}

Meaning == FoldLeft(LAMBDA m, s : Append(m, MeaningOf(s, m)), <<>>, Script)

-----------------------------------------------------------------------------
(* Properties.                                                             *)

(* A handle denotes the function it was given for, in the middle of a swap *)
(* or a sweep as well, and every handle that the caller, a task or the     *)
(* cache keeps is of a node that is there (the asserts on "stale or        *)
(* foreign" handles in Arena::view and Collector::tick).                   *)
HandlesDenote ==
    /\ \A c \in Roots : Present(arena, c)
    /\ \A r \in Register : regs[r] # None => Evaluate(arena, regs[r]) = Meaning[r]
    /\ Len(arena.recent) <= CacheLimit /\ ToSet(arena.recent) = DOMAIN arena.cache
    /\ \A p \in DOMAIN arena.cache :
          /\ \A c \in ToSet(p) \cup {arena.cache[p]} : Present(arena, c)
          /\ Evaluate(arena, arena.cache[p]) = Evaluate(arena, p[1]) \cap Evaluate(arena, p[2])

(* Nodes with all that they reach: a sweep that is cut short may leave     *)
(* others, which nothing can find again, as numbers are not used twice.    *)
Whole ==
    LET whole[n \in Nat] ==
            \/ n = 0
            \/ n \in DOMAIN arena.nodes /\ whole[Id(arena.nodes[n].low)]
                                        /\ whole[Id(arena.nodes[n].high)]
    IN {n \in DOMAIN arena.nodes : whole[n]}

(* Equal functions have equal handles: no two nodes denote the same        *)
(* function, nor opposite ones (each is false where every choice is), and  *)
(* between swaps the choices along every path are in the order of ranks.   *)
OneNodePerFunction ==
    LET whole == Whole
        inner(n) == {arena.nodes[n].low, arena.nodes[n].high} \ {Never, Always}
    IN /\ Cardinality({Evaluate(arena, 2 * n) : n \in whole}) = Cardinality(whole)
       /\ \A n \in whole : {} \notin Evaluate(arena, 2 * n)
       /\ \A n \in DOMAIN arena.nodes : arena.unique[Key(arena.nodes[n])] = n
       /\ Cardinality(DOMAIN arena.unique) = Cardinality(DOMAIN arena.nodes)
       /\ sift = None => \A n \in whole : \A c \in inner(n) :
             Precedes(arena, arena.nodes[n].choice, Top(arena, c))

(* No reordering puts a choice before one that its scope may depend on     *)
(* (Move), and the way back to the best place is always open (the          *)
(* unreachable! arms of Move).                                             *)
CausalOrder ==
    /\ \A x, y \in DOMAIN arena.rank :
          /\ x # y => arena.rank[x] # arena.rank[y]
          /\ x <= arena.after[y] => Precedes(arena, x, y)
    /\ (sift # None /\ sift.phase = "Move" /\ arena.rank[sift.moving] # sift.bestRank) =>
          LET pair == Neighbors(arena, sift, "Return")
          IN pair # None /\ ~Blocked(arena, pair[1], pair[2])

(* Diagrams stay canonical, in an order that respects how choices were     *)
(* born, while swaps rewrite them under suspended jobs.                    *)
Canonical == OneNodePerFunction /\ CausalOrder

(* A handle that anybody keeps denotes its function and is the only one    *)
(* that does, at every tick of a swap, a sweep or a suspended job, so that *)
(* comparing handles compares functions.                                   *)
HandlesAreMeanings == HandlesDenote /\ Canonical

(* While a sift may still remove nodes, a node's count is the number of    *)
(* edges and roots that lead to it, and those without any are on the way   *)
(* out: none is freed too early and none is left behind.                   *)
CountsAreEdges ==
    (sift # None /\ sift.reclaim /\ In("Sift")) =>
        \A n \in DOMAIN arena.nodes :
            /\ arena.refs[n] = Edges(arena, DOMAIN arena.nodes, collector.roots, n)
            /\ arena.refs[n] = 0 => \E i \in DOMAIN sift.zeros : Id(sift.zeros[i]) = n

(* A collection that comes to its end leaves what the roots reach, and the *)
(* choices those nodes have.                                               *)
CollectionLeavesReachable ==
    In("Done") =>
        /\ DOMAIN arena.nodes = Reach(arena, collector.roots)
        /\ DOMAIN arena.rank = {arena.nodes[n].choice : n \in DOMAIN arena.nodes}

(* Neither the counts of a sift nor the sweep free a node that is needed   *)
(* or leave one that is not.                                               *)
NothingFreedOrLeft == CountsAreEdges /\ CollectionLeavesReachable

(* However often the arena is reordered, a task starts again at most once. *)
RestartsOnce ==
    \A r \in Register : tasks[r] # None =>
        /\ tasks[r].kind = "Job" => tasks[r].restarts <= 1
        /\ (tasks[r].kind = "Transform" /\ tasks[r].job # None) => tasks[r].job.restarts <= 1
=============================================================================
