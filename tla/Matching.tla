------------------------------- MODULE Matching -------------------------------
(***************************************************************************)
(* Matches of src/matching.rs: the join of the heads of a rule over a      *)
(* frozen graph root.                                                      *)
(*                                                                         *)
(* The walk goes depth first.  A frame per matched head enumerates the     *)
(* occurrences for it; the variables they bind are on a trail and undone   *)
(* when the frame goes on.  Nothing is copied per world: a partial match   *)
(* carries the worlds it holds in, and the same tuple may be found several *)
(* times, in parts, when a class of variables is visited alias by alias.   *)
(*                                                                         *)
(* What a walk reads never changes, so a behaviour is one goal.  Which     *)
(* index is read is chosen in the code by counting rows; here any index    *)
(* whose use the code allows may be the one with the fewest.               *)
(***************************************************************************)
EXTENDS Naturals, Sequences, FiniteSets, SequencesExt

CONSTANT
    Goal        \* what may be joined: records with
                \*    rep      per world: the representative of each variable
                \*    facts    occurrences: rel, args, live (worlds)
                \*    tuples   the relations with an index of whole tuples
                \*    heads    rel, args (slots, from 1 on)
                \*    anchor   <<>> or <<head, occurrence>>
                \*    scope    worlds

VARIABLES
    goal,       \* what is joined
    join,       \* Matches: phase, frames, bindings (0 while unbound),
                \*    occurrences (0 while unmatched), trail, candidate,
                \*    current, position, pop
    matched     \* history: what was found

matchVars == <<goal, join, matched>>

-----------------------------------------------------------------------------

Occurrences == DOMAIN goal.facts
Variables(g) == DOMAIN g.rep[CHOOSE w \in DOMAIN g.rep : TRUE]
HeadCount == Len(goal.heads)
Slots(g) == UNION {Range(g.heads[h].args) : h \in DOMAIN g.heads}

(* The worlds of a scope where two variables are known to be equal.        *)
Equal(u, v, scope) == {w \in scope : goal.rep[w][u] = goal.rep[w][v]}

(* Graph::singleton: no identity row mentions the variable.                *)
Singleton(v) == \A w \in DOMAIN goal.rep, u \in Variables(goal) : u # v => goal.rep[w][u] # goal.rep[w][v]

(* Cursors over the index rows go in the order of the occurrences.         *)
Row(Selected(_)) == SetToSortSeq({o \in Occurrences : goal.facts[o].live # {} /\ Selected(o)}, <)

OfRelation(rel) == Row(LAMBDA o : goal.facts[o].rel = rel)

OfPort(rel, port, v) == Row(LAMBDA o : goal.facts[o].rel = rel /\ goal.facts[o].args[port] = v)

(* Whole tuples are found by a hash, and different tuples may share one.   *)
TupleHash(args) == FoldSeq(+, 0, args)

OfTuple(rel, args) ==
    Row(LAMBDA o : goal.facts[o].rel = rel /\ TupleHash(goal.facts[o].args) = TupleHash(args))

-----------------------------------------------------------------------------
(* Source: where the occurrences for a head come from.  rows are still to  *)
(* be read, all in the worlds of membership; class holds the aliases of a  *)
(* bound variable whose rows at a port come after those.                   *)

Flat(rows, scope) ==
    [rows |-> rows, membership |-> scope, class |-> [v \in Variables(goal) |-> {}], port |-> 0]

OfOne(head, occ, scope) ==
    Flat(IF goal.facts[occ].rel = goal.heads[head].rel /\ goal.facts[occ].live # {}
         THEN <<occ>> ELSE <<>>, scope)

(* Members of the bound variable, each with its worlds of the scope.       *)
OfClass(port, bound, scope) ==
    [rows |-> <<>>, membership |-> {}, class |-> [v \in Variables(goal) |-> Equal(v, bound, scope)],
     port |-> port]

BoundPorts(head) ==
    {p \in DOMAIN goal.heads[head].args : join.bindings[goal.heads[head].args[p]] # 0}

BoundAt(head, p) == join.bindings[goal.heads[head].args[p]]

(* Graph::restriction: with several ports bound to variables that have no  *)
(* alias, readers share the rows that have just these arguments.           *)
IsShared(head) ==
    /\ Cardinality(BoundPorts(head)) >= 2
    /\ \A p \in BoundPorts(head) : Singleton(BoundAt(head, p))

SharedRows(head) ==
    Row(LAMBDA o : /\ goal.facts[o].rel = goal.heads[head].rel
                   /\ \A p \in BoundPorts(head) : goal.facts[o].args[p] = BoundAt(head, p))

PortSource(head, port, scope) ==
    IF IsShared(head) THEN [Flat(SharedRows(head), scope) EXCEPT !.port = port]
    ELSE OfClass(port, BoundAt(head, port), scope)

(* The whole tuple is looked up when every port is bound to a singleton.   *)
TupleBound(head) ==
    /\ goal.heads[head].rel \in goal.tuples
    /\ \A p \in DOMAIN goal.heads[head].args :
          p \in BoundPorts(head) /\ Singleton(BoundAt(head, p))

TupleSource(head, scope) ==
    Flat(OfTuple(goal.heads[head].rel, [p \in DOMAIN goal.heads[head].args |-> BoundAt(head, p)]),
         scope)

(* The sources the counts may choose among.                                *)
Sources(head, scope) ==
    {Flat(OfRelation(goal.heads[head].rel), scope)}
       \cup {PortSource(head, p, scope) : p \in BoundPorts(head)}
       \cup (IF TupleBound(head) THEN {TupleSource(head, scope)} ELSE {})

-----------------------------------------------------------------------------

StartJoin(g) ==
    [phase |-> IF g.scope = {} THEN "Done" ELSE "Select",
     frames |-> <<>>, bindings |-> [s \in Slots(g) |-> 0],
     occurrences |-> [h \in DOMAIN g.heads |-> 0], trail |-> <<>>,
     candidate |-> 0, current |-> g.scope, position |-> 0, pop |-> FALSE]

JoinStart ==
    /\ join = StartJoin(goal)
    /\ matched = <<>>

Frame == Last(join.frames)

Hit == IF join.frames = <<>> THEN goal.scope ELSE Frame.hit

(* Fault: what an abandoned candidate bound stays bound.                   *)
KeptTrail(before) == join.bindings

(* What was bound since the frame was pushed is unbound.                   *)
Undone(before) ==
    [s \in DOMAIN join.bindings |->
        IF \E i \in before + 1 .. Len(join.trail) : join.trail[i] = s THEN 0
        ELSE join.bindings[s]]

(* Fault: a port is not compared when the lookup was by any port.          *)
VerifiedAnywhere(frame, port) == frame.port # 0

(* Members have shown the port of the lookup to be equal in these worlds.  *)
Verified(frame, port) == frame.port = port

Pushed(head, source) ==
    [join EXCEPT !.phase = "Candidate",
                 !.frames = Append(@, [head |-> head, source |-> source, port |-> source.port,
                                       before |-> Len(join.trail), hit |-> Hit])]

(* The heads with the most bound ports go first.                           *)
BestHeads ==
    LET open == {h \in DOMAIN goal.heads : join.occurrences[h] = 0}
    IN {h \in open : \A k \in open : Cardinality(BoundPorts(h)) >= Cardinality(BoundPorts(k))}

Select ==
    /\ join.phase = "Select"
    /\ Len(join.frames) < HeadCount
    /\ IF goal.anchor # <<>> /\ join.frames = <<>>
       THEN join' = Pushed(goal.anchor[1], OfOne(goal.anchor[1], goal.anchor[2], Hit))
       ELSE \E h \in BestHeads : \E source \in Sources(h, Hit) : join' = Pushed(h, source)
    /\ UNCHANGED <<goal, matched>>

(* All heads are matched.                                                  *)
Found ==
    /\ join.phase = "Select"
    /\ Len(join.frames) = HeadCount
    /\ matched' = Append(matched, [occurrences |-> join.occurrences, bindings |-> join.bindings,
                                   support |-> Hit])
    /\ join' = [join EXCEPT !.phase = "Rollback", !.pop = FALSE]
    /\ UNCHANGED goal

-----------------------------------------------------------------------------

SetSource(source) == [join EXCEPT !.frames[Len(join.frames)].source = source]

(* The next row, where its fact lives.                                     *)
NextRow ==
    /\ join.phase = "Candidate"
    /\ Frame.source.rows # <<>>
    /\ LET o == Head(Frame.source.rows)
           cond == Frame.source.membership \cap goal.facts[o].live
           read == SetSource([Frame.source EXCEPT !.rows = Tail(@)])
       IN join' = IF cond = {} THEN read
                  ELSE [read EXCEPT !.phase = "Distinct", !.candidate = o, !.current = cond,
                                    !.position = 1]
    /\ UNCHANGED <<goal, matched>>

(* The next alias of the bound variable, in the worlds, or some of the     *)
(* worlds, where it is one: fragments of a member never overlap.           *)
NextAlias ==
    /\ join.phase = "Candidate"
    /\ Frame.source.rows = <<>>
    /\ \E v \in Variables(goal) : \E part \in (SUBSET Frame.source.class[v]) \ {{}} :
          join' = SetSource([Frame.source EXCEPT
                     !.class[v] = @ \ part, !.membership = part,
                     !.rows = OfPort(goal.heads[Frame.head].rel, Frame.port, v)])
    /\ UNCHANGED <<goal, matched>>

Exhausted ==
    /\ join.phase = "Candidate"
    /\ Frame.source.rows = <<>>
    /\ \A v \in Variables(goal) : Frame.source.class[v] = {}
    /\ join' = [join EXCEPT !.phase = "Rollback", !.pop = TRUE]
    /\ UNCHANGED <<goal, matched>>

(* No occurrence stands for two heads.                                     *)
DistinctHeads ==
    /\ join.phase = "Distinct"
    /\ join' = IF \E h \in DOMAIN join.occurrences : join.occurrences[h] = join.candidate
               THEN [join EXCEPT !.phase = "Rollback", !.pop = FALSE]
               ELSE [join EXCEPT !.phase = "Ports"]
    /\ UNCHANGED <<goal, matched>>

(* One port: it binds its slot, or equals what the slot is bound to.       *)
MatchPort ==
    /\ join.phase = "Ports"
    /\ join.position <= Len(goal.heads[Frame.head].args)
    /\ LET slot == goal.heads[Frame.head].args[join.position]
           actual == goal.facts[join.candidate].args[join.position]
           expected == join.bindings[slot]
           equal == Equal(expected, actual, join.current)
           next == [join EXCEPT !.position = @ + 1]
       IN join' =
             CASE expected = 0 ->
                    [next EXCEPT !.bindings[slot] = actual, !.trail = Append(@, slot)]
               [] expected # 0 /\ (expected = actual \/ Verified(Frame, join.position)) -> next
               [] OTHER ->
                    IF equal = {} THEN [join EXCEPT !.phase = "Rollback", !.pop = FALSE]
                    ELSE [next EXCEPT !.current = equal]
    /\ UNCHANGED <<goal, matched>>

Accept ==
    /\ join.phase = "Ports"
    /\ join.position > Len(goal.heads[Frame.head].args)
    /\ join' = [join EXCEPT !.phase = "Select", !.occurrences[Frame.head] = join.candidate,
                            !.frames[Len(join.frames)].hit = join.current]
    /\ UNCHANGED <<goal, matched>>

(* The candidate of the frame is given up; an exhausted frame goes, and    *)
(* with it the candidate of the frame below.                               *)
Rollback ==
    /\ join.phase = "Rollback"
    /\ LET undone == [join EXCEPT !.bindings = Undone(Frame.before),
                                  !.trail = SubSeq(@, 1, Frame.before),
                                  !.occurrences[Frame.head] = 0]
       IN join' = IF ~join.pop THEN [undone EXCEPT !.phase = "Candidate"]
                  ELSE [undone EXCEPT !.frames = Front(@), !.pop = FALSE,
                                      !.phase = IF Len(join.frames) = 1 THEN "Done" ELSE @]
    /\ UNCHANGED <<goal, matched>>

(* Matches::discard_tick: the walk is given up, frame by frame.            *)
DiscardJoin ==
    /\ join.phase \notin {"Discard", "Discarded"}
    /\ join' = [join EXCEPT !.phase = "Discard", !.current = {}, !.trail = <<>>,
                            !.bindings = [s \in DOMAIN @ |-> 0],
                            !.occurrences = [h \in DOMAIN @ |-> 0]]
    /\ UNCHANGED <<goal, matched>>

DiscardSource ==
    /\ join.phase = "Discard"
    /\ join' = IF join.frames # <<>> THEN [join EXCEPT !.frames = Front(@)]
               ELSE [join EXCEPT !.phase = "Discarded"]
    /\ UNCHANGED <<goal, matched>>

MatchTick ==
    \/ Select \/ Found \/ NextRow \/ NextAlias \/ Exhausted
    \/ DistinctHeads \/ MatchPort \/ Accept \/ Rollback
    \/ DiscardSource

MatchNext == MatchTick \/ DiscardJoin

-----------------------------------------------------------------------------

(* The tuples of distinct occurrences of the relations of the heads, and   *)
(* the worlds where all of them live and every slot has one value.         *)
Tuples ==
    {t \in [DOMAIN goal.heads -> Occurrences] :
        /\ \A h, k \in DOMAIN t : h # k => t[h] # t[k]
        /\ \A h \in DOMAIN t : goal.facts[t[h]].rel = goal.heads[h].rel
        /\ goal.anchor # <<>> => t[goal.anchor[1]] = goal.anchor[2]}

PortsOf(s) == {<<h, p>> \in (DOMAIN goal.heads) \X (1 .. 3) :
                  p \in DOMAIN goal.heads[h].args /\ goal.heads[h].args[p] = s}

ValueAt(t, hp) == goal.facts[t[hp[1]]].args[hp[2]]

Fits(t) ==
    {w \in goal.scope :
        /\ \A h \in DOMAIN t : w \in goal.facts[t[h]].live
        /\ \A s \in Slots(goal) : \A a, b \in PortsOf(s) :
              goal.rep[w][ValueAt(t, a)] = goal.rep[w][ValueAt(t, b)]}

MatchesAreRight ==
    \A i \in DOMAIN matched :
        LET m == matched[i]
        IN /\ m.support # {}
           /\ m.occurrences \in Tuples
           /\ m.support \subseteq Fits(m.occurrences)
           /\ \A w \in m.support, s \in Slots(goal) : \A hp \in PortsOf(s) :
                 goal.rep[w][m.bindings[s]] = goal.rep[w][ValueAt(m.occurrences, hp)]
           /\ \A j \in DOMAIN matched :
                 i # j /\ matched[j].occurrences = m.occurrences
                    => matched[j].support \cap m.support = {}

(* The walk finds each match of the goal, in every world once, whatever    *)
(* indexes it reads and in whatever parts; and nothing else.               *)
MatchesAreExact ==
    /\ MatchesAreRight
    /\ join.phase = "Done" =>
          \A t \in Tuples : \A w \in Fits(t) :
             \E i \in DOMAIN matched : matched[i].occurrences = t /\ w \in matched[i].support
=============================================================================
