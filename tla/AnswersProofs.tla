---------------------------- MODULE AnswersProofs ----------------------------
(***************************************************************************)
(* The answers of the engine are normal forms (AnswersAreNormal).          *)
(*                                                                         *)
(* What EngineProofs knows of a behaviour is taken as it is.  Added is     *)
(*    Owed    a rule that is applicable in an active world is in the hands *)
(*            of a task that will come upon it: one that fills the heads   *)
(*            of a tuple from one of its occurrences, or a wake that will  *)
(*            look that occurrence up,                                     *)
(*    Typing  every variable spoken of exists, since a merge wakes only    *)
(*            what it can look up.                                         *)
(* Each action keeps both: a reader changes neither facts nor classes, and *)
(* may lay a search down only when its tuple does not match in the graph   *)
(* it read; what a commit makes applicable is owed to the activations and  *)
(* wakes it spawns; and a task that reads an older graph finds there what  *)
(* was applicable then, while what has become applicable since is in the   *)
(* hands of another.  A world is published when no task works in it, so    *)
(* then nothing is owed there; and its state does not change again.        *)
(***************************************************************************)
EXTENDS EngineProofs, FiniteSetTheorems

-----------------------------------------------------------------------------
(* What is owed.  A rule that is applicable in an active world is in the   *)
(* hands of a task: an activation or a wake that will search from one of   *)
(* its occurrences in a graph in which the tuple matches already, or a     *)
(* search that has found it.                                               *)

(* The bindings are of ports of the tuple.                                 *)
Binding(r, occs, env) ==
    \A h \in DOMAIN Heads(r) : \A p \in DOMAIN Heads(r)[h].args :
        \E q \in Ports(r, Heads(r)[h].args[p]) :
            env[Heads(r)[h].args[p]] = Facts[occs[q[1]]].args[q[2]]

(* The tuple matches in a graph that a task has kept.                      *)
Seen(g, r, occs, w) ==
    /\ \A h \in DOMAIN Heads(r) :
          /\ occs[h] \in DOMAIN g.facts
          /\ g.facts[occs[h]].rel = Heads(r)[h].rel
          /\ g.facts[occs[h]].args = Facts[occs[h]].args
          /\ w \in g.facts[occs[h]].live
    /\ \A s \in 1 .. Rules[r].bound : \A p, q \in Ports(r, s) :
          Same(g, Facts[occs[p[1]]].args[p[2]], Facts[occs[q[1]]].args[q[2]], w)

(* An empty Option is no match and no commit.                              *)
NoneApart == "occs" \notin DOMAIN None

Finds(m, r, occs, w) ==
    "occs" \in DOMAIN m /\ m.occs = occs /\ w \in m.cond /\ Binding(r, occs, m.vars)

Committed(k, r, occs, w) ==
    /\ "occs" \in DOMAIN k /\ k.occs = occs /\ w \in k.cond
    /\ k.phase \in {"Start", "Head"} => Binding(r, occs, k.env)

Carries(t, r, occs, w) ==
    \/ /\ t.kind = "Activate"
       /\ w \in t.cond /\ Seen(t.graph, r, occs, w)
       /\ \E h \in DOMAIN Heads(r) : <<r, h>> \in t.triggers /\ occs[h] = t.occ
    \/ /\ t.kind = "Wake"
       /\ Seen(t.graph, r, occs, w)
       /\ \E f \in t.found : \E h \in DOMAIN Heads(r) :
             occs[h] = f.occ /\ w \in f.cond /\ MergeHead(r, h)
    \/ /\ t.kind = "Search" /\ t.rule = r
       /\ \/ \E m \in t.found : Finds(m, r, occs, w)
          \/ t.candidate # None /\ Finds(t.candidate, r, occs, w)
          \/ t.commit # None /\ Committed(t.commit, r, occs, w)

Tuples(r) == [DOMAIN Heads(r) -> DOMAIN Facts]

Owed ==
    \A w \in active : \A r \in RuleId : \A occs \in Tuples(r) :
        Applicable(state, r, occs, w) => \E t \in Tasks : Carries(t, r, occs, w)

-----------------------------------------------------------------------------
(* Nobody who carries a match is forgotten.                                *)

SameArgs ==
    /\ DOMAIN Facts \subseteq DOMAIN Facts'
    /\ \A o \in DOMAIN Facts : Facts'[o].args = Facts[o].args

(* The program is the same for ever.                                       *)
LEMMA ProgramStays ==
    ASSUME program' = program
    PROVE  /\ RuleId' = RuleId /\ Rules' = Rules
           /\ \A r : Heads(r)' = Heads(r) /\ (Pure(r)' <=> Pure(r))
           /\ \A r, s : Ports(r, s)' = Ports(r, s)
           /\ \A r, h : MergeHead(r, h)' <=> MergeHead(r, h)
           /\ \A r, occs, w : Applicable(state, r, occs, w)' <=> Applicable(state', r, occs, w)
<1>1. /\ RuleId' = RuleId /\ Rules' = Rules
      /\ \A r : Heads(r)' = Heads(r) /\ (Pure(r)' <=> Pure(r))
    BY DEF RuleId, Rules, Heads, Pure
<1>2. \A r, s : Ports(r, s)' = Ports(r, s)
    BY <1>1 DEF Ports
<1>3. \A r, h : MergeHead(r, h)' <=> MergeHead(r, h)
    BY <1>1, <1>2 DEF MergeHead, Slots
<1>4. ASSUME NEW r, NEW occs, NEW w
      PROVE  Applicable(state, r, occs, w)' <=> Applicable(state', r, occs, w)
  <2>1. /\ Heads(r)' = Heads(r) /\ Rules'[r].bound = Rules[r].bound
        /\ Pure(r)' <=> Pure(r)
        /\ \A s : Ports(r, s)' = Ports(r, s)
    BY <1>1, <1>2
  <2>2. QED
    BY <2>1 DEF Applicable
<1>5. QED
    BY <1>1, <1>2, <1>3, <1>4

(* Facts keep their arguments, so bindings stay.                           *)
LEMMA BindingStays ==
    ASSUME program' = program, SameArgs, NEW r, NEW occs \in Tuples(r), NEW env,
           Binding(r, occs, env)
    PROVE  Binding(r, occs, env)'
<1>1. Heads(r)' = Heads(r) /\ \A s : Ports(r, s)' = Ports(r, s)
    BY ProgramStays
<1>2. ASSUME NEW h \in DOMAIN Heads(r), NEW p \in DOMAIN Heads(r)[h].args
      PROVE  \E q \in Ports(r, Heads(r)[h].args[p]) :
                env[Heads(r)[h].args[p]] = Facts'[occs[q[1]]].args[q[2]]
  <2>1. PICK q \in Ports(r, Heads(r)[h].args[p]) :
           env[Heads(r)[h].args[p]] = Facts[occs[q[1]]].args[q[2]]
    BY DEF Binding
  <2>2. q[1] \in DOMAIN Heads(r)
    BY DEF Ports
  <2>3. Facts'[occs[q[1]]].args = Facts[occs[q[1]]].args
    BY <2>2 DEF SameArgs, Tuples
  <2>4. QED
    BY <2>1, <2>3
<1>3. QED
    BY <1>1, <1>2 DEF Binding

(* What a task has seen, it has seen.                                      *)
LEMMA SeenStays ==
    ASSUME program' = program, SameArgs, NEW g, NEW r, NEW occs \in Tuples(r), NEW w,
           Seen(g, r, occs, w)
    PROVE  Seen(g, r, occs, w)'
<1>1. Heads(r)' = Heads(r) /\ Rules' = Rules /\ \A s : Ports(r, s)' = Ports(r, s)
    BY ProgramStays
<1>2. \A h \in DOMAIN Heads(r) : Facts'[occs[h]].args = Facts[occs[h]].args
    BY DEF SameArgs, Tuples
<1>3. \A h \in DOMAIN Heads(r) :
          /\ occs[h] \in DOMAIN g.facts
          /\ g.facts[occs[h]].rel = Heads(r)[h].rel
          /\ g.facts[occs[h]].args = Facts'[occs[h]].args
          /\ w \in g.facts[occs[h]].live
    BY <1>2 DEF Seen
<1>4. ASSUME NEW s \in 1 .. Rules[r].bound, NEW p \in Ports(r, s), NEW q \in Ports(r, s)
      PROVE  Same(g, Facts'[occs[p[1]]].args[p[2]], Facts'[occs[q[1]]].args[q[2]], w)
  <2>1. p[1] \in DOMAIN Heads(r) /\ q[1] \in DOMAIN Heads(r)
    BY DEF Ports
  <2>2. Same(g, Facts[occs[p[1]]].args[p[2]], Facts[occs[q[1]]].args[q[2]], w)
    BY DEF Seen
  <2>3. QED
    BY <1>2, <2>1, <2>2
<1>5. QED
    BY <1>1, <1>3, <1>4 DEF Seen

(* A task that is left alone carries on what it carries.                   *)
LEMMA CarriesStays ==
    ASSUME program' = program, SameArgs, NEW t, NEW r \in RuleId, NEW occs \in Tuples(r), NEW w,
           Carries(t, r, occs, w)
    PROVE  Carries(t, r, occs, w)'
<1>1. /\ Heads(r)' = Heads(r)
      /\ \A h : MergeHead(r, h)' <=> MergeHead(r, h)
    BY ProgramStays
<1>2. Seen(t.graph, r, occs, w) => Seen(t.graph, r, occs, w)'
    BY SeenStays
<1>3. \A env : Binding(r, occs, env) => Binding(r, occs, env)'
    BY BindingStays
<1>4. \A m : Finds(m, r, occs, w) => Finds(m, r, occs, w)'
    BY <1>3 DEF Finds
<1>5. Committed(t.commit, r, occs, w) => Committed(t.commit, r, occs, w)'
    BY <1>3 DEF Committed
<1>6. QED
    BY <1>1, <1>2, <1>4, <1>5 DEF Carries

(* The tasks that were not dispatched are still there.                     *)
OthersStay == Tasks \ {current} \subseteq Tasks'

(* What is applicable was so and is carried by one who stays, or somebody  *)
(* else takes it.                                                          *)
LEMMA OwedKeeps ==
    ASSUME Owed, program' = program, active' \subseteq active, SameArgs, NEW gone,
           Tasks \ gone \subseteq Tasks',
           \A w \in active' : \A r \in RuleId : \A occs \in [DOMAIN Heads(r) -> DOMAIN Facts'] :
              Applicable(state', r, occs, w) =>
                 \/ \E u \in Tasks' : Carries(u, r, occs, w)'
                 \/ /\ occs \in Tuples(r) /\ Applicable(state, r, occs, w)
                    /\ \A t \in gone : Carries(t, r, occs, w)
                                          => \E u \in Tasks' : Carries(u, r, occs, w)'
    PROVE  Owed'
<1>1. RuleId' = RuleId /\ \A r : Heads(r)' = Heads(r)
    BY ProgramStays
<1>2. ASSUME NEW w \in active', NEW r \in RuleId, NEW occs \in [DOMAIN Heads(r) -> DOMAIN Facts'],
             Applicable(state', r, occs, w)
      PROVE  \E u \in Tasks' : Carries(u, r, occs, w)'
  <2>1. CASE \E u \in Tasks' : Carries(u, r, occs, w)'
    BY <2>1
  <2>2. CASE /\ occs \in Tuples(r) /\ Applicable(state, r, occs, w)
             /\ \A t \in gone : Carries(t, r, occs, w)
                                   => \E u \in Tasks' : Carries(u, r, occs, w)'
    <3>1. w \in active
      OBVIOUS
    <3>2. PICK t \in Tasks : Carries(t, r, occs, w)
      BY <2>2, <3>1 DEF Owed
    <3>3. CASE t \in gone
      BY <2>2, <3>2, <3>3
    <3>4. CASE t \notin gone
      <4>1. Carries(t, r, occs, w)'
        BY <2>2, <3>2, CarriesStays
      <4>2. t \in Tasks'
        BY <3>4
      <4>3. QED
        BY <4>1, <4>2
    <3>5. QED
      BY <3>3, <3>4
  <2>3. QED
    BY <1>2, <2>1, <2>2
<1>3. \A r : Tuples(r)' = [DOMAIN Heads(r) -> DOMAIN Facts']
    BY <1>1 DEF Tuples
<1>4. \A r, occs, w : Applicable(state, r, occs, w)' => Applicable(state', r, occs, w)
    BY ProgramStays
<1>5. QED
    BY <1>1, <1>2, <1>3, <1>4 DEF Owed

(* The same for a step that leaves the state alone.                        *)
LEMMA QuietOwed ==
    ASSUME Owed, UNCHANGED <<program, state>>, active' \subseteq active, NEW gone,
           Tasks \ gone \subseteq Tasks',
           \A w \in active : \A r \in RuleId : \A occs \in Tuples(r) : \A t \in gone :
              Applicable(state, r, occs, w) /\ Carries(t, r, occs, w)
                 => \E u \in Tasks' : Carries(u, r, occs, w)
    PROVE  Owed'
<1>1. Facts' = Facts /\ SameArgs
    BY DEF Facts, SameArgs
<1>2. ASSUME NEW w \in active', NEW r \in RuleId, NEW occs \in [DOMAIN Heads(r) -> DOMAIN Facts'],
             Applicable(state', r, occs, w)
      PROVE  /\ occs \in Tuples(r) /\ Applicable(state, r, occs, w)
             /\ \A t \in gone : Carries(t, r, occs, w)
                                   => \E u \in Tasks' : Carries(u, r, occs, w)'
  <2>1. occs \in Tuples(r) /\ Applicable(state, r, occs, w) /\ w \in active
    BY <1>1, <1>2 DEF Tuples
  <2>2. ASSUME NEW t \in gone, Carries(t, r, occs, w)
        PROVE  \E u \in Tasks' : Carries(u, r, occs, w)'
    <3>1. PICK u \in Tasks' : Carries(u, r, occs, w)
      BY <2>1, <2>2
    <3>2. Carries(u, r, occs, w)'
      BY <1>1, <2>1, <3>1, CarriesStays
    <3>3. QED
      BY <3>2
  <2>3. QED
    BY <2>1, <2>2
<1>3. QED
    BY <1>1, <1>2, OwedKeeps

(* At most one task is spawned.                                            *)
LEMMA SpawnedIs ==
    ASSUME NEW scope, NEW task
    PROVE  IsSeq(Spawned(scope, task))
<1>1. PICK k : k = [task EXCEPT !.id = next.task, !.scope = scope]
    OBVIOUS
<1>2. Spawned(scope, task) = <<>> \/ Spawned(scope, task) = <<k>>
    BY <1>1 DEF Spawned
<1>3. QED
    BY <1>2, EmptyIs, OneIs

(* Where the others are after a step that keeps the queue's tail.          *)
LEMMA RemainsStay ==
    ASSUME Here, queue # <<>>, Elems(Tail(queue)) \subseteq Elems(queue'),
           \A t \in Elems(waiting) : t.id = Completion \/ t \in Elems(queue') \cup Elems(waiting')
    PROVE  OthersStay /\ Elems(queue') \subseteq Tasks'
<1>1. Elems(queue) = {current} \cup Elems(Tail(queue))
    BY FrontIs DEF Here
<1>2. QED
    BY <1>1 DEF OthersStay, Tasks

(* The task goes back to the queue.                                        *)
LEMMA ReturnStays ==
    ASSUME Here, queue # <<>>, NEW kids, IsSeq(kids), NEW task,
           Requeue(task, kids) \/ RequeueReleasing(task, kids)
    PROVE  OthersStay /\ Elems(kids) \subseteq Tasks' /\ task \in Tasks'
<1>1. IsSeq(Tail(queue)) /\ IsSeq(waiting) /\ queued \in BOOLEAN
    BY FrontIs DEF Here, Structure
<1>2. PICK front, back : front = Tail(queue) \o kids /\ back = <<task>>
    OBVIOUS
<1>3. /\ IsSeq(front) /\ Elems(front) = Elems(Tail(queue)) \cup Elems(kids)
      /\ IsSeq(back) /\ Elems(back) = {task}
    BY <1>1, <1>2, CatIs, OneIs
<1>4. /\ Elems(front) \cup Elems(back) \subseteq Elems(queue')
      /\ \A t \in Elems(waiting) : t.id = Completion \/ t \in Elems(queue') \cup Elems(waiting')
  <2>1. CASE Requeue(task, kids)
    <3>1. queue' = front \o back /\ waiting' = waiting
      BY <1>2, <2>1 DEF Requeue, laneVars
    <3>2. QED
      BY <1>3, <3>1, CatIs
  <2>2. CASE RequeueReleasing(task, kids)
    <3>1. ReleaseLane(front, back)
      BY <1>2, <2>2 DEF RequeueReleasing
    <3>2. QED
      BY ONLY <1>1, <1>3, <3>1, ReleaseRemains
  <2>3. QED
    BY <2>1, <2>2
<1>5. OthersStay /\ Elems(queue') \subseteq Tasks'
    BY <1>3, <1>4, RemainsStay
<1>6. QED
    BY <1>3, <1>4, <1>5

(* The task is done.                                                       *)
LEMMA FinishStays ==
    ASSUME Here, queue # <<>>, NEW kids, IsSeq(kids), Finish(kids)
    PROVE  OthersStay /\ Elems(kids) \subseteq Tasks'
<1>1. IsSeq(Tail(queue)) /\ IsSeq(waiting) /\ queued \in BOOLEAN
    BY FrontIs DEF Here, Structure
<1>2. PICK front, back : front = Tail(queue) \o kids /\ back = <<>>
    OBVIOUS
<1>3. /\ IsSeq(front) /\ Elems(front) = Elems(Tail(queue)) \cup Elems(kids)
      /\ IsSeq(back)
    BY <1>1, <1>2, CatIs, EmptyIs
<1>4. /\ Elems(front) \subseteq Elems(queue')
      /\ \A t \in Elems(waiting) : t.id = Completion \/ t \in Elems(queue') \cup Elems(waiting')
  <2>1. CASE lane = current.id
    <3>1. ReleaseLane(front, back)
      BY <1>2, <2>1 DEF Finish
    <3>2. QED
      BY ONLY <1>1, <1>3, <3>1, ReleaseRemains
  <2>2. CASE lane # current.id
    BY <1>2, <2>2 DEF Finish, laneVars
  <2>3. QED
    BY <2>1, <2>2
<1>5. OthersStay /\ Elems(queue') \subseteq Tasks'
    BY <1>3, <1>4, RemainsStay
<1>6. QED
    BY <1>3, <1>4, <1>5

(* The task gets the lane, or waits for it.                                *)
LEMMA AcquireStays ==
    ASSUME Here, queue # <<>>, NEW task, AcquireAndRequeue(task)
    PROVE  OthersStay /\ (task \in Tasks' \/ current \in Tasks')
<1>1. IsSeq(Tail(queue)) /\ IsSeq(waiting) /\ current.id # Completion
    BY FrontIs, TaskIds DEF Here, Structure
<1>2. CASE MayAcquire(current.id)
  <2>1. queue' = Append(Tail(queue), task) /\ waiting' = waiting
    BY <1>2 DEF AcquireAndRequeue
  <2>2. Elems(queue') = Elems(Tail(queue)) \cup {task}
    <3>1. queue' = Tail(queue) \o <<task>> /\ IsSeq(<<task>>) /\ Elems(<<task>>) = {task}
      BY <1>1, <2>1, AppendIs, OneIs
    <3>2. QED
      BY <1>1, <3>1, CatIs
  <2>3. OthersStay /\ Elems(queue') \subseteq Tasks'
    BY <2>1, <2>2, RemainsStay
  <2>4. QED
    BY <2>2, <2>3
<1>3. CASE ~MayAcquire(current.id)
  <2>1. waiting' = Append(waiting, current) /\ queue' = Tail(queue)
    BY <1>3 DEF AcquireAndRequeue
  <2>2. PICK one : one = <<current>>
    OBVIOUS
  <2>3. waiting' = waiting \o one /\ IsSeq(one) /\ Elems(one) = {current}
    BY <1>1, <2>1, <2>2, AppendIs, OneIs
  <2>4. Elems(waiting') = Elems(waiting) \cup {current}
    BY <1>1, <2>3, CatIs
  <2>5. OthersStay
    BY <2>1, <2>4, RemainsStay
  <2>6. current \in Tasks'
    BY <1>1, <2>4 DEF Tasks
  <2>7. QED
    BY <2>5, <2>6
<1>4. QED
    BY <1>2, <1>3

(* One fresh variable is allocated.                                        *)
LEMMA VariableStays ==
    ASSUME Here, queue # <<>>, NEW task, queue' = Append(Tail(queue), task), UNCHANGED laneVars
    PROVE  OthersStay /\ task \in Tasks'
<1>1. IsSeq(Tail(queue)) /\ waiting' = waiting
    BY FrontIs DEF Here, laneVars
<1>2. Elems(queue') = Elems(Tail(queue)) \cup {task}
  <2>1. queue' = Tail(queue) \o <<task>> /\ IsSeq(<<task>>) /\ Elems(<<task>>) = {task}
    BY <1>1, AppendIs, OneIs
  <2>2. QED
    BY <1>1, <2>1, CatIs
<1>3. OthersStay /\ Elems(queue') \subseteq Tasks'
    BY <1>1, <1>2, RemainsStay
<1>4. QED
    BY <1>2, <1>3

-----------------------------------------------------------------------------
(* Bodies carry nothing.                                                   *)

(* A step of a task that carries nothing, without a change of the state.   *)
LEMMA FreeOwed ==
    ASSUME Owed, UNCHANGED <<program, state>>, active' \subseteq active, OthersStay,
           \A r, occs, w : ~Carries(current, r, occs, w)
    PROVE  Owed'
<1>1. PICK gone : gone = {current}
    OBVIOUS
<1>2. Tasks \ gone \subseteq Tasks'
    BY <1>1 DEF OthersStay
<1>3. QED
    BY <1>1, <1>2, QuietOwed

(* Bodies carry nothing.                                                   *)
LEMMA BodyOwed ==
    ASSUME Owed, UNCHANGED <<program, state>>, active' \subseteq active, OthersStay,
           current.kind \in {"Init", "Body"}
    PROVE  Owed'
<1>1. \A r, occs, w : ~Carries(current, r, occs, w)
    BY DEF Carries
<1>2. QED
    BY <1>1, FreeOwed

(* The query's variables, and its body.                                    *)
LEMMA InitTickOwed ==
    ASSUME Here, Owed, program' = program, InitTick
    PROVE  Owed'
<1>1. Quiet /\ queue # <<>> /\ current.kind = "Init"
    BY OwnIs DEF InitTick
<1>2. OthersStay
  <2>1. CASE Len(current.env) < QueryVars
    BY <1>1, <2>1, VariableStays DEF InitTick
  <2>2. CASE ~(Len(current.env) < QueryVars)
    BY <1>1, <2>2, FinishStays, SpawnedIs DEF InitTick
  <2>3. QED
    BY <2>1, <2>2
<1>3. QED
    BY <1>1, <1>2, BodyOwed DEF Quiet

(* Every phase of a body leaves the other tasks alone.                     *)
LEMMA BodyStays ==
    ASSUME Here, BodyTick
    PROVE  OthersStay /\ queue # <<>> /\ current.kind = "Body"
<1>1. queue # <<>> /\ current.kind = "Body"
    BY TaskService DEF BodyTick, BodyEmpty, BodyDispatch, BodyArguments, BodyExpand, BodyAcquire,
       BodyFilter, BodyApply, BodyPost, BodyMerge, BodyFail, BodyChoice, BodyLeft, BodyRight,
       BodyOwn, BodyIn, Own, Dispatch, current
<1>2. IsSeq(<<>>)
    BY EmptyIs
<1>3. /\ \A kids, task : IsSeq(kids) /\ Requeue(task, kids) => OthersStay
      /\ \A kids : IsSeq(kids) /\ Finish(kids) => OthersStay
    BY <1>1, ReturnStays, FinishStays
<1>4. CASE BodyEmpty
    BY <1>1, <1>2, <1>3, <1>4 DEF BodyEmpty
<1>5. CASE BodyDispatch
    BY <1>1, <1>2, <1>3, <1>5 DEF BodyDispatch
<1>6. CASE BodyArguments
    BY <1>1, <1>2, <1>3, <1>6 DEF BodyArguments
<1>7. CASE BodyExpand
    BY <1>1, <1>2, <1>3, <1>7, SpawnedIs DEF BodyExpand
<1>8. CASE BodyAcquire
    BY <1>1, <1>8, AcquireStays DEF BodyAcquire
<1>9. CASE BodyFilter
    BY <1>1, <1>2, <1>3, <1>9 DEF BodyFilter
<1>10. CASE BodyApply
    BY <1>1, <1>2, <1>3, <1>10 DEF BodyApply
<1>11. CASE BodyPost
    BY <1>1, <1>3, <1>11, SpawnedIs DEF BodyPost
<1>12. CASE BodyMerge
    BY <1>1, <1>3, <1>12, SpawnedIs DEF BodyMerge
<1>13. CASE BodyFail
    BY <1>1, <1>2, <1>3, <1>13 DEF BodyFail
<1>14. CASE BodyChoice
    BY <1>1, <1>2, <1>3, <1>14, SpawnedIs DEF BodyChoice
<1>15. CASE BodyLeft
    BY <1>1, <1>3, <1>15, SpawnedIs DEF BodyLeft
<1>16. CASE BodyRight
    BY <1>1, <1>3, <1>16, SpawnedIs DEF BodyRight
<1>17. QED
    BY <1>1, <1>4, <1>5, <1>6, <1>7, <1>8, <1>9, <1>10, <1>11, <1>12, <1>13, <1>14, <1>15, <1>16
       DEF BodyTick

(* A body that fails takes its worlds out of `active'; the others change   *)
(* nothing, but those that post or merge.                                  *)
LEMMA BodyTickOwed ==
    ASSUME Here, Owed, program' = program, BodyTick, ~BodyPost, ~BodyMerge
    PROVE  Owed'
<1>1. OthersStay /\ queue # <<>> /\ current.kind = "Body"
    BY BodyStays
<1>2. CASE BodyFail
  <2>1. /\ current.phase = "Fail" /\ state' = state /\ active' = current.act \ current.cond
    BY <1>2 DEF BodyFail, BodyIn, b
  <2>2. Owning(current)
    BY <1>1, <2>1 DEF Owning
  <2>3. current.act = active
    BY <1>1, <2>1, <2>2, CurrentIs DEF Held
  <2>4. QED
    BY <1>1, <2>1, <2>3, BodyOwed
<1>3. CASE ~BodyFail
  <2>1. UNCHANGED <<state, active>>
    BY <1>3 DEF BodyTick, BodyEmpty, BodyDispatch, BodyArguments, BodyExpand, BodyAcquire,
       BodyFilter, BodyApply, BodyChoice, BodyLeft, BodyRight, BodyOwn, Own, others
  <2>2. QED
    BY <1>1, <2>1, BodyOwed
<1>4. QED
    BY <1>2, <1>3

-----------------------------------------------------------------------------
(* The readers.                                                            *)

(* The slots of a rule's heads are numbered, and so are its ports.         *)
LEMMA PortsAre ==
    ASSUME program \in Programs, NEW r \in RuleId
    PROVE  /\ DOMAIN Heads(r) \subseteq Nat
           /\ \A h \in DOMAIN Heads(r) :
                 /\ Heads(r)[h] \in Atoms(program)
                 /\ DOMAIN Heads(r)[h].args \subseteq Nat
                 /\ \A p \in DOMAIN Heads(r)[h].args :
                       /\ Heads(r)[h].args[p] \in 1 .. Rules[r].bound
                       /\ <<h, p>> \in Ports(r, Heads(r)[h].args[p])
           /\ \A s : \A q \in Ports(r, s) :
                 /\ q[1] \in DOMAIN Heads(r) /\ q[2] \in DOMAIN Heads(r)[q[1]].args
                 /\ Heads(r)[q[1]].args[q[2]] = s
<1>1. DOMAIN Heads(r) \subseteq Nat /\ Heads(r) \in Seq(Atoms(program))
    BY RulesAre
<1>2. ASSUME NEW h \in DOMAIN Heads(r)
      PROVE  /\ Heads(r)[h] \in Atoms(program)
             /\ Heads(r)[h].args \in Seq(1 .. Rules[r].bound)
    BY <1>1, ProgramsArePrepared DEF RuleId, Rules, Heads
<1>3. ASSUME NEW h \in DOMAIN Heads(r)
      PROVE  /\ DOMAIN Heads(r)[h].args \subseteq Nat
             /\ \A p \in DOMAIN Heads(r)[h].args : Heads(r)[h].args[p] \in 1 .. Rules[r].bound
  <2>1. PICK args, S : args = Heads(r)[h].args /\ S = 1 .. Rules[r].bound
    OBVIOUS
  <2>2. args \in Seq(S)
    BY <1>2, <2>1
  <2>3. DOMAIN args \subseteq Nat /\ \A p \in DOMAIN args : args[p] \in S
    BY ONLY <2>2
  <2>4. QED
    BY <2>1, <2>3
<1>4. ASSUME NEW h \in DOMAIN Heads(r), NEW p \in DOMAIN Heads(r)[h].args
      PROVE  <<h, p>> \in Ports(r, Heads(r)[h].args[p])
    BY DEF Ports
<1>5. \A s : \A q \in Ports(r, s) :
         /\ q[1] \in DOMAIN Heads(r) /\ q[2] \in DOMAIN Heads(r)[q[1]].args
         /\ Heads(r)[q[1]].args[q[2]] = s
    BY DEF Ports
<1>6. QED
    BY <1>1, <1>2, <1>3, <1>4, <1>5

(* The occurrences of a tuple have the arguments of its heads.             *)
LEMMA AritiesAre ==
    ASSUME program \in Programs, Graphs, NEW r \in RuleId, NEW h \in DOMAIN Heads(r),
           NEW o \in DOMAIN Facts, Facts[o].rel = Heads(r)[h].rel
    PROVE  DOMAIN Facts[o].args = DOMAIN Heads(r)[h].args
<1>1. PICK a \in Atoms(program) : a.rel = Facts[o].rel /\ DOMAIN a.args = DOMAIN Facts[o].args
    BY DEF Graphs
<1>2. Heads(r)[h] \in Atoms(program)
    BY PortsAre
<1>3. QED
    BY <1>1, <1>2, ProgramsArePrepared

(* A slot that occurs is read somewhere first.                             *)
LEMMA FirstPortIs ==
    ASSUME program \in Programs, NEW r \in RuleId, NEW s, Ports(r, s) # {}, NEW anchor
    PROVE  \E q \in Ports(r, s) : \A z \in Ports(r, s) :
              \/ q[1] = z[1] /\ q[2] <= z[2]
              \/ q[1] # z[1] /\ (q[1] = anchor \/ (z[1] # anchor /\ q[1] < z[1]))
<1>1. \A q \in Ports(r, s) : q[1] \in Nat /\ q[2] \in Nat
    BY PortsAre
<1>2. PICK h \in {q[1] : q \in Ports(r, s)} :
         \A z \in Ports(r, s) : h = z[1] \/ h = anchor \/ (z[1] # anchor /\ h < z[1])
  <2>1. CASE \E z \in Ports(r, s) : z[1] = anchor
    BY <2>1
  <2>2. CASE \A z \in Ports(r, s) : z[1] # anchor
    <3> DEFINE S == {q[1] : q \in Ports(r, s)}
    <3>1. S \in SUBSET Nat /\ S # {}
      BY <1>1
    <3>2. PICK k \in S : \A j \in S : k <= j
      BY <3>1, LeastNatural
    <3>3. \A z \in Ports(r, s) : k <= z[1] /\ k \in Nat /\ z[1] \in Nat
      BY <1>1, <3>1, <3>2
    <3>4. QED
      BY <2>2, <3>2, <3>3
  <2>3. QED
    BY <2>1, <2>2
<1> DEFINE P == {q[2] : q \in {z \in Ports(r, s) : z[1] = h}}
<1>3. P \in SUBSET Nat /\ P # {}
    BY <1>1, <1>2
<1>4. PICK p \in P : \A j \in P : p <= j
    BY <1>3, LeastNatural
<1>5. PICK q \in Ports(r, s) : q[1] = h /\ q[2] = p
    BY <1>4
<1>6. \A z \in Ports(r, s) : z[1] = h => q[2] <= z[2]
    BY <1>4, <1>5
<1>7. QED
    BY <1>2, <1>5, <1>6

(* The bindings of a match are those of its tuple.                         *)
LEMMA BindingsAre ==
    ASSUME program \in Programs, NEW g, NEW r \in RuleId, NEW anchor, NEW occs, NEW w,
           Seen(g, r, occs, w)
    PROVE  /\ Binding(r, occs, Bindings(g, r, anchor, occs))
           /\ \A h \in DOMAIN Heads(r) : \A p \in DOMAIN Heads(r)[h].args :
                 Same(g, Facts[occs[h]].args[p],
                         Bindings(g, r, anchor, occs)[Heads(r)[h].args[p]], w)
<1>1. PICK env : env = Bindings(g, r, anchor, occs)
    OBVIOUS
<1>2. ASSUME NEW h \in DOMAIN Heads(r), NEW p \in DOMAIN Heads(r)[h].args
      PROVE  \E q \in Ports(r, Heads(r)[h].args[p]) :
                env[Heads(r)[h].args[p]] = Facts[occs[q[1]]].args[q[2]]
  <2>1. PICK s : s = Heads(r)[h].args[p]
    OBVIOUS
  <2>2. s \in 1 .. Rules[r].bound /\ <<h, p>> \in Ports(r, s)
    BY <2>1, PortsAre
  <2> DEFINE before(q, z) ==
                \/ q[1] = z[1] /\ q[2] <= z[2]
                \/ q[1] # z[1] /\ (q[1] = anchor \/ (z[1] # anchor /\ q[1] < z[1]))
             first == CHOOSE q \in Ports(r, s) : \A z \in Ports(r, s) : before(q, z)
  <2>3. first \in Ports(r, s)
    BY <2>2, FirstPortIs
  <2>4. env[s] = g.facts[occs[first[1]]].args[first[2]]
    BY <1>1, <2>2 DEF Bindings
  <2>5. first[1] \in DOMAIN Heads(r)
    BY <2>3, PortsAre
  <2>6. g.facts[occs[first[1]]].args = Facts[occs[first[1]]].args
    BY <2>5 DEF Seen
  <2>7. env[s] = Facts[occs[first[1]]].args[first[2]]
    BY <2>4, <2>6
  <2>8. QED
    BY <2>1, <2>3, <2>7
<1>3. ASSUME NEW h \in DOMAIN Heads(r), NEW p \in DOMAIN Heads(r)[h].args
      PROVE  Same(g, Facts[occs[h]].args[p], env[Heads(r)[h].args[p]], w)
  <2>1. PICK s : s = Heads(r)[h].args[p]
    OBVIOUS
  <2>2. s \in 1 .. Rules[r].bound /\ <<h, p>> \in Ports(r, s)
    BY <2>1, PortsAre
  <2>3. PICK q \in Ports(r, s) : env[s] = Facts[occs[q[1]]].args[q[2]]
    BY <1>2, <2>1
  <2>4. \A x, y \in Ports(r, s) :
           Same(g, Facts[occs[x[1]]].args[x[2]], Facts[occs[y[1]]].args[y[2]], w)
    BY <2>2 DEF Seen
  <2>5. PICK x : x = <<h, p>>
    OBVIOUS
  <2>8. x[1] = h /\ x[2] = p
    BY <2>5
  <2>6. Same(g, Facts[occs[x[1]]].args[x[2]], Facts[occs[q[1]]].args[q[2]], w)
    BY <2>2, <2>4, <2>5
  <2>7. QED
    BY <2>1, <2>3, <2>8, <2>6
<1>4. QED
    BY <1>1, <1>2, <1>3 DEF Binding

(* A search from an occurrence of a tuple that is seen finds the tuple.    *)
LEMMA DiscoveredFinds ==
    ASSUME program \in Programs, Graphs, NEW g, NEW r \in RuleId, NEW h \in DOMAIN Heads(r),
           NEW occs \in Tuples(r), NEW scope, NEW w \in scope, Seen(g, r, occs, w),
           Distinct(occs), \A k \in DOMAIN Heads(r) : Facts[occs[k]].rel = Heads(r)[k].rel
    PROVE  \E m \in Discovered(g, r, h, occs[h], scope) : Finds(m, r, occs, w)
<1>1. CASE DirectAnchor(r)
  <2>1. DOMAIN Heads(r) = {1} /\ h = 1 /\ Len(Heads(r)) = 1
    BY <1>1, RulesAre DEF DirectAnchor
  <2>2. occs = <<occs[1]>>
    BY <2>1 DEF Tuples
  <2>3. PICK m : m = [occs |-> <<occs[h]>>, vars |-> g.facts[occs[h]].args, cond |-> scope]
    OBVIOUS
  <2>4. m \in Discovered(g, r, h, occs[h], scope)
    BY <1>1, <2>3 DEF Discovered
  <2>5. m.vars = Facts[occs[1]].args
    BY <2>1, <2>3 DEF Seen
  <2>6. \A p \in DOMAIN Heads(r)[1].args : Heads(r)[1].args[p] = p
    BY <1>1, <2>1, ProgramsArePrepared DEF DirectAnchor, Heads, Rules, RuleId
  <2>7. ASSUME NEW p \in DOMAIN Heads(r)[1].args
        PROVE  \E q \in Ports(r, Heads(r)[1].args[p]) :
                  m.vars[Heads(r)[1].args[p]] = Facts[occs[q[1]]].args[q[2]]
    <3>1. PICK q : q = <<1, p>>
      OBVIOUS
    <3>2. q \in Ports(r, Heads(r)[1].args[p])
      BY <2>1, <3>1, PortsAre
    <3>3. q[1] = 1 /\ q[2] = p
      BY <3>1
    <3>4. QED
      BY <2>5, <2>6, <3>2, <3>3
  <2>8. Binding(r, occs, m.vars)
    BY <2>1, <2>7 DEF Binding
  <2>9. QED
    BY <2>1, <2>2, <2>3, <2>4, <2>8 DEF Finds
<1>2. CASE ~DirectAnchor(r)
  <2>1. PICK env : env = Bindings(g, r, h, occs)
    OBVIOUS
  <2>2. /\ Binding(r, occs, env)
        /\ \A k \in DOMAIN Heads(r) : \A p \in DOMAIN Heads(r)[k].args :
              Same(g, Facts[occs[k]].args[p], env[Heads(r)[k].args[p]], w)
    BY <2>1, BindingsAre
  <2>3. /\ DOMAIN occs = DOMAIN Heads(r)
        /\ occs \in [DOMAIN Heads(r) -> Occurrence(g)]
        /\ \A k \in DOMAIN occs : g.facts[occs[k]].rel = Heads(r)[k].rel
    BY DEF Tuples, Seen, Occurrence
  <2>4. ASSUME NEW k \in DOMAIN occs
        PROVE  w \in FitsHead(g, r, k, occs[k], env)
    <3>1. /\ occs[k] \in DOMAIN Facts /\ g.facts[occs[k]].args = Facts[occs[k]].args
          /\ w \in g.facts[occs[k]].live
      BY <2>3 DEF Tuples, Seen
    <3>2. DOMAIN Facts[occs[k]].args = DOMAIN Heads(r)[k].args
      BY <2>3, <3>1, AritiesAre
    <3>3. QED
      BY <2>2, <2>3, <3>1, <3>2 DEF FitsHead
  <2>5. PICK m : m = [occs |-> occs, vars |-> env,
                      cond |-> {v \in scope :
                                  \A k \in DOMAIN occs : v \in FitsHead(g, r, k, occs[k], env)}]
    OBVIOUS
  <2>6. m.occs = occs /\ m.vars = env /\ w \in m.cond /\ "occs" \in DOMAIN m
    BY <2>4, <2>5
  <2>7. m \in Matches(g, r, h, occs[h], scope)
    BY <2>1, <2>3, <2>5, <2>6 DEF Matches
  <2>8. m \in Discovered(g, r, h, occs[h], scope)
    BY <1>2, <2>7 DEF Discovered
  <2>9. QED
    BY <2>2, <2>6, <2>8 DEF Finds
<1>3. QED
    BY <1>1, <1>2

(* An activation searches from its occurrence, for every trigger.          *)
LEMMA ActivateTickOwed ==
    ASSUME There, Owed, program' = program, ActivateTick
    PROVE  Owed'
<1>1. Quiet /\ queue # <<>> /\ current.kind = "Activate"
    BY OwnIs DEF ActivateTick
<1>2. Here /\ current.scope # {} /\ program \in Programs /\ Graphs
    BY <1>1, CurrentWorks DEF Working, Here, Structure, Knowledge
<1>3. /\ DOMAIN current = ActivateFields
      /\ TriggersFit(current.triggers, current.graph.facts[current.occ].rel)
    BY <1>1, <1>2, CurrentIs DEF Shaped, Static, TriggersFit
<1>4. CASE current.triggers = {}
  <2>1. \A r, occs, w : ~Carries(current, r, occs, w)
    BY <1>1, <1>4 DEF Carries
  <2>2. Finish(<<>>)
    BY <1>4 DEF ActivateTick
  <2>3. OthersStay
    BY <1>1, <1>2, <2>2, EmptyIs, FinishStays
  <2>4. QED
    BY <1>1, <2>1, <2>3, FreeOwed DEF Quiet
<1>5. CASE current.triggers # {}
  <2>1. PICK x : x = FirstTrigger(current.triggers)
    OBVIOUS
  <2>2. \A y \in current.triggers : y[1] \in Nat /\ y[2] \in Nat
    BY <1>2, <1>3, RulesAre DEF TriggersFit
  <2>3. x \in current.triggers
    BY <1>5, <2>1, <2>2, FirstTriggerIs
  <2>4. PICK task, kid, kids, found :
           /\ task = [current EXCEPT !.triggers = @ \ {x}]
           /\ found = Discovered(current.graph, x[1], x[2], current.occ, current.cond)
           /\ kid = [Search(x[1], found) EXCEPT !.id = next.task, !.scope = current.scope]
           /\ kids = <<kid>>
    OBVIOUS
  <2>5. Requeue(task, kids)
    BY <1>2, <1>5, <2>1, <2>4 DEF ActivateTick, Spawned
  <2>6. /\ kid.kind = "Search" /\ kid.rule = x[1] /\ kid.found = found
    BY <2>4 DEF Search
  <2>7. /\ task.kind = "Activate" /\ task.graph = current.graph /\ task.occ = current.occ
        /\ task.triggers = current.triggers \ {x} /\ task.cond = current.cond
    BY <1>1, <1>3, <2>4 DEF ActivateFields
  <2>8. IsSeq(kids) /\ kid \in Elems(kids)
    BY <2>4, OneIs
  <2>9. OthersStay /\ kid \in Tasks' /\ task \in Tasks'
    BY <1>1, <1>2, <2>5, <2>8, ReturnStays
  <2>10. ASSUME NEW w \in active, NEW r \in RuleId, NEW occs \in Tuples(r),
                Applicable(state, r, occs, w), Carries(current, r, occs, w)
         PROVE  \E u \in Tasks' : Carries(u, r, occs, w)
    <3>1. /\ w \in current.cond /\ Seen(current.graph, r, occs, w)
          /\ \E h \in DOMAIN Heads(r) : <<r, h>> \in current.triggers /\ occs[h] = current.occ
      BY <1>1, <2>10 DEF Carries
    <3>2. PICK h \in DOMAIN Heads(r) : <<r, h>> \in current.triggers /\ occs[h] = current.occ
      BY <3>1
    <3>3. CASE x = <<r, h>>
      <4>1. x[1] = r /\ x[2] = h
        BY <3>3
      <4>2. found = Discovered(current.graph, r, h, occs[h], current.cond)
        BY <2>4, <3>2, <4>1
      <4>3. Distinct(occs) /\ \A k \in DOMAIN Heads(r) : Facts[occs[k]].rel = Heads(r)[k].rel
        BY <2>10 DEF Applicable, Tuples, Facts
      <4>4. PICK graph, cond : graph = current.graph /\ cond = current.cond
        OBVIOUS
      <4>5. w \in cond /\ Seen(graph, r, occs, w) /\ found = Discovered(graph, r, h, occs[h], cond)
        BY <3>1, <4>2, <4>4
      <4>6. \E m \in found : Finds(m, r, occs, w)
        BY <1>2, <4>3, <4>5, DiscoveredFinds
      <4>7. Carries(kid, r, occs, w)
        BY <2>6, <4>1, <4>6 DEF Carries
      <4>8. QED
        BY <2>9, <4>7
    <3>4. CASE x # <<r, h>>
      <4>1. Carries(task, r, occs, w)
        BY <2>7, <3>1, <3>2, <3>4 DEF Carries
      <4>2. QED
        BY <2>9, <4>1
    <3>5. QED
      BY <3>3, <3>4
  <2>11. QED
    BY <1>1, <2>9, <2>10, QuietOwed DEF OthersStay, Quiet
<1>6. QED
    BY <1>4, <1>5

(* A wake activates each occurrence it has found.                          *)
LEMMA WakeTickOwed ==
    ASSUME There, Owed, program' = program, WakeTick
    PROVE  Owed'
<1>1. Quiet /\ queue # <<>> /\ current.kind = "Wake"
    BY OwnIs DEF WakeTick
<1>2. Here /\ current.scope # {} /\ DOMAIN current = WakeFields
    BY <1>1, CurrentWorks, CurrentIs DEF Working, Shaped
<1>3. CASE current.found = {}
  <2>1. \A r, occs, w : ~Carries(current, r, occs, w)
    BY <1>1, <1>3 DEF Carries
  <2>2. Finish(<<>>)
    BY <1>3 DEF WakeTick
  <2>3. OthersStay
    BY <1>1, <1>2, <2>2, EmptyIs, FinishStays
  <2>4. QED
    BY <1>1, <2>1, <2>3, FreeOwed DEF Quiet
<1>4. CASE current.found # {}
  <2>1. PICK f \in current.found :
           Requeue([current EXCEPT !.found = @ \ {f}],
                   IF Triggers(current.graph.facts[f.occ].rel, TRUE) = {} THEN <<>>
                   ELSE Spawned(current.scope, Activate(current.graph, f.occ, f.cond, TRUE)))
    BY <1>4 DEF WakeTick
  <2>2. PICK task, kid, kids, graph, triggers :
           /\ task = [current EXCEPT !.found = @ \ {f}]
           /\ graph = current.graph
           /\ triggers = Triggers(graph.facts[f.occ].rel, TRUE)
           /\ kid = [Activate(graph, f.occ, f.cond, TRUE) EXCEPT
                        !.id = next.task, !.scope = current.scope]
           /\ kids = IF triggers = {} THEN <<>> ELSE <<kid>>
    OBVIOUS
  <2>3. Requeue(task, kids)
    BY <1>2, <2>1, <2>2 DEF Spawned
  <2>4. /\ kid.kind = "Activate" /\ kid.graph = graph /\ kid.occ = f.occ /\ kid.cond = f.cond
        /\ kid.triggers = triggers
    BY <2>2 DEF Activate
  <2>5. task.kind = "Wake" /\ task.graph = graph /\ task.found = current.found \ {f}
    BY <1>1, <1>2, <2>2 DEF WakeFields
  <2>6. IsSeq(kids) /\ (triggers # {} => kid \in Elems(kids))
    <3>1. CASE triggers = {}
      BY <2>2, <3>1, EmptyIs
    <3>2. CASE triggers # {}
      <4>1. kids = <<kid>>
        BY <2>2, <3>2
      <4>2. QED
        BY <4>1, OneIs
    <3>3. QED
      BY <3>1, <3>2
  <2>7. OthersStay /\ (triggers # {} => kid \in Tasks') /\ task \in Tasks'
    BY <1>1, <1>2, <2>3, <2>6, ReturnStays
  <2>8. ASSUME NEW w \in active, NEW r \in RuleId, NEW occs \in Tuples(r),
                Carries(current, r, occs, w)
         PROVE  \E u \in Tasks' : Carries(u, r, occs, w)
    <3>1. Seen(graph, r, occs, w)
      BY <1>1, <2>2, <2>8 DEF Carries
    <3>2. PICK e \in current.found, h \in DOMAIN Heads(r) :
             occs[h] = e.occ /\ w \in e.cond /\ MergeHead(r, h)
      BY <1>1, <2>8 DEF Carries
    <3>3. CASE e = f
      <4>1. graph.facts[f.occ].rel = Heads(r)[h].rel
        BY <3>1, <3>2, <3>3 DEF Seen
      <4>2. <<r, h>> \in triggers
        BY <2>2, <3>2, <4>1 DEF Triggers
      <4>3. Carries(kid, r, occs, w)
        BY <2>4, <3>1, <3>2, <3>3, <4>2 DEF Carries
      <4>4. QED
        BY <2>7, <4>2, <4>3
    <3>4. CASE e # f
      <4>1. Carries(task, r, occs, w)
        BY <2>5, <3>1, <3>2, <3>4 DEF Carries
      <4>2. QED
        BY <2>7, <4>1
    <3>5. QED
      BY <3>3, <3>4
  <2>9. QED
    BY <1>1, <2>7, <2>8, QuietOwed DEF OthersStay, Quiet
<1>5. QED
    BY <1>3, <1>4

(* A search takes its matches one by one.                                  *)
LEMMA SearchTickOwed ==
    ASSUME NoneApart, Here, Owed, program' = program, SearchTick
    PROVE  Owed'
<1>1. /\ Quiet /\ queue # <<>> /\ current.kind = "Search"
      /\ current.candidate = None /\ current.commit = None
    BY OwnIs DEF SearchTick
<1>2. DOMAIN current = SearchFields
    BY <1>1, SearchIs
<1>3. CASE current.found = {}
  <2>1. \A r, occs, w : ~Carries(current, r, occs, w)
    BY <1>1, <1>3 DEF Carries
  <2>2. Finish(<<>>)
    BY <1>3 DEF SearchTick
  <2>3. OthersStay
    BY <1>1, <2>2, EmptyIs, FinishStays
  <2>4. QED
    BY <1>1, <2>1, <2>3, FreeOwed DEF Quiet
<1>4. CASE current.found # {}
  <2>1. PICK m \in current.found :
           Requeue([current EXCEPT !.found = @ \ {m}, !.candidate = m], <<>>)
    BY <1>4 DEF SearchTick
  <2>2. PICK task : task = [current EXCEPT !.found = @ \ {m}, !.candidate = m]
    OBVIOUS
  <2>3. /\ task.kind = "Search" /\ task.rule = current.rule
        /\ task.found = current.found \ {m} /\ task.candidate = m
    BY <1>1, <1>2, <2>2 DEF SearchFields
  <2>4. OthersStay /\ task \in Tasks'
    BY <1>1, <2>1, <2>2, EmptyIs, ReturnStays
  <2>5. ASSUME NEW w \in active, NEW r \in RuleId, NEW occs \in Tuples(r),
               Carries(current, r, occs, w)
        PROVE  Carries(task, r, occs, w)
    <3>1. current.rule = r /\ \E e \in current.found : Finds(e, r, occs, w)
      BY <1>1, <2>5 DEF Carries
    <3>2. PICK e \in current.found : Finds(e, r, occs, w)
      BY <3>1
    <3>3. CASE e = m
      <4>1. m # None
        BY <3>2, <3>3 DEF Finds, NoneApart
      <4>2. QED
        BY <2>3, <3>1, <3>2, <3>3, <4>1 DEF Carries
    <3>4. CASE e # m
      BY <2>3, <3>1, <3>2, <3>4 DEF Carries
    <3>5. QED
      BY <3>3, <3>4
  <2>6. QED
    BY <1>1, <2>4, <2>5, QuietOwed DEF OthersStay, Quiet
<1>5. QED
    BY <1>3, <1>4

(* A match that waits for the lane is not lost,                            *)
LEMMA SearchAcquireOwed ==
    ASSUME Here, Owed, program' = program, SearchAcquire
    PROVE  Owed'
<1>1. Quiet /\ queue # <<>> /\ current.kind = "Search"
    BY OwnIs DEF SearchAcquire
<1>2. DOMAIN current = SearchFields
    BY <1>1, SearchIs
<1>3. PICK task : task = [current EXCEPT !.transport = TRUE] /\ AcquireAndRequeue(task)
    BY DEF SearchAcquire
<1>4. /\ task.kind = current.kind /\ task.rule = current.rule /\ task.found = current.found
      /\ task.candidate = current.candidate /\ task.commit = current.commit
    BY <1>2, <1>3 DEF SearchFields
<1>5. OthersStay /\ (task \in Tasks' \/ current \in Tasks')
    BY <1>1, <1>3, AcquireStays
<1>6. \A r, occs, w : Carries(current, r, occs, w) => Carries(task, r, occs, w)
    BY <1>1, <1>4 DEF Carries
<1>7. QED
    BY <1>1, <1>5, <1>6, QuietOwed DEF OthersStay, Quiet

(* and becomes a commit with its bindings.                                 *)
LEMMA SearchBeginOwed ==
    ASSUME NoneApart, Here, Owed, program' = program, SearchBegin
    PROVE  Owed'
<1>1. Quiet /\ queue # <<>> /\ current.kind = "Search" /\ current.transport
    BY OwnIs DEF SearchBegin
<1>2. /\ DOMAIN current = SearchFields /\ current.candidate # None /\ current.commit = None
    BY <1>1, SearchIs DEF Static
<1>3. PICK k : k = [phase |-> "Start", base |-> state, staged |-> state,
                    occs |-> current.candidate.occs, env |-> current.candidate.vars,
                    cond |-> current.candidate.cond, act |-> active, head |-> 1]
    OBVIOUS
<1>4. PICK task : task = [current EXCEPT !.candidate = None, !.transport = FALSE, !.commit = k]
    OBVIOUS
<1>5. Requeue(task, <<>>)
    BY <1>3, <1>4 DEF SearchBegin
<1>6. /\ task.kind = "Search" /\ task.rule = current.rule /\ task.found = current.found
      /\ task.candidate = None /\ task.commit = k
    BY <1>1, <1>2, <1>4 DEF SearchFields
<1>7. /\ k.occs = current.candidate.occs /\ k.cond = current.candidate.cond
      /\ k.env = current.candidate.vars /\ k.phase = "Start" /\ "occs" \in DOMAIN k
    BY <1>3
<1>8. OthersStay /\ task \in Tasks'
    BY <1>1, <1>5, EmptyIs, ReturnStays
<1>9. ASSUME NEW r, NEW occs, NEW w, Carries(current, r, occs, w)
      PROVE  Carries(task, r, occs, w)
  <2>1. /\ current.rule = r
        /\ \/ \E m \in current.found : Finds(m, r, occs, w)
           \/ Finds(current.candidate, r, occs, w)
    BY <1>1, <1>2, <1>9 DEF Carries
  <2>2. CASE \E m \in current.found : Finds(m, r, occs, w)
    BY <1>6, <2>1, <2>2 DEF Carries
  <2>3. CASE Finds(current.candidate, r, occs, w)
    <3>1. Committed(k, r, occs, w)
      BY <1>7, <2>3 DEF Finds, Committed
    <3>2. k # None
      BY <1>7 DEF NoneApart
    <3>3. QED
      BY <1>6, <2>1, <3>1, <3>2 DEF Carries
  <2>4. QED
    BY <2>1, <2>2, <2>3
<1>10. QED
    BY <1>1, <1>8, <1>9, QuietOwed DEF OthersStay, Quiet

(* A job that is not done yet.                                             *)
LEMMA TaskPendingOwed ==
    ASSUME Here, Owed, program' = program, TaskPending
    PROVE  Owed'
<1>1. /\ Quiet /\ queue # <<>> /\ Requeue(current, <<>>)
    BY TaskService DEF TaskPending, Quiet
<1>2. OthersStay /\ current \in Tasks'
    BY <1>1, EmptyIs, ReturnStays
<1>3. QED
    BY <1>1, <1>2, QuietOwed DEF OthersStay, Quiet

-----------------------------------------------------------------------------
(* The commit.                                                             *)

(* A tuple that is applicable fits its own bindings.                       *)
LEMMA ApplicableFits ==
    ASSUME program \in Programs, Graphs, NEW r \in RuleId, NEW occs \in Tuples(r), NEW w, NEW env,
           Applicable(state, r, occs, w), Binding(r, occs, env), NEW h \in DOMAIN Heads(r)
    PROVE  w \in FitsHead(state.graph, r, h, occs[h], env)
<1>1. /\ DOMAIN occs = DOMAIN Heads(r) /\ occs[h] \in DOMAIN Facts
      /\ Facts[occs[h]].rel = Heads(r)[h].rel /\ w \in Facts[occs[h]].live
    BY DEF Tuples, Applicable, Facts
<1>2. DOMAIN Facts[occs[h]].args = DOMAIN Heads(r)[h].args
    BY <1>1, AritiesAre
<1>3. ASSUME NEW p \in DOMAIN Facts[occs[h]].args
      PROVE  Same(state.graph, Facts[occs[h]].args[p], env[Heads(r)[h].args[p]], w)
  <2>1. PICK s : s = Heads(r)[h].args[p]
    OBVIOUS
  <2>2. s \in 1 .. Rules[r].bound /\ <<h, p>> \in Ports(r, s)
    BY <1>2, <2>1, PortsAre
  <2>3. PICK q \in Ports(r, s) : env[s] = Facts[occs[q[1]]].args[q[2]]
    BY <1>2, <2>1 DEF Binding
  <2>4. \A x, y \in Ports(r, s) :
           Same(state.graph, Facts[occs[x[1]]].args[x[2]], Facts[occs[y[1]]].args[y[2]], w)
    BY <2>2 DEF Applicable, Facts
  <2>5. PICK x : x = <<h, p>>
    OBVIOUS
  <2>6. x[1] = h /\ x[2] = p
    BY <2>5
  <2>7. Same(state.graph, Facts[occs[x[1]]].args[x[2]], Facts[occs[q[1]]].args[q[2]], w)
    BY <2>2, <2>4, <2>5
  <2>8. QED
    BY <2>1, <2>3, <2>6, <2>7
<1>4. QED
    BY <1>1, <1>3 DEF FitsHead, Facts

(* What the search of a commit carries besides the commit.                 *)
LEMMA CommitCarries ==
    ASSUME Here, queue # <<>>, current.kind = "Search", c # None, NEW k, NEW task,
           task = Commit(k), NEW r, NEW occs, NEW w, Carries(current, r, occs, w)
    PROVE  /\ rule = r
           /\ \/ Committed(c, rule, occs, w)
              \/ Carries(task, r, occs, w)
           /\ k # None /\ Committed(k, rule, occs, w) => Carries(task, r, occs, w)
<1>1. DOMAIN current = SearchFields /\ current.candidate = None
    BY CommitIs
<1>2. /\ task.kind = "Search" /\ task.commit = k /\ task.rule = rule
      /\ task.found = current.found /\ task.candidate = None /\ rule = current.rule
    BY <1>1 DEF Commit, SearchFields, rule
<1>3. QED
    BY <1>1, <1>2 DEF Carries, c

(* A commit that keeps the worlds where the rule is applicable.            *)
LEMMA CommitOwed ==
    ASSUME NoneApart, Here, Owed, Quiet, queue # <<>>, current.kind = "Search", c # None, NEW k,
           Requeue(Commit(k), <<>>),
           \A w \in active : \A occs \in Tuples(rule) :
              Applicable(state, rule, occs, w) /\ Committed(c, rule, occs, w)
                 => Committed(k, rule, occs, w)
    PROVE  Owed'
<1>1. PICK task : task = Commit(k)
    OBVIOUS
<1>2. OthersStay /\ task \in Tasks'
    BY <1>1, EmptyIs, ReturnStays
<1>3. ASSUME NEW w \in active, NEW r \in RuleId, NEW occs \in Tuples(r),
             Applicable(state, r, occs, w), Carries(current, r, occs, w)
      PROVE  Carries(task, r, occs, w)
  <2>1. /\ rule = r
        /\ \/ Committed(c, rule, occs, w)
           \/ Carries(task, r, occs, w)
        /\ k # None /\ Committed(k, rule, occs, w) => Carries(task, r, occs, w)
    BY <1>1, <1>3, CommitCarries
  <2>2. Committed(c, rule, occs, w) => Committed(k, rule, occs, w)
    BY <1>3, <2>1
  <2>3. Committed(k, rule, occs, w) => k # None
    BY DEF Committed, NoneApart
  <2>4. QED
    BY <2>1, <2>2, <2>3
<1>4. PICK gone : gone = {current}
    OBVIOUS
<1>5. Tasks \ gone \subseteq Tasks'
    BY <1>2, <1>4 DEF OthersStay
<1>6. UNCHANGED <<program, state, active>>
    BY DEF Quiet
<1>7. QED
    BY <1>2, <1>3, <1>4, <1>5, <1>6, QuietOwed

(* A commit is dropped that has no such world.                             *)
LEMMA RejectOwed ==
    ASSUME Here, Owed, Quiet, queue # <<>>, current.kind = "Search", c # None, CommitReject,
           \A w \in active : \A occs \in Tuples(rule) :
              Applicable(state, rule, occs, w) => ~Committed(c, rule, occs, w)
    PROVE  Owed'
<1>1. PICK task : task = Commit(None)
    OBVIOUS
<1>2. OthersStay /\ task \in Tasks'
    BY <1>1, EmptyIs, ReturnStays DEF CommitReject
<1>3. ASSUME NEW w \in active, NEW r \in RuleId, NEW occs \in Tuples(r),
             Applicable(state, r, occs, w), Carries(current, r, occs, w)
      PROVE  Carries(task, r, occs, w)
    BY <1>1, <1>3, CommitCarries
<1>4. PICK gone : gone = {current}
    OBVIOUS
<1>5. Tasks \ gone \subseteq Tasks'
    BY <1>2, <1>4 DEF OthersStay
<1>6. UNCHANGED <<program, state, active>>
    BY DEF Quiet
<1>7. QED
    BY <1>2, <1>3, <1>4, <1>5, <1>6, QuietOwed

(* Nothing is committed in no world.                                       *)
LEMMA CommitEmptyOwed ==
    ASSUME Here, Owed, program' = program, CommitEmpty
    PROVE  Owed'
<1>1. Quiet /\ queue # <<>> /\ current.kind = "Search" /\ c # None /\ CommitReject /\ c.cond = {}
    BY OwnIs DEF CommitEmpty
<1>2. QED
    BY <1>1, RejectOwed DEF Committed

(* Only inactive worlds are filtered out.                                  *)
LEMMA CommitStartOwed ==
    ASSUME NoneApart, Here, Owed, program' = program, CommitStart
    PROVE  Owed'
<1>1. Quiet /\ queue # <<>> /\ current.kind = "Search" /\ c # None /\ c.phase = "Start"
    BY CommitOwnIs DEF CommitStart
<1>2. DOMAIN c = CommitFields /\ c.act = active
    BY <1>1, CommitIs DEF Committing
<1>3. PICK k : k = [c EXCEPT !.phase = "Head", !.cond = @ \cap c.act]
    OBVIOUS
<1>4. /\ DOMAIN k = CommitFields /\ k.phase = "Head" /\ k.cond = c.cond \cap active
      /\ k.occs = c.occs /\ k.env = c.env
    BY <1>2, <1>3 DEF CommitFields
<1>5. Requeue(Commit(k), <<>>)
    BY <1>3 DEF CommitStart
<1>6. ASSUME NEW w \in active, NEW occs, Committed(c, rule, occs, w)
      PROVE  Committed(k, rule, occs, w)
    BY <1>1, <1>2, <1>4, <1>6 DEF Committed
<1>7. QED
    BY <1>1, <1>5, <1>6, CommitOwed

(* A head that is gone or occurs again shows that nothing is applicable;   *)
(* one that fits leaves the worlds where it is.                            *)
LEMMA CommitHeadOwed ==
    ASSUME NoneApart, Here, Owed, program' = program, CommitHead
    PROVE  Owed'
<1>1. /\ Quiet /\ queue # <<>> /\ current.kind = "Search" /\ c # None /\ c.phase = "Head"
      /\ c.head <= Len(c.occs)
    BY CommitOwnIs DEF CommitHead
<1>2. /\ Committing(rule, c) /\ Tuple(rule, c.occs) /\ program \in Programs /\ Graphs
      /\ DOMAIN c = CommitFields /\ c.base.graph = state.graph /\ c.head \in Nat \ {0}
    BY <1>1, CommitIs DEF Committing
<1>3. /\ rule \in RuleId /\ DOMAIN c.occs = DOMAIN Heads(rule) /\ DOMAIN c.occs = 1 .. Len(c.occs)
      /\ Len(c.occs) \in Nat
    BY <1>2, TupleIs
<1>4. c.head \in DOMAIN c.occs /\ \A i \in 1 .. c.head - 1 : i \in DOMAIN c.occs /\ i # c.head
    BY <1>1, <1>2, <1>3
<1>5. PICK o : o = c.occs[c.head]
    OBVIOUS
<1> DEFINE again == \E i \in 1 .. c.head - 1 : c.occs[i] = o
<1>6. CASE Facts[o].live = {} \/ again
  <2>1. CommitReject
    BY <1>2, <1>5, <1>6 DEF CommitHead, Facts
  <2>2. ASSUME NEW w, NEW occs, Applicable(state, rule, occs, w), Committed(c, rule, occs, w)
        PROVE  FALSE
    <3>1. occs = c.occs
      BY <2>2 DEF Committed
    <3>2. Distinct(c.occs) /\ w \in Facts[o].live
      BY <1>4, <1>5, <2>2, <3>1 DEF Applicable, Facts
    <3>3. QED
      BY <1>4, <1>5, <1>6, <3>2 DEF Distinct
  <2>3. QED
    BY <1>1, <2>1, <2>2, RejectOwed
<1>7. CASE ~(Facts[o].live = {} \/ again)
  <2>1. PICK k : k = [c EXCEPT !.head = @ + 1,
                        !.cond = @ \cap FitsHead(state.graph, rule, c.head, o, c.env)]
    OBVIOUS
  <2>2. Requeue(Commit(k), <<>>)
    BY <1>2, <1>5, <1>7, <2>1 DEF CommitHead, Facts
  <2>3. /\ DOMAIN k = CommitFields /\ k.phase = "Head" /\ k.occs = c.occs /\ k.env = c.env
        /\ k.cond = c.cond \cap FitsHead(state.graph, rule, c.head, o, c.env)
    BY <1>1, <1>2, <2>1 DEF CommitFields
  <2>4. ASSUME NEW w \in active, NEW occs \in Tuples(rule),
               Applicable(state, rule, occs, w), Committed(c, rule, occs, w)
        PROVE  Committed(k, rule, occs, w)
    <3>1. occs = c.occs /\ Binding(rule, occs, c.env) /\ w \in c.cond
      BY <1>1, <2>4 DEF Committed
    <3>2. PICK env, h : env = c.env /\ h = c.head
      OBVIOUS
    <3>3. h \in DOMAIN Heads(rule) /\ Binding(rule, occs, env)
      BY <1>3, <1>4, <3>1, <3>2
    <3>4. w \in FitsHead(state.graph, rule, h, occs[h], env)
      BY <1>2, <1>3, <2>4, <3>3, ApplicableFits
    <3>5. w \in k.cond
      BY <1>5, <2>3, <3>1, <3>2, <3>4
    <3>6. QED
      BY <2>3, <3>1, <3>5 DEF Committed, CommitFields
  <2>5. QED
    BY <1>1, <2>2, <2>4, CommitOwed
<1>8. QED
    BY <1>6, <1>7

(* A propagation that has fired is not applicable.                         *)
LEMMA CommitHistoryOwed ==
    ASSUME NoneApart, Here, Owed, program' = program, CommitHistory
    PROVE  Owed'
<1>1. /\ Quiet /\ queue # <<>> /\ current.kind = "Search" /\ c # None /\ c.phase = "History"
    BY CommitOwnIs DEF CommitHistory
<1>2. /\ DOMAIN c = CommitFields /\ c.base = state
    BY <1>1, CommitIs DEF Committing
<1>3. PICK k : k = IF Pure(rule)
                   THEN [c EXCEPT !.phase = "Record",
                                  !.cond = @ \ Recorded(c.base.history, rule, c.occs)]
                   ELSE [c EXCEPT !.phase = "Consume", !.head = Rules[rule].kept + 1]
    OBVIOUS
<1>4. Requeue(Commit(k), <<>>)
    BY <1>3 DEF CommitHistory
<1>5. ASSUME NEW w \in active, NEW occs \in Tuples(rule),
             Applicable(state, rule, occs, w), Committed(c, rule, occs, w)
      PROVE  Committed(k, rule, occs, w)
  <2>1. occs = c.occs /\ w \in c.cond
    BY <1>5 DEF Committed
  <2>2. CASE Pure(rule)
    <3>1. /\ k.phase = "Record" /\ k.cond = c.cond \ Recorded(state.history, rule, c.occs)
          /\ k.occs = c.occs /\ DOMAIN k = CommitFields
      BY <1>2, <1>3, <2>2 DEF CommitFields
    <3>2. w \notin Recorded(state.history, rule, c.occs)
      BY <1>5, <2>1, <2>2 DEF Recorded, Applicable
    <3>3. QED
      BY <2>1, <3>1, <3>2 DEF Committed, CommitFields
  <2>3. CASE ~Pure(rule)
    <3>1. /\ k.phase = "Consume" /\ k.cond = c.cond /\ k.occs = c.occs /\ DOMAIN k = CommitFields
      BY <1>2, <1>3, <2>3 DEF CommitFields
    <3>2. QED
      BY <2>1, <3>1 DEF Committed, CommitFields
  <2>4. QED
    BY <2>2, <2>3
<1>6. QED
    BY <1>1, <1>4, <1>5, CommitOwed

(* The other phases keep the worlds of the commit.                         *)
LEMMA CommitKeepsWorlds ==
    ASSUME NoneApart, Here, Owed, program' = program,
           CommitHeadsDone \/ CommitRecord \/ CommitConsume
    PROVE  Owed'
<1>1. /\ Quiet /\ queue # <<>> /\ current.kind = "Search" /\ c # None
    BY CommitOwnIs DEF CommitHeadsDone, CommitRecord, CommitConsume
<1>2. DOMAIN c = CommitFields
    BY <1>1, CommitIs DEF Committing
<1>3. \E k : /\ Requeue(Commit(k), <<>>) /\ DOMAIN k = CommitFields
             /\ k.occs = c.occs /\ k.cond = c.cond /\ k.phase \notin {"Start", "Head"}
  <2>1. CASE CommitHeadsDone
    <3>1. PICK k : k = [c EXCEPT !.phase = "History"]
      OBVIOUS
    <3>2. Requeue(Commit(k), <<>>)
      BY <2>1, <3>1 DEF CommitHeadsDone
    <3>3. /\ DOMAIN k = CommitFields /\ k.occs = c.occs /\ k.cond = c.cond /\ k.phase = "History"
      BY <1>2, <3>1 DEF CommitFields
    <3>4. QED
      BY <3>2, <3>3
  <2>2. CASE CommitRecord
    <3>1. PICK k : k = [c EXCEPT !.phase = "Fresh",
             !.staged.history = c.base.history \cup {<<rule, c.occs, w>> : w \in c.cond}]
      OBVIOUS
    <3>2. Requeue(Commit(k), <<>>)
      BY <2>2, <3>1 DEF CommitRecord
    <3>3. /\ DOMAIN k = CommitFields /\ k.occs = c.occs /\ k.cond = c.cond /\ k.phase = "Fresh"
      BY <1>2, <3>1 DEF CommitFields
    <3>4. QED
      BY <3>2, <3>3
  <2>3. CASE CommitConsume /\ c.head > Len(c.occs)
    <3>1. PICK k : k = [c EXCEPT !.phase = "Fresh"]
      OBVIOUS
    <3>2. Requeue(Commit(k), <<>>)
      BY <2>3, <3>1 DEF CommitConsume
    <3>3. /\ DOMAIN k = CommitFields /\ k.occs = c.occs /\ k.cond = c.cond /\ k.phase = "Fresh"
      BY <1>2, <3>1 DEF CommitFields
    <3>4. QED
      BY <3>2, <3>3
  <2>4. CASE CommitConsume /\ ~(c.head > Len(c.occs))
    <3>1. PICK new : new = WithLiveness(c.staged.graph, c.occs[c.head],
                              c.staged.graph.facts[c.occs[c.head]].live \ c.cond)
      OBVIOUS
    <3>2. PICK k : k = [c EXCEPT !.head = @ + 1, !.staged.graph = new]
      OBVIOUS
    <3>3. Requeue(Commit(k), <<>>)
      BY <2>4, <3>1, <3>2 DEF CommitConsume
    <3>4. c.phase = "Consume"
      BY <2>4, CommitOwnIs DEF CommitConsume
    <3>5. /\ DOMAIN k = CommitFields /\ k.occs = c.occs /\ k.cond = c.cond /\ k.phase = "Consume"
      BY <1>2, <3>2, <3>4 DEF CommitFields
    <3>6. QED
      BY <3>3, <3>5
  <2>5. QED
    BY <2>1, <2>2, <2>3, <2>4
<1>4. PICK k : /\ Requeue(Commit(k), <<>>) /\ DOMAIN k = CommitFields
               /\ k.occs = c.occs /\ k.cond = c.cond /\ k.phase \notin {"Start", "Head"}
    BY <1>3
<1>5. ASSUME NEW w, NEW occs, Committed(c, rule, occs, w)
      PROVE  Committed(k, rule, occs, w)
    BY <1>4, <1>5 DEF Committed, CommitFields
<1>6. QED
    BY <1>1, <1>4, <1>5, CommitOwed

(* So does a fresh variable.                                               *)
LEMMA CommitFreshOwed ==
    ASSUME NoneApart, Here, Owed, program' = program, CommitFresh
    PROVE  Owed'
<1>1. /\ Quiet /\ queue # <<>> /\ current.kind = "Search" /\ c # None /\ c.phase = "Fresh"
    BY CommitOwnIs DEF CommitFresh
<1>2. DOMAIN c = CommitFields
    BY <1>1, CommitIs DEF Committing
<1>3. PICK k : k = [c EXCEPT !.env = Append(@, next.var)]
    OBVIOUS
<1>4. PICK task : task = Commit(k)
    OBVIOUS
<1>5. /\ queue' = Append(Tail(queue), task) /\ UNCHANGED laneVars
    BY <1>3, <1>4 DEF CommitFresh
<1>6. /\ DOMAIN k = CommitFields /\ k.phase = "Fresh" /\ k.cond = c.cond /\ k.occs = c.occs
    BY <1>1, <1>2, <1>3 DEF CommitFields
<1>7. OthersStay /\ task \in Tasks'
    BY <1>1, <1>5, VariableStays
<1>8. \A r, occs, w : Committed(c, r, occs, w) => k # None /\ Committed(k, r, occs, w)
    BY <1>6 DEF Committed, CommitFields, NoneApart
<1>9. \A r, occs, w : Carries(current, r, occs, w) => Carries(task, r, occs, w)
    BY <1>1, <1>4, <1>8, CommitCarries
<1>10. PICK gone : gone = {current}
    OBVIOUS
<1>11. Tasks \ gone \subseteq Tasks'
    BY <1>7, <1>10 DEF OthersStay
<1>12. UNCHANGED <<program, state, active>>
    BY <1>1 DEF Quiet
<1>13. QED
    BY <1>7, <1>9, <1>10, <1>11, <1>12, QuietOwed

(* An application makes nothing applicable, and what it applied is not     *)
(* applicable any more.                                                    *)
LEMMA CommitAppliedOwed ==
    ASSUME There, Owed, program' = program, CommitApplied
    PROVE  Owed'
<1>1. /\ Here /\ queue # <<>> /\ current.kind = "Search" /\ c # None /\ c.phase = "Fresh"
      /\ active' = active /\ state' = c.staged
      /\ Committing(rule, c) /\ Tuple(rule, c.occs) /\ program \in Programs
    BY CommitReadyIs DEF There
<1>2. /\ Facts' = c.staged.graph.facts /\ Shrunk(Facts, Facts')
      /\ state.history \subseteq state'.history
    BY <1>1 DEF Committing, Facts
<1>3. state'.graph.rep = state.graph.rep
  <2>1. StagedIn(c, current.scope)
    BY <1>1, CommitWithin
  <2>2. QED
    BY <1>1, <2>1 DEF StagedIn
<1>4. SameArgs
    BY <1>2 DEF SameArgs, Shrunk
<1>5. PICK task, kids : /\ task = Commit(None)
                        /\ kids = Spawned(c.cond, Body(Rules[rule].body, c.env, c.cond))
    OBVIOUS
<1>6. OthersStay /\ task \in Tasks'
  <2>1. IsSeq(kids)
    BY <1>5, SpawnedIs
  <2>2. RequeueReleasing(task, kids)
    BY <1>5 DEF CommitApplied
  <2>3. QED
    BY <1>1, <2>1, <2>2, ReturnStays
<1>7. ASSUME NEW w \in active', NEW r \in RuleId, NEW occs \in [DOMAIN Heads(r) -> DOMAIN Facts'],
             Applicable(state', r, occs, w)
      PROVE  /\ occs \in Tuples(r) /\ Applicable(state, r, occs, w)
             /\ Carries(current, r, occs, w) => Carries(task, r, occs, w)'
  <2>1. occs \in Tuples(r)
    BY <1>2 DEF Tuples, Shrunk
  <2>2. \A h \in DOMAIN Heads(r) :
           /\ occs[h] \in DOMAIN Facts
           /\ Facts'[occs[h]].rel = Facts[occs[h]].rel /\ Facts'[occs[h]].args = Facts[occs[h]].args
           /\ Facts'[occs[h]].live \subseteq Facts[occs[h]].live
    BY <1>2, <2>1 DEF Shrunk, Tuples
  <2>3. DOMAIN occs = DOMAIN Heads(r)
    BY <2>1 DEF Tuples
  <2>4. /\ Distinct(occs)
        /\ \A k \in DOMAIN occs : Facts'[occs[k]].rel = Heads(r)[k].rel /\ w \in Facts'[occs[k]].live
        /\ Pure(r) => <<r, occs, w>> \notin state'.history
    BY <1>7 DEF Applicable, Facts
  <2>5. ASSUME NEW s \in 1 .. Rules[r].bound, NEW p \in Ports(r, s), NEW q \in Ports(r, s)
        PROVE  Same(state.graph, Facts[occs[p[1]]].args[p[2]], Facts[occs[q[1]]].args[q[2]], w)
    <3>1. Same(state'.graph, Facts'[occs[p[1]]].args[p[2]], Facts'[occs[q[1]]].args[q[2]], w)
      BY <1>7 DEF Applicable, Facts
    <3>2. p[1] \in DOMAIN Heads(r) /\ q[1] \in DOMAIN Heads(r)
      BY DEF Ports
    <3>3. /\ Facts'[occs[p[1]]].args = Facts[occs[p[1]]].args
          /\ Facts'[occs[q[1]]].args = Facts[occs[q[1]]].args
      BY <2>2, <3>2
    <3>4. Same(state'.graph, Facts[occs[p[1]]].args[p[2]], Facts[occs[q[1]]].args[q[2]], w)
      BY <3>1, <3>3
    <3>5. QED
      BY <1>3, <3>4, Zenon DEF Same
  <2>6. Applicable(state, r, occs, w)
    <3>1. \A k \in DOMAIN occs : Facts[occs[k]].rel = Heads(r)[k].rel /\ w \in Facts[occs[k]].live
      BY <2>2, <2>3, <2>4
    <3>2. \A s \in 1 .. Rules[r].bound : \A p, q \in Ports(r, s) :
             Same(state.graph, Facts[occs[p[1]]].args[p[2]], Facts[occs[q[1]]].args[q[2]], w)
      BY <2>5
    <3>3. Pure(r) => <<r, occs, w>> \notin state.history
      BY <1>2, <2>4
    <3>4. QED
      BY <2>4, <3>1, <3>2, <3>3 DEF Applicable, Facts
  <2>7. ASSUME Carries(current, r, occs, w) PROVE Carries(task, r, occs, w)'
    <3>1. rule = r /\ (Committed(c, rule, occs, w) \/ Carries(task, r, occs, w))
      BY <1>1, <1>5, <2>7, CommitCarries
    <3>2. ~Committed(c, rule, occs, w)
      <4>1. SUFFICES ASSUME c.occs = occs, w \in c.cond PROVE FALSE
        BY DEF Committed
      <4>2. /\ \A h \in Rules[r].kept + 1 .. Len(occs) : w \notin Facts'[occs[h]].live
            /\ Pure(r) => <<r, occs, w>> \in state'.history
        BY <1>1, <1>2, <3>1, <4>1 DEF Committing
      <4>3. Pure(r) \/ Len(occs) \in Rules[r].kept + 1 .. Len(occs)
        BY <1>1, <3>1, <4>1, TupleIs DEF Pure
      <4>4. Len(occs) \in Rules[r].kept + 1 .. Len(occs) => Len(occs) \in DOMAIN occs
        BY <1>1, <3>1, <4>1, TupleIs
      <4>5. QED
        BY <2>4, <4>2, <4>3, <4>4
    <3>3. QED
      BY <1>4, <2>1, <3>1, <3>2, CarriesStays
  <2>8. QED
    BY <2>1, <2>6, <2>7
<1>8. PICK gone : gone = {current}
    OBVIOUS
<1>9. Tasks \ gone \subseteq Tasks'
    BY <1>6, <1>8 DEF OthersStay
<1>10. active' \subseteq active
    BY <1>1
<1>11. QED
    BY <1>4, <1>6, <1>7, <1>8, <1>9, <1>10, OwedKeeps

(* Every phase of a commit.                                                *)
LEMMA CommitTickOwed ==
    ASSUME NoneApart, There, Owed, program' = program, CommitTick
    PROVE  Owed'
<1>1. Here
    BY DEF There
<1>2. CASE CommitEmpty \/ CommitStart \/ CommitHead \/ CommitHistory
    BY <1>1, <1>2, CommitEmptyOwed, CommitStartOwed, CommitHeadOwed, CommitHistoryOwed
<1>3. CASE CommitHeadsDone \/ CommitRecord \/ CommitConsume
    BY <1>1, <1>3, CommitKeepsWorlds
<1>4. CASE CommitFresh \/ CommitApplied
    BY <1>1, <1>4, CommitFreshOwed, CommitAppliedOwed
<1>5. QED
    BY <1>2, <1>3, <1>4 DEF CommitTick

-----------------------------------------------------------------------------
(* What changes the graph owes a task to whatever becomes applicable.      *)

(* The facts of a graph are those of atoms, with variables that exist.     *)
Typed(g) ==
    \A o \in DOMAIN g.facts :
        /\ g.facts[o].args \in Seq(Var)
        /\ \E a \in Atoms(program) : /\ a.rel = g.facts[o].rel
                                     /\ DOMAIN a.args = DOMAIN g.facts[o].args

(* A rule has finitely many ports.                                         *)
LEMMA PortsFinite ==
    ASSUME program \in Programs, NEW r \in RuleId, NEW s
    PROVE  IsFiniteSet(Ports(r, s))
<1> DEFINE row == [h \in DOMAIN Heads(r) |-> {h} \X DOMAIN Heads(r)[h].args]
           R == {row[h] : h \in DOMAIN Heads(r)}
<1>1. DOMAIN Heads(r) = 1 .. Len(Heads(r)) /\ Len(Heads(r)) \in Nat
    BY RulesAre
<1>2. IsFiniteSet(DOMAIN Heads(r))
    BY <1>1, FS_Interval
<1>3. row \in Surjection(DOMAIN Heads(r), R)
    BY DEF Surjection
<1>4. IsFiniteSet(R)
    BY <1>2, <1>3, FS_Surjection
<1>5. ASSUME NEW h \in DOMAIN Heads(r) PROVE IsFiniteSet(row[h])
  <2>1. Heads(r)[h].args \in Seq(1 .. Rules[r].bound)
    BY ProgramsArePrepared DEF RuleId, Rules, Heads
  <2>2. PICK args, S : args = Heads(r)[h].args /\ S = 1 .. Rules[r].bound
    OBVIOUS
  <2>3. DOMAIN args = 1 .. Len(args) /\ Len(args) \in Nat
    BY <2>1, <2>2
  <2>7. PICK n \in Nat : n = Len(args)
    BY <2>3
  <2>8. IsFiniteSet(1 .. n)
    BY FS_Interval
  <2>9. IsFiniteSet({h})
    BY FS_Singleton
  <2>4. IsFiniteSet(DOMAIN args) /\ IsFiniteSet({h})
    BY <2>3, <2>7, <2>8, <2>9
  <2>5. IsFiniteSet({h} \X DOMAIN args)
    BY <2>4, FS_Product
  <2>6. QED
    BY <2>2, <2>5
<1>6. \A T \in R : IsFiniteSet(T)
    BY <1>5
<1>7. IsFiniteSet(UNION R)
    BY <1>4, <1>6, FS_UNION
<1>8. Ports(r, s) \in SUBSET UNION R
    BY DEF Ports
<1>9. QED
    BY <1>7, <1>8, FS_Subset

(* A head with one of two ports of a slot is sensitive to identity.        *)
LEMMA MergeHeadIs ==
    ASSUME program \in Programs, NEW r \in RuleId, NEW s, NEW p \in Ports(r, s),
           NEW q \in Ports(r, s), p # q
    PROVE  MergeHead(r, p[1])
<1>1. IsFiniteSet({p}) /\ Cardinality({p}) = 1
    BY FS_Singleton
<1>7. q \notin {p}
    OBVIOUS
<1>2. Cardinality({p} \cup {q}) = 2 /\ IsFiniteSet({p} \cup {q})
  <2>1. PICK S, z : S = {p} /\ z = q
    OBVIOUS
  <2>2. IsFiniteSet(S) /\ Cardinality(S) = 1 /\ z \notin S
    BY <1>1, <1>7, <2>1
  <2>3. Cardinality(S \cup {z}) = 1 + 1 /\ IsFiniteSet(S \cup {z})
    BY <2>2, FS_AddElement
  <2>4. QED
    BY <2>1, <2>3
<1>3. {p} \cup {q} \in SUBSET Ports(r, s)
    OBVIOUS
<1>4. Cardinality({p} \cup {q}) <= Cardinality(Ports(r, s)) /\ Cardinality(Ports(r, s)) \in Nat
    BY <1>3, PortsFinite, FS_Subset, FS_CardinalityType
<1>5. s \in Slots(Heads(r)[p[1]])
    BY DEF Ports, Slots
<1>6. QED
    BY <1>2, <1>4, <1>5 DEF MergeHead

(* The activation of a new fact carries whatever the fact completes.       *)
LEMMA BodyPostOwed ==
    ASSUME Here, Owed, program' = program, BodyPost
    PROVE  Owed'
<1>1. /\ queue # <<>> /\ current.kind = "Body" /\ current.phase = "Post" /\ active' = active
      /\ current.cond # {}
    BY TaskService DEF BodyPost, BodyIn, Dispatch, b, current
<1>2. /\ current.base = state.graph /\ Graphs /\ program \in Programs
    BY <1>1, BodyIs DEF Owning, Held, Here, Knowledge
<1>3. PICK x, graph, kid, kids :
         /\ x = [rel |-> Ins.rel, args |-> [p \in DOMAIN Ins.args |-> b.env[Ins.args[p]]],
                 live |-> b.cond]
         /\ graph = [state.graph EXCEPT !.facts = Append(@, x)]
         /\ kid = [Activate(graph, Len(graph.facts), b.cond, FALSE) EXCEPT
                     !.id = next.task, !.scope = b.cond]
         /\ kids = <<kid>>
    OBVIOUS
<1>4. Posted(current.base, Ins.rel, [p \in DOMAIN Ins.args |-> b.env[Ins.args[p]]], b.cond) = graph
    BY <1>2, <1>3 DEF Posted
<1>5. state' = [state EXCEPT !.graph = graph] /\ Finish(kids)
  <2>1. kids = Spawned(b.cond, Activate(graph, Len(graph.facts), b.cond, FALSE))
    BY <1>1, <1>3 DEF Spawned, b
  <2>2. QED
    BY <1>4, <2>1 DEF BodyPost, b
<1>6. /\ state'.history = state.history /\ state'.graph = graph
      /\ graph.rep = state.graph.rep /\ graph.facts = Append(Facts, x) /\ Facts' = graph.facts
    BY <1>2, <1>3, <1>5 DEF Graphs, Facts
<1>7. PICK n : n = Len(Facts) + 1
    OBVIOUS
<1>8. /\ DOMAIN graph.facts = DOMAIN Facts \cup {n} /\ Len(graph.facts) = n
      /\ \A o \in DOMAIN Facts : graph.facts[o] = Facts[o]
  <2>1. PICK f, g, S : f = Facts /\ g = graph.facts /\ S = Elems(Facts) \cup {x}
    OBVIOUS
  <2>2. f \in Seq(S) /\ x \in S /\ g = Append(f, x) /\ n = Len(f) + 1
    BY <1>2, <1>6, <1>7, <2>1 DEF Graphs
  <2>3. DOMAIN g = DOMAIN f \cup {n} /\ Len(g) = n /\ \A o \in DOMAIN f : g[o] = f[o]
    BY ONLY <2>2
  <2>4. QED
    BY <2>1, <2>3
<1>9. /\ kid.kind = "Activate" /\ kid.graph = graph /\ kid.occ = n /\ kid.cond = current.cond
      /\ kid.triggers = Triggers(graph.facts[n].rel, FALSE)
    BY <1>3, <1>8 DEF Activate, b
<1>10. SameArgs
    BY <1>6, <1>8 DEF SameArgs
<1>11. OthersStay /\ kid \in Tasks'
    BY <1>1, <1>3, <1>5, OneIs, FinishStays
<1>12. ASSUME NEW w \in active', NEW r \in RuleId, NEW occs \in [DOMAIN Heads(r) -> DOMAIN Facts'],
              Applicable(state', r, occs, w)
       PROVE  \/ Carries(kid, r, occs, w)'
              \/ occs \in Tuples(r) /\ Applicable(state, r, occs, w)
  <2>1. /\ DOMAIN occs = DOMAIN Heads(r)
        /\ \A h \in DOMAIN Heads(r) : occs[h] \in DOMAIN graph.facts
    BY <1>6
  <2>2. /\ \A h \in DOMAIN Heads(r) :
              graph.facts[occs[h]].rel = Heads(r)[h].rel /\ w \in graph.facts[occs[h]].live
        /\ \A s \in 1 .. Rules[r].bound : \A p, q \in Ports(r, s) :
              Same(graph, graph.facts[occs[p[1]]].args[p[2]], graph.facts[occs[q[1]]].args[q[2]], w)
        /\ Distinct(occs) /\ (Pure(r) => <<r, occs, w>> \notin state.history)
    BY <1>6, <1>12, <2>1 DEF Applicable
  <2>3. CASE \E h \in DOMAIN Heads(r) : occs[h] = n
    <3>1. PICK h \in DOMAIN Heads(r) : occs[h] = n
      BY <2>3
    <3>2. w \in kid.cond
      <4>1. graph.facts[n] = x
        <5>1. PICK f, S : f = Facts /\ S = Elems(Facts) \cup {x}
          OBVIOUS
        <5>2. f \in Seq(S) /\ x \in S /\ graph.facts = Append(f, x) /\ n = Len(f) + 1
          BY <1>2, <1>6, <1>7, <5>1 DEF Graphs
        <5>3. Append(f, x)[n] = x
          BY ONLY <5>2
        <5>4. QED
          BY <5>2, <5>3
      <4>2. x.live = current.cond
        BY <1>3 DEF b
      <4>3. QED
        BY <1>9, <2>2, <3>1, <4>1, <4>2
    <3>3. <<r, h>> \in kid.triggers
      BY <1>9, <2>2, <3>1 DEF Triggers
    <3>4. /\ Heads(r)' = Heads(r) /\ Rules' = Rules /\ \A s : Ports(r, s)' = Ports(r, s)
      BY ProgramStays
    <3>5. Seen(kid.graph, r, occs, w)'
      <4>1. /\ \A h1 \in DOMAIN Heads(r) :
                  /\ occs[h1] \in DOMAIN graph.facts
                  /\ graph.facts[occs[h1]].rel = Heads(r)[h1].rel
                  /\ graph.facts[occs[h1]].args = Facts'[occs[h1]].args
                  /\ w \in graph.facts[occs[h1]].live
            /\ \A s \in 1 .. Rules[r].bound : \A p, q \in Ports(r, s) :
                  Same(graph, Facts'[occs[p[1]]].args[p[2]], Facts'[occs[q[1]]].args[q[2]], w)
        BY <1>6, <2>1, <2>2
      <4>2. kid.graph = graph
        BY <1>9
      <4>3. QED
        BY <3>4, <4>1, <4>2 DEF Seen
    <3>6. QED
      BY <1>9, <3>1, <3>2, <3>3, <3>4, <3>5 DEF Carries
  <2>4. CASE \A h \in DOMAIN Heads(r) : occs[h] # n
    <3>1. /\ occs \in Tuples(r)
          /\ \A h \in DOMAIN Heads(r) : graph.facts[occs[h]] = Facts[occs[h]]
      BY <1>8, <2>1, <2>4 DEF Tuples
    <3>2. ASSUME NEW s \in 1 .. Rules[r].bound, NEW p \in Ports(r, s), NEW q \in Ports(r, s)
          PROVE  Same(state.graph, Facts[occs[p[1]]].args[p[2]], Facts[occs[q[1]]].args[q[2]], w)
      <4>1. p[1] \in DOMAIN Heads(r) /\ q[1] \in DOMAIN Heads(r)
        BY DEF Ports
      <4>2. Same(graph, graph.facts[occs[p[1]]].args[p[2]], graph.facts[occs[q[1]]].args[q[2]], w)
        BY <2>2
      <4>3. QED
        BY <1>6, <3>1, <4>1, <4>2 DEF Same
    <3>3. Applicable(state, r, occs, w)
      BY <2>1, <2>2, <3>1, <3>2 DEF Applicable, Facts
    <3>4. QED
      BY <3>1, <3>3
  <2>5. QED
    BY <2>3, <2>4
<1>13. \A r, occs, w : ~Carries(current, r, occs, w)
    BY <1>1 DEF Carries
<1>14. PICK gone : gone = {current}
    OBVIOUS
<1>15. Tasks \ gone \subseteq Tasks'
    BY <1>11, <1>14 DEF OthersStay
<1>16. active' \subseteq active
    BY <1>1
<1>17. \A w \in active' : \A r \in RuleId : \A occs \in [DOMAIN Heads(r) -> DOMAIN Facts'] :
          Applicable(state', r, occs, w) =>
             \/ \E u \in Tasks' : Carries(u, r, occs, w)'
             \/ occs \in Tuples(r) /\ Applicable(state, r, occs, w)
    BY <1>11, <1>12
<1>18. QED
    BY <1>10, <1>13, <1>14, <1>15, <1>16, <1>17, OwedKeeps

(* Variables that become equal where they were not: one of them lost its   *)
(* root.                                                                   *)
LEMMA BecomeSame ==
    ASSUME NEW g, NEW x, NEW y, NEW loser, NEW w \in World, NEW u \in Var, NEW v \in Var,
           DOMAIN g = {"facts", "rep"}, Same(Merged(g, x, y, loser), u, v, w), ~Same(g, u, v, w)
    PROVE  w \in DOMAIN loser /\ (Same(g, u, loser[w], w) \/ Same(g, v, loser[w], w))
<1>1. PICK new : new = Merged(g, x, y, loser)
    OBVIOUS
<1>2. new.rep[w] = IF w \notin DOMAIN loser THEN g.rep[w]
                   ELSE LET l == g.rep[w][loser[w]]
                            k == g.rep[w][IF loser[w] = x THEN y ELSE x]
                        IN [z \in Var |-> IF g.rep[w][z] = l THEN k ELSE g.rep[w][z]]
    BY <1>1 DEF Merged
<1>3. Same(new, u, v, w)
    BY <1>1
<1>4. w \in DOMAIN loser
    BY <1>2, <1>3 DEF Same
<1>5. PICK l, k : new.rep[w] = [z \in Var |-> IF g.rep[w][z] = l THEN k ELSE g.rep[w][z]]
                  /\ l = g.rep[w][loser[w]]
    BY <1>2, <1>4
<1>6. QED
    BY <1>3, <1>4, <1>5 DEF Same

(* The wake of a merge carries whatever the merge completes.               *)
LEMMA BodyMergeOwed ==
    ASSUME Here, Typed(state.graph), Owed, program' = program, BodyMerge
    PROVE  Owed'
<1>1. /\ queue # <<>> /\ current.kind = "Body" /\ current.phase = "Merge" /\ active' = active
    BY TaskService DEF BodyMerge, BodyIn, Dispatch, b, current
<1>2. /\ current.base = state.graph /\ Graphs /\ program \in Programs /\ active \subseteq World
    BY <1>1, BodyIs DEF Owning, Held, Here, Knowledge
<1>3. PICK x, y, g, changed : /\ x = b.env[Ins.x] /\ y = b.env[Ins.y] /\ g = state.graph
                              /\ changed = Changed(g, x, y, b.cond)
    OBVIOUS
<1>4. PICK loser \in [changed -> {x, y}] :
         /\ state' = [state EXCEPT !.graph = Merged(g, x, y, loser)]
         /\ Finish(Spawned(changed, Wake(Merged(g, x, y, loser), Woken(g, loser))))
    BY <1>2, <1>3 DEF BodyMerge, b
<1>5. PICK graph, kid, kids :
         /\ graph = Merged(g, x, y, loser)
         /\ kid = [Wake(graph, Woken(g, loser)) EXCEPT !.id = next.task, !.scope = changed]
         /\ kids = IF changed = {} THEN <<>> ELSE <<kid>>
    OBVIOUS
<1>6. state' = [state EXCEPT !.graph = graph] /\ Finish(kids)
    BY <1>4, <1>5 DEF Spawned
<1>7. /\ state'.history = state.history /\ state'.graph = graph /\ DOMAIN g = {"facts", "rep"}
      /\ g.facts = Facts /\ graph.facts = Facts /\ Facts' = Facts
  <2>1. state'.history = state.history /\ state'.graph = graph
    BY <1>2, <1>6 DEF Graphs
  <2>2. DOMAIN g = {"facts", "rep"} /\ g.facts = Facts
    BY <1>2, <1>3 DEF Graphs, Facts
  <2>3. graph.facts = g.facts
    BY <1>5, <2>2 DEF Merged
  <2>4. QED
    BY <2>1, <2>2, <2>3 DEF Facts
<1>8. kid.kind = "Wake" /\ kid.graph = graph /\ kid.found = Woken(g, loser)
    BY <1>5 DEF Wake
<1>9. SameArgs
    BY <1>7 DEF SameArgs
<1>10. OthersStay /\ (changed # {} => kid \in Tasks')
  <2>1. CASE changed = {}
    <3>1. Finish(<<>>)
      BY <1>5, <1>6, <2>1
    <3>2. QED
      BY <1>1, <2>1, <3>1, EmptyIs, FinishStays
  <2>2. CASE changed # {}
    <3>1. kids = <<kid>>
      BY <1>5, <2>2
    <3>2. IsSeq(kids) /\ kid \in Elems(kids)
      BY <3>1, OneIs
    <3>3. QED
      BY <1>1, <1>6, <3>2, FinishStays
  <2>3. QED
    BY <2>1, <2>2
<1>11. ASSUME NEW w \in active', NEW r \in RuleId, NEW occs \in [DOMAIN Heads(r) -> DOMAIN Facts'],
              Applicable(state', r, occs, w)
       PROVE  \/ changed # {} /\ Carries(kid, r, occs, w)'
              \/ occs \in Tuples(r) /\ Applicable(state, r, occs, w)
  <2>1. /\ occs \in Tuples(r) /\ DOMAIN occs = DOMAIN Heads(r) /\ w \in World
        /\ \A h \in DOMAIN Heads(r) : occs[h] \in DOMAIN Facts
    BY <1>1, <1>2, <1>7 DEF Tuples
  <2>2. /\ \A h \in DOMAIN Heads(r) :
              Facts[occs[h]].rel = Heads(r)[h].rel /\ w \in Facts[occs[h]].live
        /\ \A s \in 1 .. Rules[r].bound : \A p, q \in Ports(r, s) :
              Same(graph, Facts[occs[p[1]]].args[p[2]], Facts[occs[q[1]]].args[q[2]], w)
        /\ Distinct(occs) /\ (Pure(r) => <<r, occs, w>> \notin state.history)
    BY <1>7, <1>11, <2>1 DEF Applicable
  <2>3. CASE \A s \in 1 .. Rules[r].bound : \A p, q \in Ports(r, s) :
                Same(g, Facts[occs[p[1]]].args[p[2]], Facts[occs[q[1]]].args[q[2]], w)
    <3>1. Applicable(state, r, occs, w)
      BY <1>3, <2>1, <2>2, <2>3 DEF Applicable, Facts
    <3>2. QED
      BY <2>1, <3>1
  <2>4. CASE \E s \in 1 .. Rules[r].bound : \E p, q \in Ports(r, s) :
                ~Same(g, Facts[occs[p[1]]].args[p[2]], Facts[occs[q[1]]].args[q[2]], w)
    <3>20. PICK s \in 1 .. Rules[r].bound : \E p, q \in Ports(r, s) :
              ~Same(g, Facts[occs[p[1]]].args[p[2]], Facts[occs[q[1]]].args[q[2]], w)
      BY <2>4
    <3>1. PICK p \in Ports(r, s), q \in Ports(r, s) :
             ~Same(g, Facts[occs[p[1]]].args[p[2]], Facts[occs[q[1]]].args[q[2]], w)
      BY <3>20
    <3>2. ASSUME NEW z \in Ports(r, s)
          PROVE  /\ z[1] \in DOMAIN Heads(r) /\ z[2] \in DOMAIN Facts[occs[z[1]]].args
                 /\ Facts[occs[z[1]]].args[z[2]] \in Var
      <4>1. z[1] \in DOMAIN Heads(r) /\ z[2] \in DOMAIN Heads(r)[z[1]].args
        BY DEF Ports
      <4>2. PICK h, o : h = z[1] /\ o = occs[z[1]]
        OBVIOUS
      <4>3. h \in DOMAIN Heads(r) /\ o \in DOMAIN Facts /\ Facts[o].rel = Heads(r)[h].rel
        BY <2>1, <2>2, <4>1, <4>2
      <4>4. DOMAIN Facts[o].args = DOMAIN Heads(r)[h].args
        BY <1>2, <4>3, AritiesAre
      <4>5. Facts[o].args \in Seq(Var)
        BY <4>3 DEF Typed, Facts
      <4>6. z[2] \in DOMAIN Facts[o].args
        BY <4>1, <4>2, <4>4
      <4>7. Facts[o].args[z[2]] \in Var
        BY <4>5, <4>6
      <4>8. QED
        BY <4>1, <4>2, <4>6, <4>7
    <3>3. PICK u, v : u = Facts[occs[p[1]]].args[p[2]] /\ v = Facts[occs[q[1]]].args[q[2]]
      OBVIOUS
    <3>4. u \in Var /\ v \in Var /\ Same(graph, u, v, w) /\ ~Same(g, u, v, w)
      BY <2>2, <3>1, <3>2, <3>3
    <3>5. w \in DOMAIN loser /\ (Same(g, u, loser[w], w) \/ Same(g, v, loser[w], w))
      <4>1. Same(Merged(g, x, y, loser), u, v, w)
        BY <1>5, <3>4
      <4>2. w \in World /\ u \in Var /\ v \in Var /\ ~Same(g, u, v, w) /\ DOMAIN g = {"facts", "rep"}
        BY <1>7, <2>1, <3>4
      <4>3. QED
        BY <4>1, <4>2, BecomeSame
    <3>6. p # q
      BY <3>1 DEF Same
    <3>7. PICK z \in Ports(r, s) : /\ MergeHead(r, z[1])
                                   /\ Same(g, Facts[occs[z[1]]].args[z[2]], loser[w], w)
      BY <1>2, <3>3, <3>5, <3>6, MergeHeadIs
    <3>8. PICK h, o : h = z[1] /\ o = occs[h]
      OBVIOUS
    <3>9. /\ h \in DOMAIN Heads(r) /\ o \in DOMAIN Facts /\ w \in Facts[o].live
          /\ z[2] \in DOMAIN Facts[o].args /\ Same(g, Facts[o].args[z[2]], loser[w], w)
      BY <2>1, <2>2, <3>2, <3>7, <3>8
    <3> DEFINE moved(a) == {v1 \in DOMAIN loser :
                              /\ v1 \in g.facts[a].live
                              /\ \E p1 \in DOMAIN g.facts[a].args :
                                    Same(g, g.facts[a].args[p1], loser[v1], v1)}
    <3>10. w \in moved(o)
      BY <1>7, <3>5, <3>9
    <3>11. PICK f : f = [occ |-> o, cond |-> moved(o)]
      OBVIOUS
    <3>12. o \in Occurrence(g)
      BY <1>7, <3>9 DEF Occurrence
    <3>13. f \in Woken(g, loser)
      BY <3>10, <3>11, <3>12 DEF Woken
    <3>14. f.occ = o /\ w \in f.cond
      BY <3>10, <3>11
    <3>15. /\ Heads(r)' = Heads(r) /\ Rules' = Rules /\ \A s1 : Ports(r, s1)' = Ports(r, s1)
           /\ \A h1 : MergeHead(r, h1)' <=> MergeHead(r, h1)
      BY ProgramStays
    <3>16. Seen(kid.graph, r, occs, w)'
      BY <1>7, <1>8, <2>1, <2>2, <3>15 DEF Seen
    <3>17. Carries(kid, r, occs, w)'
      BY <1>8, <3>7, <3>8, <3>9, <3>13, <3>14, <3>15, <3>16 DEF Carries
    <3>18. changed # {}
      BY <3>5
    <3>19. QED
      BY <3>17, <3>18
  <2>5. QED
    BY <2>3, <2>4
<1>12. \A r, occs, w : ~Carries(current, r, occs, w)
    BY <1>1 DEF Carries
<1>13. PICK gone : gone = {current}
    OBVIOUS
<1>14. Tasks \ gone \subseteq Tasks'
    BY <1>10, <1>13 DEF OthersStay
<1>15. active' \subseteq active
    BY <1>1
<1>16. \A w \in active' : \A r \in RuleId : \A occs \in [DOMAIN Heads(r) -> DOMAIN Facts'] :
          Applicable(state', r, occs, w) =>
             \/ \E u \in Tasks' : Carries(u, r, occs, w)'
             \/ occs \in Tuples(r) /\ Applicable(state, r, occs, w)
    BY <1>10, <1>11
<1>17. QED
    BY <1>9, <1>12, <1>13, <1>14, <1>15, <1>16, OwedKeeps

-----------------------------------------------------------------------------
(* Every variable a task speaks of exists.                                 *)

(* The environments of bodies, matches and commits hold variables, and a   *)
(* body reads what its environment has.                                    *)
TypedTask(t) ==
    /\ t.kind \in {"Init", "Body"} => t.env \in Seq(Var)
    /\ t.kind = "Body" => Reads(program, t.ins, Len(t.env))
    /\ t.kind \in {"Activate", "Wake"} => Typed(t.graph)
    /\ t.kind = "Search" => /\ \A m \in t.found : m.vars \in Seq(Var)
                            /\ t.candidate # None => t.candidate.vars \in Seq(Var)
                            /\ t.commit # None => t.commit.env \in Seq(Var)

Typing ==
    /\ next.var \in Nat \ {0}
    /\ Typed(state.graph)
    /\ \A t \in Tasks : TypedTask(t)

(* What is typed stays so.                                                 *)
LEMMA TypedStays ==
    ASSUME program' = program
    PROVE  /\ \A g : Typed(g)' <=> Typed(g)
           /\ \A t : TypedTask(t)' <=> TypedTask(t)
<1>1. ASSUME NEW g PROVE Typed(g)' <=> Typed(g)
    BY DEF Typed
<1>2. ASSUME NEW t PROVE TypedTask(t)' <=> TypedTask(t)
    BY <1>1 DEF TypedTask
<1>3. QED
    BY <1>1, <1>2

(* A state that does not change is typed as it was.                        *)
LEMMA StateTyped ==
    ASSUME program' = program, state' = state, Typed(state.graph)
    PROVE  Typed(state.graph)'
BY DEF Typed

(* A dispatch that brings in typed tasks only.                             *)
LEMMA TypingGoes ==
    ASSUME Here, Typing, queue # <<>>, program' = program, NEW new, Dispatched(new),
           \A t \in new : TypedTask(t), Typed(state.graph)', next'.var \in Nat \ {0}
    PROVE  Typing'
<1>1. Elems(queue) = {current} \cup Elems(Tail(queue))
    BY FrontIs DEF Here
<1>2. \A t \in Tasks' : t \in Tasks \/ t \in new
    BY <1>1 DEF Dispatched, Tasks
<1>3. ASSUME NEW t \in Tasks' PROVE TypedTask(t)'
  <2>1. TypedTask(t)
    BY <1>2 DEF Typing
  <2>2. QED
    BY <2>1, TypedStays
<1>4. QED
    BY <1>3 DEF Typing

(* A spawned task is typed as the task is.                                 *)
LEMMA TypedChild ==
    ASSUME NEW kids, NEW task, NEW scope, kids = Spawned(scope, task), Shaped(task),
           TypedTask(task)
    PROVE  NextKids(kids) /\ \A k \in Elems(kids) : TypedTask(k)
<1>1. PICK k : k = [task EXCEPT !.id = next.task, !.scope = scope]
    OBVIOUS
<1>2. k.id = next.task /\ k.kind = task.kind
    BY <1>1 DEF Shaped, InitFields, BodyFields, ActivateFields, SearchFields, WakeFields
<1>3. TypedTask(k)
  <2>1. CASE task.kind = "Init" /\ DOMAIN task = InitFields
    <3>1. k.env = task.env
      BY <1>1, <2>1 DEF InitFields
    <3>2. QED
      BY <1>2, <2>1, <3>1 DEF TypedTask
  <2>2. CASE task.kind = "Body" /\ DOMAIN task = BodyFields
    <3>1. k.env = task.env /\ k.ins = task.ins
      BY <1>1, <2>2 DEF BodyFields
    <3>2. QED
      BY <1>2, <2>2, <3>1 DEF TypedTask
  <2>3. CASE task.kind = "Activate" /\ DOMAIN task = ActivateFields
    <3>1. k.graph = task.graph
      BY <1>1, <2>3 DEF ActivateFields
    <3>2. QED
      BY <1>2, <2>3, <3>1 DEF TypedTask
  <2>4. CASE task.kind = "Wake" /\ DOMAIN task = WakeFields
    <3>1. k.graph = task.graph
      BY <1>1, <2>4 DEF WakeFields
    <3>2. QED
      BY <1>2, <2>4, <3>1 DEF TypedTask
  <2>5. CASE task.kind = "Search" /\ DOMAIN task = SearchFields
    <3>1. k.found = task.found /\ k.candidate = task.candidate /\ k.commit = task.commit
      BY <1>1, <2>5 DEF SearchFields
    <3>2. QED
      BY <1>2, <2>5, <3>1 DEF TypedTask
  <2>6. QED
    BY <2>1, <2>2, <2>3, <2>4, <2>5 DEF Shaped
<1>4. kids = <<>> \/ kids = <<k>>
    BY <1>1 DEF Spawned
<1>5. QED
    BY <1>2, <1>3, <1>4, EmptyIs, OneIs DEF NextKids

(* Nothing spawned is typed.                                               *)
LEMMA TypedNone == NextKids(<<>>) /\ \A k \in Elems(<<>>) : TypedTask(k)
BY EmptyIs DEF NextKids

(* The three ways a dispatch ends,                                         *)
LEMMA ReturnTyping ==
    ASSUME Here, Typing, queue # <<>>, program' = program, NEW kids, NEW task, NextKids(kids),
           \A k \in Elems(kids) : TypedTask(k), TypedTask(task), task.id = current.id,
           Typed(state.graph)',
           Requeue(task, kids) \/ (lane = current.id /\ RequeueReleasing(task, kids))
    PROVE  Typing'
<1>1. Structure /\ LaneInv
    BY DEF Here
<1>2. Fits(kids) /\ next' = [next EXCEPT !.task = @ + Len(kids)]
    BY DEF Requeue, RequeueReleasing, Admit
<1>3. next'.var = next.var
    BY <1>1, <1>2 DEF Structure
<1>4. Dispatched(Elems(kids) \cup {task})
  <2>1. CASE Requeue(task, kids)
    BY <1>1, <1>2, <2>1, RequeueIs DEF Requeue
  <2>2. CASE lane = current.id /\ RequeueReleasing(task, kids)
    BY <1>1, <2>2, RequeueReleasingIs
  <2>3. QED
    BY <2>1, <2>2
<1>5. QED
    BY <1>3, <1>4, TypingGoes DEF Typing

(* the end of a task,                                                      *)
LEMMA FinishTyping ==
    ASSUME Here, Typing, queue # <<>>, program' = program, NEW kids, NextKids(kids),
           \A k \in Elems(kids) : TypedTask(k), Typed(state.graph)', Finish(kids)
    PROVE  Typing'
<1>1. Structure /\ LaneInv
    BY DEF Here
<1>2. next' = [next EXCEPT !.task = @ + Len(kids)]
    BY DEF Finish, Admit
<1>3. next'.var = next.var
    BY <1>1, <1>2 DEF Structure
<1>4. Dispatched(Elems(kids))
    BY <1>1, FinishIs
<1>5. QED
    BY <1>3, <1>4, TypingGoes DEF Typing

(* the acquisition of the lane,                                            *)
LEMMA AcquireTyping ==
    ASSUME Here, Typing, queue # <<>>, program' = program, state' = state, NEW task,
           task.id = current.id, TypedTask(task), AcquireAndRequeue(task)
    PROVE  Typing'
<1>1. Structure /\ LaneInv /\ next' = next
    BY DEF Here, AcquireAndRequeue
<1>2. Typed(state.graph)' /\ next'.var \in Nat \ {0}
    BY <1>1, StateTyped DEF Typing
<1>3. CASE Dispatched({task})
    BY <1>2, <1>3, TypingGoes
<1>4. CASE Dispatched({})
    BY <1>2, <1>4, TypingGoes
<1>5. QED
    BY <1>1, <1>3, <1>4, AcquireIs

(* and a variable that is allocated.                                       *)
LEMMA VariableTyping ==
    ASSUME Here, Typing, queue # <<>>, program' = program, state' = state, NEW task,
           task.id = current.id, TypedTask(task), queue' = Append(Tail(queue), task),
           UNCHANGED laneVars, next' = [next EXCEPT !.var = @ + 1]
    PROVE  Typing'
<1>1. Structure /\ LaneInv /\ IsSeq(Tail(queue))
    BY FrontIs DEF Here
<1>2. next'.var = next.var + 1
    BY <1>1 DEF Structure
<1>3. Typed(state.graph)' /\ next'.var \in Nat \ {0}
    BY <1>2, StateTyped DEF Typing
<1>4. PICK kids : kids = <<>>
    OBVIOUS
<1>5. NextKids(kids) /\ Elems(kids) = {}
    BY <1>4, EmptyIs DEF NextKids
<1>6. queue' = Tail(queue) \o kids \o <<task>>
    BY <1>1, <1>4, AppendIs, EmptyIs
<1>7. Dispatched(Elems(kids) \cup {task})
    BY <1>1, <1>4, <1>5, <1>6, RequeueIs
<1>8. \A t \in Elems(kids) \cup {task} : TypedTask(t)
    BY <1>5
<1>9. QED
    BY <1>3, <1>7, <1>8, TypingGoes

-----------------------------------------------------------------------------
(* Bodies speak of the variables of their environment.                     *)

(* The dispatched task is typed.                                           *)
LEMMA CurrentTyped ==
    ASSUME Here, Typing, queue # <<>>
    PROVE  TypedTask(current) /\ next.var \in Nat \ {0} /\ Typed(state.graph)
<1>1. current \in Tasks
    BY FrontIs DEF Here, Tasks
<1>2. QED
    BY <1>1 DEF Typing

(* The next variable is one, within the bound.                             *)
LEMMA NextVariable ==
    ASSUME Typing, next.var <= MaxVar, NEW env \in Seq(Var)
    PROVE  Append(env, next.var) \in Seq(Var)
<1>1. PICK v : v = next.var
    OBVIOUS
<1>2. v \in Nat \ {0} /\ v <= MaxVar /\ MaxVar \in Nat
    BY <1>1, EngineBounds DEF Typing
<1>3. v \in Var
    BY <1>2 DEF Var
<1>4. Append(env, v) \in Seq(Var)
    BY ONLY <1>3, env \in Seq(Var)
<1>5. QED
    BY <1>1, <1>4

(* More slots can be read as well.                                         *)
LEMMA ReadsMore ==
    ASSUME NEW p, NEW i, NEW m \in Nat, NEW n \in Nat, m <= n, Reads(p, i, m)
    PROVE  Reads(p, i, n)
<1>1. \A args : args \in Seq(1 .. m) => args \in Seq(1 .. n)
  <2>1. 1 .. m \subseteq 1 .. n
    OBVIOUS
  <2>2. \A S, T : S \subseteq T => \A s \in Seq(S) : s \in Seq(T)
    OBVIOUS
  <2>3. QED
    BY <2>1, <2>2
<1>2. 1 .. m \subseteq 1 .. n
    OBVIOUS
<1>3. PICK S \in SUBSET DOMAIN p.code :
        /\ i \in S
        /\ \A j \in S :
              LET ins == p.code[j]
              IN /\ ins.op \in {"And", "Or"} => \A k \in DOMAIN ins.items : ins.items[k] \in S
                 /\ ins.op = "Post" => ins.args \in Seq(1 .. m)
                 /\ ins.op = "Equal" => ins.x \in 1 .. m /\ ins.y \in 1 .. m
    BY DEF Reads
<1>4. \A j \in S : LET ins == p.code[j]
                   IN /\ ins.op = "Post" => ins.args \in Seq(1 .. n)
                      /\ ins.op = "Equal" => ins.x \in 1 .. n /\ ins.y \in 1 .. n
    BY <1>1, <1>2, <1>3
<1>5. QED
    BY <1>3, <1>4 DEF Reads

(* What a conjunction or a disjunction reads, its items read.              *)
LEMMA ReadsItem ==
    ASSUME NEW p, NEW i, NEW n, Reads(p, i, n), p.code[i].op \in {"And", "Or"},
           NEW k \in DOMAIN p.code[i].items
    PROVE  Reads(p, p.code[i].items[k], n)
BY DEF Reads

(* A body that is spawned with an environment it can read.                 *)
LEMMA BodyTyped ==
    ASSUME NEW ins, NEW env \in Seq(Var), NEW cond, Reads(program, ins, Len(env)),
           NEW kids, NEW scope, kids = Spawned(scope, Body(ins, env, cond))
    PROVE  NextKids(kids) /\ \A k \in Elems(kids) : TypedTask(k)
<1>1. PICK task : task = Body(ins, env, cond)
    OBVIOUS
<1>2. task.kind = "Body" /\ DOMAIN task = BodyFields /\ task.ins = ins /\ task.env = env
    BY <1>1 DEF Body, BodyFields
<1>3. Shaped(task) /\ TypedTask(task)
    BY <1>2 DEF Shaped, TypedTask
<1>4. kids = Spawned(scope, task)
    BY <1>1
<1>5. QED
    BY <1>3, <1>4, TypedChild

(* A range of the arms of a disjunction.                                   *)
LEMMA RangeTyped ==
    ASSUME NEW t, t.env \in Seq(Var), Reads(program, t.ins, Len(t.env)),
           program \in Programs, t.ins \in DOMAIN Code, Code[t.ins].op = "Or",
           NEW start \in Nat \ {0}, NEW end \in 1 .. Len(Code[t.ins].items) + 1, start < end,
           NEW cond, NEW scope, NEW kids, kids = Spawned(scope, BodyRange(t, start, end, cond))
    PROVE  NextKids(kids) /\ \A k \in Elems(kids) : TypedTask(k)
<1>1. CASE end - start = 1
  <2>1. kids = Spawned(scope, Body(Code[t.ins].items[start], t.env, cond))
    BY <1>1 DEF BodyRange
  <2>2. start \in DOMAIN Code[t.ins].items
    <3>1. PICK items, S : items = Code[t.ins].items /\ S = DOMAIN Code
      OBVIOUS
    <3>2. items \in Seq(S)
      BY <3>1, CodeIs
    <3>3. QED
      BY <1>1, <3>1, <3>2
  <2>3. Reads(program, Code[t.ins].items[start], Len(t.env))
    BY <2>2, ReadsItem DEF Code
  <2>4. PICK ins, env : ins = Code[t.ins].items[start] /\ env = t.env
    OBVIOUS
  <2>5. kids = Spawned(scope, Body(ins, env, cond)) /\ Reads(program, ins, Len(env))
        /\ env \in Seq(Var)
    BY <2>1, <2>3, <2>4
  <2>6. QED
    BY <2>5, BodyTyped
<1>2. CASE end - start # 1
  <2>1. PICK task : task = [Body(t.ins, t.env, cond) EXCEPT !.index = start, !.end = end]
    OBVIOUS
  <2>2. task.kind = "Body" /\ DOMAIN task = BodyFields /\ task.ins = t.ins /\ task.env = t.env
    BY <2>1 DEF Body, BodyFields
  <2>3. Shaped(task) /\ TypedTask(task)
    BY <2>2 DEF Shaped, TypedTask
  <2>4. kids = Spawned(scope, task)
    BY <1>2, <2>1 DEF BodyRange
  <2>5. QED
    BY <2>3, <2>4, TypedChild
<1>3. QED
    BY <1>1, <1>2

(* The query's environment is filled, and its body reads it.               *)
LEMMA InitTickTyping ==
    ASSUME Here, Typing, program' = program, InitTick
    PROVE  Typing'
<1>1. Quiet /\ queue # <<>> /\ current.kind = "Init"
    BY OwnIs DEF InitTick
<1>2. /\ DOMAIN current = InitFields /\ program \in Programs /\ current.env \in Seq(Var)
      /\ state' = state /\ Typed(state.graph)'
    BY <1>1, CurrentIs, CurrentTyped, StateTyped DEF Shaped, Structure, TypedTask, Quiet
<1>3. CASE Len(current.env) < QueryVars
  <2>1. PICK env, task : /\ env = current.env
                         /\ task = [current EXCEPT !.env = Append(env, next.var)]
    OBVIOUS
  <2>2. /\ queue' = Append(Tail(queue), task) /\ next' = [next EXCEPT !.var = @ + 1]
        /\ UNCHANGED laneVars /\ next.var <= MaxVar
    BY <1>3, <2>1 DEF InitTick
  <2>3. task.id = current.id /\ task.kind = "Init" /\ task.env = Append(env, next.var)
    BY <1>1, <1>2, <2>1 DEF InitFields
  <2>4. TypedTask(task)
    BY <1>2, <2>1, <2>2, <2>3, NextVariable DEF TypedTask
  <2>5. QED
    BY <1>1, <1>2, <2>2, <2>3, <2>4, VariableTyping
<1>4. CASE ~(Len(current.env) < QueryVars)
  <2>1. PICK ins, env, cond, kids :
           /\ ins = Query /\ env = current.env /\ cond = current.scope
           /\ kids = Spawned(cond, Body(ins, env, cond))
    OBVIOUS
  <2>2. Finish(kids)
    BY <1>4, <2>1 DEF InitTick
  <2>3. Reads(program, ins, Len(env)) /\ env \in Seq(Var)
    <3>1. QueryVars \in Nat /\ Reads(program, Query, QueryVars)
      BY <1>2, ProgramsArePrepared DEF Query, QueryVars
    <3>2. Len(env) \in Nat /\ QueryVars <= Len(env)
      BY <1>2, <1>4, <2>1, <3>1
    <3>3. QED
      BY <1>2, <2>1, <3>1, <3>2, ReadsMore
  <2>4. NextKids(kids) /\ \A k \in Elems(kids) : TypedTask(k)
    BY <2>1, <2>3, BodyTyped
  <2>5. QED
    BY <1>1, <1>2, <2>2, <2>4, FinishTyping
<1>5. QED
    BY <1>3, <1>4

(* A body in another phase of the same instruction.                        *)
LEMMA BodySame ==
    ASSUME Here, Typing, queue # <<>>, current.kind = "Body", NEW task, task.kind = "Body",
           task.env = current.env, task.ins = current.ins
    PROVE  TypedTask(task)
BY CurrentTyped DEF TypedTask

(* It goes on there, alone or with a child.                                *)
LEMMA BodyTyping ==
    ASSUME Here, Typing, queue # <<>>, current.kind = "Body", UNCHANGED <<program, state>>,
           NEW task, task.kind = "Body", task.env = current.env, task.ins = current.ins,
           task.id = current.id, NEW kids, NextKids(kids), \A k \in Elems(kids) : TypedTask(k),
           Requeue(task, kids)
    PROVE  Typing'
<1>1. TypedTask(task) /\ Typed(state.graph)'
    BY BodySame, CurrentTyped, StateTyped
<1>2. QED
    BY <1>1, ReturnTyping

(* It is done.                                                             *)
LEMMA DoneTyping ==
    ASSUME Here, Typing, queue # <<>>, UNCHANGED <<program, state>>, Finish(<<>>)
    PROVE  Typing'
<1>1. Typed(state.graph)'
    BY CurrentTyped, StateTyped
<1>2. PICK kids : kids = <<>>
    OBVIOUS
<1>3. Finish(kids) /\ NextKids(kids) /\ \A k \in Elems(kids) : TypedTask(k)
    BY <1>2, TypedNone
<1>4. QED
    BY <1>1, <1>3, FinishTyping

(* The phases in which a body is alone with its instruction.               *)
LEMMA BodyAloneTyping ==
    ASSUME Here, Typing, program' = program,
           BodyEmpty \/ BodyDispatch \/ BodyArguments \/ BodyAcquire \/ BodyFilter \/ BodyApply \/ BodyFail
    PROVE  Typing'
<1>1. queue # <<>> /\ current.kind = "Body" /\ UNCHANGED <<program, state>>
    BY TaskService DEF BodyEmpty, BodyDispatch, BodyArguments, BodyAcquire, BodyFilter, BodyApply,
       BodyFail, BodyOwn, BodyIn, Own, Dispatch, others, current
<1>2. DOMAIN current = BodyFields
    BY <1>1, BodyIs
<1>3. ASSUME Finish(<<>>) PROVE Typing'
    BY <1>1, <1>3, DoneTyping
<1>4. ASSUME NEW task, task.kind = "Body", task.env = current.env, task.ins = current.ins,
             task.id = current.id, Requeue(task, <<>>)
      PROVE  Typing'
  <2>1. PICK kids : kids = <<>>
    OBVIOUS
  <2>2. Requeue(task, kids) /\ NextKids(kids) /\ \A k \in Elems(kids) : TypedTask(k)
    BY <1>4, <2>1, TypedNone
  <2>3. QED
    BY <1>1, <1>4, <2>2, BodyTyping
<1>5. CASE BodyEmpty
    BY <1>3, <1>5 DEF BodyEmpty
<1>6. CASE BodyDispatch
  <2>1. CASE Ins.op = "True"
    BY <1>3, <1>6, <2>1 DEF BodyDispatch
  <2>2. CASE Ins.op # "True"
    <3>1. PICK phase, task : /\ phase = (CASE Ins.op = "And"  -> "Expand"
                                           [] Ins.op = "Post" -> "Arguments"
                                           [] OTHER           -> "Acquire")
                             /\ task = [current EXCEPT !.phase = phase]
      OBVIOUS
    <3>2. Requeue(task, <<>>)
      BY <1>6, <2>2, <3>1 DEF BodyDispatch, b
    <3>3. /\ task.kind = "Body" /\ task.env = current.env /\ task.ins = current.ins
          /\ task.id = current.id
      BY <1>1, <1>2, <3>1 DEF BodyFields
    <3>4. QED
      BY <1>4, <3>2, <3>3
  <2>3. QED
    BY <2>1, <2>2
<1>7. CASE BodyArguments
  <2>1. PICK task : /\ \/ task = [current EXCEPT !.phase = "Acquire"]
                       \/ task = [current EXCEPT !.index = @ + 1]
                    /\ Requeue(task, <<>>)
    BY <1>7 DEF BodyArguments, b
  <2>2. /\ task.kind = "Body" /\ task.env = current.env /\ task.ins = current.ins
        /\ task.id = current.id
    BY <1>1, <1>2, <2>1 DEF BodyFields
  <2>3. QED
    BY <1>4, <2>1, <2>2
<1>8. CASE BodyAcquire
  <2>1. PICK task : /\ \/ task = [current EXCEPT !.phase = "Apply", !.cond = @ \cap active]
                       \/ task = [current EXCEPT !.phase = "Filter", !.act = active]
                    /\ AcquireAndRequeue(task)
    BY <1>8 DEF BodyAcquire, b
  <2>2. /\ task.kind = "Body" /\ task.env = current.env /\ task.ins = current.ins
        /\ task.id = current.id
    BY <1>1, <1>2, <2>1 DEF BodyFields
  <2>3. TypedTask(task)
    BY <1>1, <2>2, BodySame
  <2>4. QED
    BY <1>1, <2>1, <2>2, <2>3, AcquireTyping
<1>9. CASE BodyFilter
  <2>1. PICK task : /\ task = [current EXCEPT !.phase = "Apply", !.cond = @ \cap current.act]
                    /\ Requeue(task, <<>>)
    BY <1>9 DEF BodyFilter, b
  <2>2. /\ task.kind = "Body" /\ task.env = current.env /\ task.ins = current.ins
        /\ task.id = current.id
    BY <1>1, <1>2, <2>1 DEF BodyFields
  <2>3. QED
    BY <1>4, <2>1, <2>2
<1>10. CASE BodyApply
  <2>1. PICK phase, base, act, task :
           /\ task = [current EXCEPT !.phase = phase, !.base = base, !.act = act]
           /\ Requeue(task, <<>>)
    BY <1>10 DEF BodyApply, b
  <2>2. /\ task.kind = "Body" /\ task.env = current.env /\ task.ins = current.ins
        /\ task.id = current.id
    BY <1>1, <1>2, <2>1 DEF BodyFields
  <2>3. QED
    BY <1>4, <2>1, <2>2
<1>11. CASE BodyFail
    BY <1>3, <1>11 DEF BodyFail
<1>12. QED
    BY <1>5, <1>6, <1>7, <1>8, <1>9, <1>10, <1>11

(* The items of a conjunction read what it reads.                          *)
LEMMA BodyExpandTyping ==
    ASSUME Here, Typing, program' = program, BodyExpand
    PROVE  Typing'
<1>1. /\ queue # <<>> /\ current.kind = "Body" /\ UNCHANGED <<program, state>>
      /\ current.phase = "Expand"
    BY BodyOwnIs DEF BodyExpand, Quiet
<1>2. DOMAIN current = BodyFields /\ BodyPlace(current) /\ program \in Programs
    BY <1>1, BodyIs
<1>3. CASE current.index > Len(Ins.items)
    BY <1>1, <1>3, DoneTyping DEF BodyExpand, b
<1>4. CASE ~(current.index > Len(Ins.items))
  <2>1. PICK task, kids, ins, env, cond :
           /\ task = [current EXCEPT !.index = @ + 1]
           /\ ins = Ins.items[current.index] /\ env = current.env /\ cond = current.cond
           /\ kids = Spawned(cond, Body(ins, env, cond))
    OBVIOUS
  <2>2. Requeue(task, kids)
    BY <1>4, <2>1 DEF BodyExpand, b
  <2>3. /\ task.kind = "Body" /\ task.env = current.env /\ task.ins = current.ins
        /\ task.id = current.id
    BY <1>1, <1>2, <2>1 DEF BodyFields
  <2>4. /\ current.ins \in DOMAIN Code /\ Code[current.ins].op = "And"
        /\ current.index \in Nat \ {0}
    BY <1>1, <1>2 DEF BodyPlace
  <2>5. current.index \in DOMAIN Code[current.ins].items
    <3>1. PICK items, S : items = Code[current.ins].items /\ S = DOMAIN Code
      OBVIOUS
    <3>2. items \in Seq(S)
      BY <1>2, <2>4, <3>1, CodeIs
    <3>3. ~(current.index > Len(items))
      BY <1>4, <3>1 DEF Ins, b
    <3>4. QED
      BY <2>4, <3>1, <3>2, <3>3
  <2>6. env \in Seq(Var) /\ Reads(program, current.ins, Len(env))
    BY <1>1, <2>1, CurrentTyped DEF TypedTask
  <2>7. Reads(program, ins, Len(env))
    BY <2>1, <2>4, <2>5, <2>6, ReadsItem DEF Code, Ins, b
  <2>8. NextKids(kids) /\ \A k \in Elems(kids) : TypedTask(k)
    BY <2>1, <2>6, <2>7, BodyTyped
  <2>9. QED
    BY <1>1, <2>2, <2>3, <2>8, BodyTyping
<1>5. QED
    BY <1>3, <1>4

(* The last arm, or a choice.                                              *)
LEMMA BodyChoiceTyping ==
    ASSUME Here, Typing, program' = program, BodyChoice
    PROVE  Typing'
<1>1. /\ queue # <<>> /\ current.kind = "Body" /\ UNCHANGED <<program, state>>
      /\ current.phase = "Choice"
    BY TaskService DEF BodyChoice, BodyIn, Dispatch, b, current
<1>2. DOMAIN current = BodyFields /\ BodyPlace(current) /\ program \in Programs
    BY <1>1, BodyIs
<1>3. PICK end : end = IF current.end = 0 THEN Len(Ins.items) + 1 ELSE current.end
    OBVIOUS
<1>4. /\ current.index + 1 = end =>
            Finish(Spawned(current.cond, Body(Ins.items[current.index], current.env, current.cond)))
      /\ current.index + 1 # end =>
            Requeue([current EXCEPT !.phase = "Left", !.end = end, !.choice = births + 1], <<>>)
    BY <1>3 DEF BodyChoice, b
<1>5. CASE current.index + 1 = end
  <2>1. PICK kids, ins, env, cond :
           /\ ins = Ins.items[current.index] /\ env = current.env /\ cond = current.cond
           /\ kids = Spawned(cond, Body(ins, env, cond))
    OBVIOUS
  <2>2. Finish(kids)
    BY <1>4, <1>5, <2>1
  <2>3. /\ current.ins \in DOMAIN Code /\ Code[current.ins].op = "Or"
        /\ current.index \in Nat \ {0}
        /\ current.end # 0 => current.end \in 1 .. Len(Code[current.ins].items) + 1
    BY <1>1, <1>2 DEF BodyPlace
  <2>4. current.index \in DOMAIN Code[current.ins].items
    <3>1. PICK items, S : items = Code[current.ins].items /\ S = DOMAIN Code
      OBVIOUS
    <3>2. items \in Seq(S) /\ Ins.items = items
      BY <1>2, <2>3, <3>1, CodeIs DEF Ins, b
    <3>3. Len(items) \in Nat /\ current.index <= Len(items) /\ DOMAIN items = 1 .. Len(items)
      BY <1>3, <1>5, <2>3, <3>1, <3>2
    <3>4. QED
      BY <2>3, <3>1, <3>3
  <2>5. env \in Seq(Var) /\ Reads(program, current.ins, Len(env))
    BY <1>1, <2>1, CurrentTyped DEF TypedTask
  <2>6. Reads(program, ins, Len(env))
    BY <2>1, <2>3, <2>4, <2>5, ReadsItem DEF Code, Ins, b
  <2>7. NextKids(kids) /\ \A k \in Elems(kids) : TypedTask(k)
    BY <2>1, <2>5, <2>6, BodyTyped
  <2>8. Typed(state.graph)'
    BY <1>1, CurrentTyped, StateTyped
  <2>9. QED
    BY <1>1, <2>2, <2>7, <2>8, FinishTyping
<1>6. CASE current.index + 1 # end
  <2>1. PICK task, kids :
           /\ task = [current EXCEPT !.phase = "Left", !.end = end, !.choice = births + 1]
           /\ kids = <<>>
    OBVIOUS
  <2>2. Requeue(task, kids)
    BY <1>4, <1>6, <2>1
  <2>3. /\ task.kind = "Body" /\ task.env = current.env /\ task.ins = current.ins
        /\ task.id = current.id
    BY <1>1, <1>2, <2>1 DEF BodyFields
  <2>4. NextKids(kids) /\ \A k \in Elems(kids) : TypedTask(k)
    BY <2>1, TypedNone
  <2>5. QED
    BY <1>1, <2>2, <2>3, <2>4, BodyTyping
<1>7. QED
    BY <1>5, <1>6

(* Both halves of the arms read what the disjunction reads.                *)
LEMMA BodyHalvesTyping ==
    ASSUME Here, Typing, program' = program, BodyLeft \/ BodyRight
    PROVE  Typing'
<1>1. /\ queue # <<>> /\ current.kind = "Body" /\ UNCHANGED <<program, state>>
      /\ current.phase \in {"Left", "Right"}
    BY BodyOwnIs DEF BodyLeft, BodyRight, Quiet
<1>2. /\ DOMAIN current = BodyFields /\ program \in Programs
      /\ current.env \in Seq(Var) /\ Reads(program, current.ins, Len(current.env))
      /\ Typed(state.graph)'
    BY <1>1, BodyIs, CurrentTyped, StateTyped DEF TypedTask
<1>3. PICK t, start, half, end :
         t = current /\ start = current.index /\ half = Split /\ end = current.end
    OBVIOUS
<1>4. /\ t.ins \in DOMAIN Code /\ Code[t.ins].op = "Or" /\ start \in Nat \ {0}
      /\ half \in Nat \ {0} /\ start < half /\ half < end
      /\ end \in 1 .. Len(Code[t.ins].items) + 1
      /\ half \in 1 .. Len(Code[t.ins].items) + 1
    BY <1>1, <1>3, SplitIs
<1>5. ASSUME NEW first, NEW last, NEW cond, NEW kids,
             \/ first = start /\ last = half
             \/ first = half /\ last = end,
             kids = Spawned(cond, BodyRange(t, first, last, cond))
      PROVE  NextKids(kids) /\ \A k \in Elems(kids) : TypedTask(k)
  <2>1. /\ first \in Nat \ {0} /\ last \in 1 .. Len(Code[t.ins].items) + 1 /\ first < last
        /\ t.env \in Seq(Var) /\ Reads(program, t.ins, Len(t.env))
    BY <1>2, <1>3, <1>4, <1>5
  <2>2. QED
    BY <1>2, <1>4, <1>5, <2>1, RangeTyped
<1>6. CASE BodyLeft
  <2>1. PICK task, kids, cond :
           /\ task = [current EXCEPT !.phase = "Right"]
           /\ kids = Spawned(cond, BodyRange(t, start, half, cond))
           /\ Requeue(task, kids)
    BY <1>3, <1>6 DEF BodyLeft, b
  <2>2. /\ task.kind = "Body" /\ task.env = current.env /\ task.ins = current.ins
        /\ task.id = current.id
    BY <1>1, <1>2, <2>1 DEF BodyFields
  <2>3. NextKids(kids) /\ \A k \in Elems(kids) : TypedTask(k)
    BY <1>5, <2>1
  <2>4. QED
    BY <1>1, <2>1, <2>2, <2>3, BodyTyping
<1>7. CASE BodyRight
  <2>1. PICK kids, cond : /\ kids = Spawned(cond, BodyRange(t, half, end, cond))
                          /\ Finish(kids)
    BY <1>3, <1>7 DEF BodyRight, b
  <2>2. NextKids(kids) /\ \A k \in Elems(kids) : TypedTask(k)
    BY <1>5, <2>1
  <2>3. QED
    BY <1>1, <1>2, <2>1, <2>2, FinishTyping
<1>8. QED
    BY <1>6, <1>7

(* A fact is posted with the variables of the environment.                 *)
LEMMA BodyPostTyping ==
    ASSUME Here, Typing, program' = program, BodyPost
    PROVE  Typing'
<1>1. queue # <<>> /\ current.kind = "Body" /\ current.phase = "Post"
    BY TaskService DEF BodyPost, BodyIn, Dispatch, b, current
<1>2. /\ current.base = state.graph /\ Graphs /\ BodyPlace(current)
    BY <1>1, BodyIs DEF Owning, Held, Here, Knowledge
<1>3. PICK x, graph, kids :
         /\ x = [rel |-> Ins.rel, args |-> [p \in DOMAIN Ins.args |-> b.env[Ins.args[p]]],
                 live |-> b.cond]
         /\ graph = [state.graph EXCEPT !.facts = Append(@, x)]
         /\ kids = Spawned(b.cond, Activate(graph, Len(graph.facts), b.cond, FALSE))
    OBVIOUS
<1>4. Posted(current.base, Ins.rel, [p \in DOMAIN Ins.args |-> b.env[Ins.args[p]]], b.cond) = graph
    BY <1>2, <1>3 DEF Posted
<1>5. state' = [state EXCEPT !.graph = graph] /\ Finish(kids)
    BY <1>3, <1>4 DEF BodyPost, b
<1>6. state'.graph = graph /\ graph.facts = Append(Facts, x)
    BY <1>2, <1>3, <1>5 DEF Graphs, Facts
<1>7. x.args \in Seq(Var) /\ Ins \in Atoms(program) /\ x.rel = Ins.rel
      /\ DOMAIN x.args = DOMAIN Ins.args
  <2>1. Ins = Code[current.ins] /\ Ins.op = "Post" /\ current.ins \in DOMAIN Code
    BY <1>1, <1>2 DEF BodyPlace, Ins, b
  <2>2. current.env \in Seq(Var) /\ Reads(program, current.ins, Len(current.env))
    BY <1>1, CurrentTyped DEF TypedTask
  <2>3. Ins.args \in Seq(1 .. Len(current.env))
    BY <2>1, <2>2 DEF Reads, Code
  <2>4. PICK args, env : args = Ins.args /\ env = current.env
    OBVIOUS
  <2>5. args \in Seq(1 .. Len(env)) /\ env \in Seq(Var)
    BY <2>2, <2>3, <2>4
  <2>6. \A p \in DOMAIN args : env[args[p]] \in Var
    BY ONLY <2>5
  <2>7. PICK n \in Nat : DOMAIN args = 1 .. n
    BY ONLY <2>5
  <2>8. [p \in DOMAIN args |-> env[args[p]]] \in Seq(Var)
    BY ONLY <2>6, <2>7
  <2>9. Ins \in Atoms(program)
    BY <2>1 DEF Atoms, Code
  <2>10. QED
    BY <1>3, <2>4, <2>8, <2>9 DEF b
<1>8. Typed(graph)
  <2>1. PICK f, g, S : f = Facts /\ g = graph.facts /\ S = Elems(Facts) \cup {x}
    OBVIOUS
  <2>2. f \in Seq(S) /\ x \in S /\ g = Append(f, x)
    BY <1>2, <1>6, <2>1 DEF Graphs
  <2>3. \A o \in DOMAIN g : (o \in DOMAIN f /\ g[o] = f[o]) \/ g[o] = x
    BY ONLY <2>2
  <2>4. \A o \in DOMAIN f : /\ f[o].args \in Seq(Var)
                            /\ \E a \in Atoms(program) : /\ a.rel = f[o].rel
                                                         /\ DOMAIN a.args = DOMAIN f[o].args
    BY <1>1, <2>1, CurrentTyped DEF Typed, Facts
  <2>5. \A o \in DOMAIN g : /\ g[o].args \in Seq(Var)
                            /\ \E a \in Atoms(program) : /\ a.rel = g[o].rel
                                                         /\ DOMAIN a.args = DOMAIN g[o].args
    BY <1>7, <2>3, <2>4
  <2>6. QED
    BY <2>1, <2>5 DEF Typed
<1>9. PICK task : task = Activate(graph, Len(graph.facts), b.cond, FALSE)
    OBVIOUS
<1>10. task.kind = "Activate" /\ DOMAIN task = ActivateFields /\ task.graph = graph
    BY <1>9 DEF Activate, ActivateFields
<1>11. Shaped(task) /\ TypedTask(task)
    BY <1>8, <1>10 DEF Shaped, TypedTask
<1>12. kids = Spawned(b.cond, task)
    BY <1>3, <1>9
<1>13. NextKids(kids) /\ \A k \in Elems(kids) : TypedTask(k)
    BY <1>11, <1>12, TypedChild
<1>14. Typed(state.graph)'
  <2>1. Typed(graph)'
    BY <1>8, TypedStays
  <2>2. QED
    BY <1>6, <2>1 DEF Typed
<1>15. QED
    BY <1>1, <1>5, <1>13, <1>14, FinishTyping

(* A merge changes no fact.                                                *)
LEMMA BodyMergeTyping ==
    ASSUME Here, Typing, program' = program, BodyMerge
    PROVE  Typing'
<1>1. queue # <<>> /\ current.kind = "Body" /\ current.phase = "Merge"
    BY TaskService DEF BodyMerge, BodyIn, Dispatch, b, current
<1>2. /\ current.base = state.graph /\ Graphs
    BY <1>1, BodyIs DEF Owning, Held, Here, Knowledge
<1>3. PICK x, y, g, changed : /\ x = b.env[Ins.x] /\ y = b.env[Ins.y] /\ g = state.graph
                              /\ changed = Changed(g, x, y, b.cond)
    OBVIOUS
<1>4. PICK loser \in [changed -> {x, y}] :
         /\ state' = [state EXCEPT !.graph = Merged(g, x, y, loser)]
         /\ Finish(Spawned(changed, Wake(Merged(g, x, y, loser), Woken(g, loser))))
    BY <1>2, <1>3 DEF BodyMerge, b
<1>5. PICK graph, kids, task :
         /\ graph = Merged(g, x, y, loser)
         /\ task = Wake(graph, Woken(g, loser)) /\ kids = Spawned(changed, task)
    OBVIOUS
<1>6. state'.graph = graph /\ graph.facts = g.facts /\ Finish(kids)
  <2>1. state'.graph = graph
    BY <1>2, <1>4, <1>5 DEF Graphs
  <2>2. DOMAIN g = {"facts", "rep"}
    BY <1>2, <1>3 DEF Graphs
  <2>3. graph.facts = g.facts
    BY <1>5, <2>2 DEF Merged
  <2>4. QED
    BY <1>4, <1>5, <2>1, <2>3
<1>7. Typed(graph)
    BY <1>1, <1>3, <1>6, CurrentTyped DEF Typed
<1>8. task.kind = "Wake" /\ DOMAIN task = WakeFields /\ task.graph = graph
    BY <1>5 DEF Wake, WakeFields
<1>9. Shaped(task) /\ TypedTask(task)
    BY <1>7, <1>8 DEF Shaped, TypedTask
<1>10. NextKids(kids) /\ \A k \in Elems(kids) : TypedTask(k)
    BY <1>5, <1>9, TypedChild
<1>11. Typed(state.graph)'
  <2>1. Typed(graph)'
    BY <1>7, TypedStays
  <2>2. QED
    BY <1>6, <2>1 DEF Typed
<1>12. QED
    BY <1>1, <1>6, <1>10, <1>11, FinishTyping

(* Every phase of a body.                                                  *)
LEMMA BodyTickTyping ==
    ASSUME Here, Typing, program' = program, BodyTick
    PROVE  Typing'
BY BodyAloneTyping, BodyExpandTyping, BodyChoiceTyping, BodyHalvesTyping, BodyPostTyping,
   BodyMergeTyping DEF BodyTick

-----------------------------------------------------------------------------
(* Searches bind variables that exist.                                     *)

(* The bindings of a match in a typed graph.                               *)
LEMMA BindingsTyped ==
    ASSUME program \in Programs, NEW g, Typed(g), NEW r \in RuleId, NEW anchor,
           NEW q \in [DOMAIN Heads(r) -> DOMAIN g.facts],
           \A k \in DOMAIN Heads(r) : g.facts[q[k]].rel = Heads(r)[k].rel
    PROVE  Bindings(g, r, anchor, q) \in Seq(Var)
<1>1. ASSUME NEW s \in 1 .. Rules[r].bound
      PROVE  Bindings(g, r, anchor, q)[s] \in Var
  <2> DEFINE before(y, z) ==
                \/ y[1] = z[1] /\ y[2] <= z[2]
                \/ y[1] # z[1] /\ (y[1] = anchor \/ (z[1] # anchor /\ y[1] < z[1]))
             first == CHOOSE y \in Ports(r, s) : \A z \in Ports(r, s) : before(y, z)
  <2>1. PICK h \in DOMAIN Heads(r) : \E p \in DOMAIN Heads(r)[h].args : Heads(r)[h].args[p] = s
    BY ProgramsArePrepared DEF RuleId, Rules, Heads
  <2>2. PICK p \in DOMAIN Heads(r)[h].args : Heads(r)[h].args[p] = s
    BY <2>1
  <2>3. <<h, p>> \in Ports(r, s)
    BY <2>2, PortsAre
  <2>4. first \in Ports(r, s)
    BY <2>3, FirstPortIs
  <2>5. PICK port : port = first
    OBVIOUS
  <2>6. Bindings(g, r, anchor, q)[s] = g.facts[q[port[1]]].args[port[2]]
    BY <2>5 DEF Bindings
  <2> HIDE DEF first
  <2>7. port[1] \in DOMAIN Heads(r) /\ port[2] \in DOMAIN Heads(r)[port[1]].args
    BY <2>4, <2>5, PortsAre
  <2>8. PICK k, o : k = port[1] /\ o = q[k]
    OBVIOUS
  <2>9. k \in DOMAIN Heads(r) /\ o \in DOMAIN g.facts /\ g.facts[o].rel = Heads(r)[k].rel
        /\ Heads(r)[k] \in Atoms(program)
    BY <2>7, <2>8, PortsAre
  <2>10. PICK a \in Atoms(program) : /\ a.rel = g.facts[o].rel
                                     /\ DOMAIN a.args = DOMAIN g.facts[o].args
    BY <2>9 DEF Typed
  <2>11. DOMAIN g.facts[o].args = DOMAIN Heads(r)[k].args
    BY <2>9, <2>10, ProgramsArePrepared
  <2>12. g.facts[o].args \in Seq(Var) /\ port[2] \in DOMAIN g.facts[o].args
    BY <2>7, <2>8, <2>9, <2>11 DEF Typed
  <2>13. g.facts[o].args[port[2]] \in Var
    <3>1. PICK args, i : args = g.facts[o].args /\ i = port[2]
      OBVIOUS
    <3>2. args \in Seq(Var) /\ i \in DOMAIN args
      BY <2>12, <3>1
    <3>3. args[i] \in Var
      BY ONLY <3>2
    <3>4. QED
      BY <3>1, <3>3
  <2>14. QED
    BY <2>6, <2>8, <2>13
<1>2. Rules[r].bound \in Nat
    BY ProgramsArePrepared DEF RuleId, Rules
<1> DEFINE least(s) ==
            LET before(y, z) ==
                  \/ y[1] = z[1] /\ y[2] <= z[2]
                  \/ y[1] # z[1] /\ (y[1] = anchor \/ (z[1] # anchor /\ y[1] < z[1]))
                port == CHOOSE y \in Ports(r, s) : \A z \in Ports(r, s) : before(y, z)
            IN  g.facts[q[port[1]]].args[port[2]]
<1>3. Bindings(g, r, anchor, q) = [s \in 1 .. Rules[r].bound |-> least(s)]
    BY DEF Bindings
<1> HIDE DEF least
<1>4. PICK f : f = Bindings(g, r, anchor, q)
    OBVIOUS
<1>5. \A s \in 1 .. Rules[r].bound : least(s) \in Var
    BY <1>1, <1>3
<1>6. f \in [1 .. Rules[r].bound -> Var]
    BY <1>3, <1>4, <1>5
<1>7. f \in Seq(Var)
    BY <1>2, <1>6
<1>8. QED
    BY <1>4, <1>7

(* What a search finds in a typed graph.                                   *)
LEMMA DiscoveredTyped ==
    ASSUME program \in Programs, NEW g, Typed(g), NEW r \in RuleId, NEW h, NEW o \in DOMAIN g.facts,
           NEW scope
    PROVE  \A m \in Discovered(g, r, h, o, scope) : m.vars \in Seq(Var)
<1>1. SUFFICES ASSUME NEW m \in Discovered(g, r, h, o, scope) PROVE m.vars \in Seq(Var)
    OBVIOUS
<1>2. CASE DirectAnchor(r)
  <2>1. m.vars = g.facts[o].args
    BY <1>2 DEF Discovered
  <2>2. QED
    BY <2>1 DEF Typed
<1>3. CASE ~DirectAnchor(r)
  <2>1. m \in Matches(g, r, h, o, scope)
    BY <1>3 DEF Discovered
  <2>2. PICK q \in [DOMAIN Heads(r) -> Occurrence(g)] :
           /\ m.vars = Bindings(g, r, h, q)
           /\ \A k \in DOMAIN q : g.facts[q[k]].rel = Heads(r)[k].rel
    BY <2>1 DEF Matches
  <2>3. /\ q \in [DOMAIN Heads(r) -> DOMAIN g.facts]
        /\ \A k \in DOMAIN Heads(r) : g.facts[q[k]].rel = Heads(r)[k].rel
    BY <2>2 DEF Occurrence
  <2>4. QED
    BY <2>2, <2>3, BindingsTyped
<1>4. QED
    BY <1>2, <1>3

(* An activation starts a search in its graph.                             *)
LEMMA ActivateTickTyping ==
    ASSUME Here, Typing, program' = program, ActivateTick
    PROVE  Typing'
<1>1. /\ queue # <<>> /\ current.kind = "Activate" /\ UNCHANGED <<program, state>>
    BY OwnIs DEF ActivateTick, Quiet
<1>2. /\ DOMAIN current = ActivateFields /\ Static(current) /\ program \in Programs
      /\ Typed(current.graph) /\ Typed(state.graph)'
    BY <1>1, CurrentIs, CurrentTyped, StateTyped DEF Shaped, Structure, TypedTask
<1>3. CASE current.triggers = {}
    BY <1>1, <1>3, DoneTyping DEF ActivateTick
<1>4. CASE current.triggers # {}
  <2>1. PICK x : x = FirstTrigger(current.triggers)
    OBVIOUS
  <2>2. /\ current.occ \in DOMAIN current.graph.facts
        /\ TriggersFit(current.triggers, current.graph.facts[current.occ].rel)
    BY <1>1, <1>2 DEF Static, TriggersFit
  <2>3. \A y \in current.triggers : y[1] \in Nat /\ y[2] \in Nat
    BY <1>2, <2>2, RulesAre DEF TriggersFit
  <2>4. x \in current.triggers
    BY <1>4, <2>1, <2>3, FirstTriggerIs
  <2>5. x[1] \in RuleId
    BY <2>2, <2>4 DEF TriggersFit
  <2>6. PICK task, kids, found, search, g, o, r, h, cond :
           /\ g = current.graph /\ o = current.occ /\ r = x[1] /\ h = x[2] /\ cond = current.cond
           /\ task = [current EXCEPT !.triggers = @ \ {x}]
           /\ found = Discovered(g, r, h, o, cond)
           /\ search = Search(r, found)
           /\ kids = Spawned(current.scope, search)
    OBVIOUS
  <2>7. Requeue(task, kids)
    BY <1>4, <2>1, <2>6 DEF ActivateTick
  <2>8. \A m \in found : m.vars \in Seq(Var)
    BY <1>2, <2>2, <2>5, <2>6, DiscoveredTyped
  <2>9. /\ search.kind = "Search" /\ DOMAIN search = SearchFields /\ search.found = found
        /\ search.candidate = None /\ search.commit = None /\ search.transport = FALSE
    BY <2>6 DEF Search, SearchFields
  <2>10. Shaped(search) /\ TypedTask(search)
    BY <2>8, <2>9 DEF Shaped, TypedTask
  <2>11. NextKids(kids) /\ \A k \in Elems(kids) : TypedTask(k)
    BY <2>6, <2>10, TypedChild
  <2>12. task.kind = "Activate" /\ task.id = current.id /\ task.graph = current.graph
    BY <1>1, <1>2, <2>6 DEF ActivateFields
  <2>13. TypedTask(task)
    BY <1>2, <2>12 DEF TypedTask
  <2>14. QED
    BY <1>1, <1>2, <2>7, <2>11, <2>12, <2>13, ReturnTyping
<1>5. QED
    BY <1>3, <1>4

(* A wake starts an activation in its graph.                               *)
LEMMA WakeTickTyping ==
    ASSUME Here, Typing, program' = program, WakeTick
    PROVE  Typing'
<1>1. /\ queue # <<>> /\ current.kind = "Wake" /\ UNCHANGED <<program, state>>
    BY OwnIs DEF WakeTick, Quiet
<1>2. /\ DOMAIN current = WakeFields /\ Typed(current.graph) /\ Typed(state.graph)'
    BY <1>1, CurrentIs, CurrentTyped, StateTyped DEF Shaped, TypedTask
<1>3. CASE current.found = {}
    BY <1>1, <1>3, DoneTyping DEF WakeTick
<1>4. CASE current.found # {}
  <2>1. PICK f \in current.found : \E task, kids :
           /\ task = [current EXCEPT !.found = @ \ {f}]
           /\ \/ kids = <<>>
              \/ kids = Spawned(current.scope, Activate(current.graph, f.occ, f.cond, TRUE))
           /\ Requeue(task, kids)
    BY <1>4 DEF WakeTick
  <2>2. PICK task, kids :
           /\ task = [current EXCEPT !.found = @ \ {f}]
           /\ \/ kids = <<>>
              \/ kids = Spawned(current.scope, Activate(current.graph, f.occ, f.cond, TRUE))
           /\ Requeue(task, kids)
    BY <2>1
  <2>3. PICK kid, scope : /\ kid = Activate(current.graph, f.occ, f.cond, TRUE)
                          /\ scope = current.scope
    OBVIOUS
  <2>4. kid.kind = "Activate" /\ DOMAIN kid = ActivateFields /\ kid.graph = current.graph
    BY <2>3 DEF Activate, ActivateFields
  <2>5. Shaped(kid) /\ TypedTask(kid)
    BY <1>2, <2>4 DEF Shaped, TypedTask
  <2>6. kids = <<>> \/ kids = Spawned(scope, kid)
    BY <2>2, <2>3
  <2>7. NextKids(kids) /\ \A k \in Elems(kids) : TypedTask(k)
    BY <2>5, <2>6, TypedNone, TypedChild
  <2>8. task.kind = "Wake" /\ task.id = current.id /\ task.graph = current.graph
    BY <1>1, <1>2, <2>2 DEF WakeFields
  <2>9. TypedTask(task)
    BY <1>2, <2>8 DEF TypedTask
  <2>10. QED
    BY <1>1, <1>2, <2>2, <2>7, <2>8, <2>9, ReturnTyping
<1>5. QED
    BY <1>3, <1>4

(* A search goes from match to match, takes the lane and begins a commit.  *)
LEMMA SearchTyping ==
    ASSUME Here, Typing, program' = program, SearchTick \/ SearchAcquire \/ SearchBegin
    PROVE  Typing'
<1>1. /\ queue # <<>> /\ current.kind = "Search" /\ UNCHANGED <<program, state>>
    BY OwnIs DEF SearchTick, SearchAcquire, SearchBegin, Quiet
<1>2. /\ DOMAIN current = SearchFields /\ Static(current) /\ current.transport \in BOOLEAN
      /\ TypedTask(current) /\ Typed(state.graph)'
    BY <1>1, SearchIs, CurrentTyped, StateTyped
<1>3. CASE SearchTick
  <2>1. CASE current.found = {}
    BY <1>1, <1>3, <2>1, DoneTyping DEF SearchTick
  <2>2. CASE current.found # {}
    <3>1. PICK m \in current.found :
             Requeue([current EXCEPT !.found = @ \ {m}, !.candidate = m], <<>>)
      BY <1>3, <2>2 DEF SearchTick
    <3>2. PICK task, kids : /\ task = [current EXCEPT !.found = @ \ {m}, !.candidate = m]
                            /\ kids = <<>> /\ Requeue(task, kids)
      BY <3>1
    <3>3. /\ task.kind = "Search" /\ task.id = current.id
          /\ task.found \subseteq current.found /\ task.candidate = m
          /\ task.commit = current.commit
      BY <1>1, <1>2, <3>2 DEF SearchFields
    <3>4. TypedTask(task)
      BY <1>1, <1>2, <3>1, <3>3 DEF TypedTask
    <3>5. QED
      BY <1>1, <1>2, <3>2, <3>3, <3>4, TypedNone, ReturnTyping
  <2>3. QED
    BY <2>1, <2>2
<1>4. CASE SearchAcquire
  <2>1. PICK task : task = [current EXCEPT !.transport = TRUE] /\ AcquireAndRequeue(task)
    BY <1>4 DEF SearchAcquire
  <2>2. /\ task.kind = "Search" /\ task.id = current.id /\ task.found = current.found
        /\ task.candidate = current.candidate /\ task.commit = current.commit
    BY <1>1, <1>2, <2>1 DEF SearchFields
  <2>3. TypedTask(task)
    BY <1>1, <1>2, <2>2 DEF TypedTask
  <2>4. QED
    BY <1>1, <2>1, <2>2, <2>3, AcquireTyping
<1>5. CASE SearchBegin
  <2>1. PICK k : k = [phase |-> "Start", base |-> state, staged |-> state,
                      occs |-> current.candidate.occs, env |-> current.candidate.vars,
                      cond |-> current.candidate.cond, act |-> active, head |-> 1]
    OBVIOUS
  <2>2. PICK task, kids : /\ task = [current EXCEPT !.candidate = None, !.transport = FALSE,
                                                    !.commit = k]
                          /\ kids = <<>> /\ Requeue(task, kids)
    BY <1>5, <2>1 DEF SearchBegin
  <2>3. /\ task.kind = "Search" /\ task.id = current.id /\ task.found = current.found
        /\ task.candidate = None /\ task.commit = k
    BY <1>1, <1>2, <2>2 DEF SearchFields
  <2>4. current.transport = TRUE
    BY <1>2, <1>5 DEF SearchBegin
  <2>5. current.candidate # None
    BY <1>1, <1>2, <2>4 DEF Static
  <2>6. k.env = current.candidate.vars
    BY <2>1
  <2>7. TypedTask(task)
    BY <1>1, <1>2, <2>3, <2>5, <2>6 DEF TypedTask
  <2>8. QED
    BY <1>1, <1>2, <2>2, <2>3, <2>7, TypedNone, ReturnTyping
<1>6. QED
    BY <1>3, <1>4, <1>5

-----------------------------------------------------------------------------
(* Commits.                                                                *)

(* The search with its next commit, or with none.                          *)
LEMMA CommitTyped ==
    ASSUME Here, Typing, queue # <<>>, current.kind = "Search", c # None, NEW k, NEW task,
           task = Commit(k), k = None \/ k.env \in Seq(Var)
    PROVE  TypedTask(task) /\ task.id = current.id /\ c.env \in Seq(Var)
<1>1. DOMAIN current = SearchFields /\ TypedTask(current)
    BY CommitIs, CurrentTyped
<1>2. /\ task.kind = "Search" /\ task.id = current.id /\ task.found = current.found
      /\ task.candidate = current.candidate /\ task.commit = k
    BY <1>1 DEF Commit, SearchFields
<1>3. QED
    BY <1>1, <1>2 DEF TypedTask, c

(* A commit that goes on with its environment, or that is dropped.         *)
LEMMA CommitTyping ==
    ASSUME Here, Typing, queue # <<>>, current.kind = "Search", c # None,
           UNCHANGED <<program, state>>, NEW k, k = None \/ k.env = c.env,
           \/ Requeue(Commit(k), <<>>)
           \/ RequeueReleasing(Commit(k), <<>>)
    PROVE  Typing'
<1>1. PICK task, kids : task = Commit(k) /\ kids = <<>>
    OBVIOUS
<1>2. c.env \in Seq(Var)
    BY CurrentTyped DEF TypedTask, c
<1>3. TypedTask(task) /\ task.id = current.id
    BY <1>1, <1>2, CommitTyped
<1>4. lane = current.id
    BY CommitIs
<1>5. /\ Typed(state.graph)' /\ NextKids(kids) /\ \A x \in Elems(kids) : TypedTask(x)
      /\ Requeue(task, kids) \/ RequeueReleasing(task, kids)
    BY <1>1, CurrentTyped, StateTyped, TypedNone
<1>6. QED
    BY <1>3, <1>4, <1>5, ReturnTyping

(* The phases that leave the environment alone.                            *)
LEMMA CommitAloneTyping ==
    ASSUME Here, Typing, program' = program,
           CommitEmpty \/ CommitStart \/ CommitHead \/ CommitHeadsDone \/ CommitHistory
              \/ CommitRecord \/ CommitConsume
    PROVE  Typing'
<1>1. queue # <<>> /\ current.kind = "Search" /\ c # None /\ UNCHANGED <<program, state>>
    BY OwnIs, CommitOwnIs DEF CommitEmpty, CommitStart, CommitHead, CommitHeadsDone, CommitHistory,
       CommitRecord, CommitConsume, Quiet
<1>2. DOMAIN c = CommitFields
    BY <1>1, CommitIs DEF Committing
<1>3. ASSUME CommitReject PROVE Typing'
  <2>1. PICK k : k = None /\ RequeueReleasing(Commit(k), <<>>)
    BY <1>3 DEF CommitReject
  <2>2. QED
    BY <1>1, <2>1, CommitTyping
<1>4. ASSUME NEW k, k.env = c.env, Requeue(Commit(k), <<>>) PROVE Typing'
    BY <1>1, <1>4, CommitTyping
<1>5. CASE CommitEmpty
    BY <1>3, <1>5 DEF CommitEmpty
<1>6. CASE CommitStart
  <2>1. PICK k : k = [c EXCEPT !.phase = "Head", !.cond = @ \cap c.act]
    OBVIOUS
  <2>2. k.env = c.env /\ Requeue(Commit(k), <<>>)
    BY <1>2, <1>6, <2>1 DEF CommitStart, CommitFields
  <2>3. QED
    BY <1>4, <2>2
<1>7. CASE CommitHead
  <2>1. PICK cond, k : /\ k = [c EXCEPT !.head = @ + 1, !.cond = @ \cap cond]
                       /\ CommitReject \/ Requeue(Commit(k), <<>>)
    BY <1>7 DEF CommitHead
  <2>2. k.env = c.env
    BY <1>2, <2>1 DEF CommitFields
  <2>3. QED
    BY <1>3, <1>4, <2>1, <2>2
<1>8. CASE CommitHeadsDone
  <2>1. PICK k : k = [c EXCEPT !.phase = "History"]
    OBVIOUS
  <2>2. k.env = c.env /\ Requeue(Commit(k), <<>>)
    BY <1>2, <1>8, <2>1 DEF CommitHeadsDone, CommitFields
  <2>3. QED
    BY <1>4, <2>2
<1>9. CASE CommitHistory
  <2>1. PICK k : /\ \/ k = [c EXCEPT !.phase = "Record",
                                     !.cond = @ \ Recorded(c.base.history, rule, c.occs)]
                    \/ k = [c EXCEPT !.phase = "Consume", !.head = Rules[rule].kept + 1]
                 /\ Requeue(Commit(k), <<>>)
    BY <1>9 DEF CommitHistory
  <2>2. k.env = c.env
    BY <1>2, <2>1 DEF CommitFields
  <2>3. QED
    BY <1>4, <2>1, <2>2
<1>10. CASE CommitRecord
  <2>1. PICK history, k : /\ k = [c EXCEPT !.phase = "Fresh", !.staged.history = history]
                          /\ Requeue(Commit(k), <<>>)
    BY <1>10 DEF CommitRecord
  <2>2. k.env = c.env
    BY <1>2, <2>1 DEF CommitFields
  <2>3. QED
    BY <1>4, <2>1, <2>2
<1>11. CASE CommitConsume
  <2>1. PICK graph, k : /\ \/ k = [c EXCEPT !.phase = "Fresh"]
                           \/ k = [c EXCEPT !.head = @ + 1, !.staged.graph = graph]
                        /\ Requeue(Commit(k), <<>>)
    BY <1>11 DEF CommitConsume
  <2>2. k.env = c.env
    BY <1>2, <2>1 DEF CommitFields
  <2>3. QED
    BY <1>4, <2>1, <2>2
<1>12. QED
    BY <1>5, <1>6, <1>7, <1>8, <1>9, <1>10, <1>11

(* A fresh variable is appended.                                           *)
LEMMA CommitFreshTyping ==
    ASSUME Here, Typing, program' = program, CommitFresh
    PROVE  Typing'
<1>1. queue # <<>> /\ current.kind = "Search" /\ c # None /\ UNCHANGED <<program, state>>
    BY CommitOwnIs DEF CommitFresh, Quiet
<1>2. DOMAIN c = CommitFields /\ c.env \in Seq(Var)
    BY <1>1, CommitIs, CurrentTyped DEF Committing, TypedTask, c
<1>3. PICK env, k, task : /\ env = c.env /\ k = [c EXCEPT !.env = Append(env, next.var)]
                          /\ task = Commit(k)
    OBVIOUS
<1>4. /\ queue' = Append(Tail(queue), task) /\ next' = [next EXCEPT !.var = @ + 1]
      /\ UNCHANGED laneVars /\ next.var <= MaxVar
    BY <1>3 DEF CommitFresh
<1>5. k.env \in Seq(Var)
    BY <1>2, <1>3, <1>4, NextVariable DEF CommitFields
<1>6. TypedTask(task) /\ task.id = current.id
    BY <1>1, <1>3, <1>5, CommitTyped
<1>7. QED
    BY <1>1, <1>4, <1>6, VariableTyping

(* The body of the rule reads its slots.                                   *)
LEMMA CommitAppliedTyping ==
    ASSUME Here, Typing, program' = program, CommitApplied
    PROVE  Typing'
<1>1. /\ queue # <<>> /\ current.kind = "Search" /\ c # None /\ c.phase = "Fresh"
      /\ state' = c.staged /\ lane = current.id /\ Committing(rule, c) /\ Tuple(rule, c.occs)
      /\ program \in Programs
    BY CommitReadyIs
<1>2. c.env \in Seq(Var) /\ Typed(state.graph)
    BY <1>1, CurrentTyped DEF TypedTask, c
<1>3. Typed(state.graph)'
  <2>1. PICK g, old : g = c.staged.graph /\ old = state.graph
    OBVIOUS
  <2>2. Shrunk(old.facts, g.facts) /\ Typed(old)
    BY <1>1, <1>2, <2>1 DEF Committing, Facts
  <2>3. Typed(g)
    BY <2>2 DEF Shrunk, Typed
  <2>4. Typed(g)'
    BY <2>3, TypedStays
  <2>5. QED
    BY <1>1, <2>1, <2>4 DEF Typed
<1>4. PICK task, kids, ins, env, cond :
         /\ task = Commit(None) /\ ins = Rules[rule].body /\ env = c.env /\ cond = c.cond
         /\ kids = Spawned(cond, Body(ins, env, cond))
    OBVIOUS
<1>5. RequeueReleasing(task, kids) /\ Len(env) = Rules[rule].slots
    BY <1>4 DEF CommitApplied
<1>6. env \in Seq(Var) /\ Reads(program, ins, Len(env))
    BY <1>1, <1>2, <1>4, <1>5, ProgramsArePrepared DEF Tuple, RuleId, Rules
<1>7. NextKids(kids) /\ \A k \in Elems(kids) : TypedTask(k)
    BY <1>4, <1>6, BodyTyped
<1>8. TypedTask(task) /\ task.id = current.id
    BY <1>1, <1>4, CommitTyped
<1>9. QED
    BY <1>1, <1>3, <1>5, <1>7, <1>8, ReturnTyping

(* Every phase of a commit.                                                *)
LEMMA CommitTickTyping ==
    ASSUME Here, Typing, program' = program, CommitTick
    PROVE  Typing'
BY CommitAloneTyping, CommitFreshTyping, CommitAppliedTyping DEF CommitTick

(* A job that is not done yet.                                             *)
LEMMA TaskPendingTyping ==
    ASSUME Here, Typing, program' = program, TaskPending
    PROVE  Typing'
<1>1. queue # <<>> /\ UNCHANGED <<program, state>>
    BY TaskService DEF TaskPending
<1>2. PICK task, kids : task = current /\ kids = <<>>
    OBVIOUS
<1>3. Requeue(task, kids) /\ TypedTask(task) /\ Typed(state.graph)'
    BY <1>1, <1>2, CurrentTyped, StateTyped DEF TaskPending
<1>4. QED
    BY <1>1, <1>2, <1>3, TypedNone, ReturnTyping

-----------------------------------------------------------------------------
(* The steps of the completion, the observer and the client.               *)

(* The tasks are where they were, or resumed.                              *)
LEMMA ReleaseSame ==
    ASSUME IsSeq(queue), IsSeq(waiting), queued \in BOOLEAN, ReleaseLane(queue, <<>>)
    PROVE  Tasks' = Tasks
<1>1. PICK before, after : before = queue /\ after = <<>>
    OBVIOUS
<1>2. IsSeq(before) /\ IsSeq(after) /\ Elems(after) = {} /\ Elems(before) = Elems(queue)
      /\ ReleaseLane(before, after)
    BY <1>1, EmptyIs
<1>3. CASE waiting = <<>>
  <2>1. queue' = before \o after /\ waiting' = waiting
    BY <1>2, <1>3 DEF ReleaseLane
  <2>2. Elems(before \o after) = Elems(before) \cup Elems(after)
    BY <1>2, CatIs
  <2>4. Elems(queue') = Elems(queue)
    BY <1>2, <2>1, <2>2
  <2>3. QED
    BY <2>1, <2>4 DEF Tasks
<1>4. CASE waiting # <<>>
  <2>1. PICK entry : entry = Head(waiting)
    OBVIOUS
  <2>2. /\ waiting' = Tail(waiting)
        /\ queue' = before \o (IF entry.id = Completion THEN <<>> ELSE <<entry>>) \o after
    BY <1>2, <1>4, <2>1 DEF ReleaseLane
  <2>3. Elems(waiting) = {entry} \cup Elems(waiting')
    BY <1>4, <2>1, <2>2, TailIs
  <2>4. PICK more : more = (IF entry.id = Completion THEN <<>> ELSE <<entry>>)
    OBVIOUS
  <2>5. IsSeq(more) /\ Elems(more) = (IF entry.id = Completion THEN {} ELSE {entry})
    BY <2>4, EmptyIs, OneIs
  <2>6. /\ IsSeq(before \o more)
        /\ Elems(before \o more) = Elems(before) \cup Elems(more)
    BY <1>2, <2>5, CatIs
  <2>7. Elems(queue') = Elems(before) \cup Elems(more) \cup Elems(after)
    BY <1>2, <2>2, <2>4, <2>6, CatIs
  <2>8. QED
    BY <1>2, <2>3, <2>5, <2>7 DEF Tasks
<1>5. QED
    BY <1>3, <1>4

(* The tasks stay when none of them is dispatched, and nothing becomes     *)
(* active.                                                                 *)
LEMMA AsideTasks ==
    ASSUME There, [Next]_vars,
           ~(InitTick \/ BodyTick \/ ReaderTick \/ CommitTick \/ TaskPending)
    PROVE  Aside /\ Tasks' = Tasks /\ active' \subseteq active
<1>1. /\ IsSeq(queue) /\ IsSeq(waiting) /\ queued \in BOOLEAN /\ DOMAIN ready = ReadyFields
    BY DEF There, Here, Structure
<1>2. CASE Publish \/ ReadyFilter
  <2>1. Aside /\ active' \subseteq active
    <3>1. program' = program
      BY DEF Next, Advance, vars
    <3>2. CASE ReadyFilter
      BY <3>1, <3>2 DEF ReadyFilter, Aside
    <3>3. CASE Publish
      <4>1. ready.act = active
        BY <3>3 DEF Publish, CompletionIn, There, Here, Knowledge
      <4>2. QED
        BY <3>1, <3>3, <4>1 DEF Publish, Aside
    <3>4. QED
      BY <1>2, <3>2, <3>3
  <2>2. ReleaseLane(queue, <<>>) \/ UNCHANGED <<queue, waiting>>
    BY <1>2 DEF Publish, ReadyFilter, laneVars
  <2>3. CASE ReleaseLane(queue, <<>>)
    BY <1>1, <2>1, <2>3, ReleaseSame
  <2>4. CASE UNCHANGED <<queue, waiting>>
    BY <2>1, <2>4 DEF Tasks
  <2>5. QED
    BY <2>2, <2>3, <2>4
<1>3. CASE ReadyAcquire
  <2>1. Aside /\ active' = active /\ queue' = queue
    BY <1>3 DEF ReadyAcquire, taskVars, Aside, Next, Advance, vars
  <2>2. waiting' = waiting \/ waiting' = Append(waiting, [id |-> Completion])
    BY <1>3 DEF ReadyAcquire
  <2>3. CASE waiting' = waiting
    BY <2>1, <2>3 DEF Tasks
  <2>4. CASE waiting' = Append(waiting, [id |-> Completion])
    <3>1. PICK one : one = [id |-> Completion]
      OBVIOUS
    <3>2. waiting' = waiting \o <<one>>
      BY <1>1, <2>4, <3>1, AppendIs
    <3>3. Elems(waiting') = Elems(waiting) \cup {one} /\ one.id = Completion
      BY <1>1, <3>1, <3>2, OneIs, CatIs
    <3>4. QED
      BY <2>1, <3>3 DEF Tasks
  <2>5. QED
    BY <2>2, <2>3, <2>4
<1>4. CASE \/ Capture \/ Scan \/ Difference \/ ReadyTransport \/ CompletionPending
           \/ Observation \/ Idle \/ TakeOutput \/ UNCHANGED vars
  <2>1. UNCHANGED <<state, next, active, queue, waiting>>
    BY <1>4 DEF Capture, Scan, Difference, ReadyTransport, CompletionPending, Observation,
                Idle, TakeOutput, vars, taskVars, laneVars
  <2>2. program' = program
    BY DEF Next, Advance, vars
  <2>3. QED
    BY <2>1, <2>2 DEF Aside, Tasks
<1>5. QED
    BY <1>2, <1>3, <1>4 DEF Next, Advance, CompletionTick

-----------------------------------------------------------------------------
(* Every step.                                                             *)

(* What is typed stays so.                                                 *)
LEMMA NextTyping ==
    ASSUME There, Typing, [Next]_vars
    PROVE  Typing'
<1>1. Here
    BY DEF There
<1>2. program' = program
    BY DEF Next, Advance, vars
<1>3. CASE InitTick \/ BodyTick \/ ReaderTick \/ CommitTick \/ TaskPending
    BY <1>1, <1>2, <1>3, InitTickTyping, BodyTickTyping, ActivateTickTyping, WakeTickTyping,
       SearchTyping, CommitTickTyping, TaskPendingTyping DEF ReaderTick
<1>4. CASE ~(InitTick \/ BodyTick \/ ReaderTick \/ CommitTick \/ TaskPending)
  <2>1. Aside /\ Tasks' = Tasks
    BY <1>4, AsideTasks
  <2>2. state' = state /\ next' = next
    BY <2>1 DEF Aside
  <2>3. Typed(state.graph)' /\ next'.var \in Nat \ {0}
    BY <1>2, <2>2, StateTyped DEF Typing
  <2>4. \A t \in Tasks' : TypedTask(t)'
    BY <1>2, <2>1, TypedStays DEF Typing
  <2>5. QED
    BY <2>3, <2>4 DEF Typing
<1>5. QED
    BY <1>3, <1>4

(* What is applicable stays in somebody's hands.                           *)
LEMMA NextOwed ==
    ASSUME NoneApart, There, Typing, Owed, [Next]_vars
    PROVE  Owed'
<1>1. Here /\ Typed(state.graph)
    BY DEF There, Typing
<1>2. program' = program
    BY DEF Next, Advance, vars
<1>3. CASE BodyTick
    BY <1>1, <1>2, <1>3, BodyTickOwed, BodyPostOwed, BodyMergeOwed
<1>4. CASE InitTick \/ ReaderTick \/ CommitTick \/ TaskPending
    BY <1>1, <1>2, <1>4, InitTickOwed, ActivateTickOwed, WakeTickOwed, SearchTickOwed,
       SearchAcquireOwed, SearchBeginOwed, CommitTickOwed, TaskPendingOwed DEF ReaderTick
<1>5. CASE ~(InitTick \/ BodyTick \/ ReaderTick \/ CommitTick \/ TaskPending)
  <2>1. UNCHANGED <<program, state>> /\ Tasks' = Tasks /\ active' \subseteq active
    BY <1>5, AsideTasks DEF Aside
  <2>2. PICK gone : gone = {}
    OBVIOUS
  <2>3. Tasks \ gone \subseteq Tasks'
    BY <2>1
  <2>4. \A w \in active : \A r \in RuleId : \A occs \in Tuples(r) : \A t \in gone :
           Applicable(state, r, occs, w) /\ Carries(t, r, occs, w)
              => \E u \in Tasks' : Carries(u, r, occs, w)
    BY <2>2
  <2>5. QED
    BY <2>1, <2>3, <2>4, QuietOwed
<1>6. QED
    BY <1>3, <1>4, <1>5

(* In the beginning there is nothing to match.                             *)
LEMMA StartOwed ==
    ASSUME Init
    PROVE  Typing /\ Owed
<1>1. PICK t : t = InitTask
    OBVIOUS
<1>2. t.kind = "Init" /\ t.id = 1 /\ t.env = <<>>
    BY <1>1 DEF InitTask
<1>3. /\ queue = <<t>> /\ waiting = <<>> /\ program \in Programs
      /\ next.var = 1 /\ state.graph.facts = <<>>
    BY <1>1 DEF Init, EmptyGraph
<1>4. Elems(queue) = {t} /\ Elems(waiting) = {}
    BY <1>3, OneIs, EmptyIs
<1>5. Tasks = {t}
    BY <1>2, <1>4 DEF Tasks
<1>6. Typed(state.graph) /\ TypedTask(t)
    BY <1>2, <1>3 DEF Typed, TypedTask
<1>7. Typing
    BY <1>3, <1>5, <1>6 DEF Typing
<1>8. ASSUME NEW r \in RuleId PROVE Tuples(r) = {}
  <2>2. PICK heads : heads = Heads(r)
    OBVIOUS
  <2>3. heads \in Seq(Atoms(program)) /\ heads # <<>>
    BY <1>3, <2>2, ProgramsArePrepared DEF RuleId, Rules, Heads
  <2>4. 1 \in DOMAIN heads
    BY ONLY <2>3
  <2>5. DOMAIN Facts = {}
    BY <1>3 DEF Facts
  <2>6. QED
    BY <2>2, <2>4, <2>5 DEF Tuples
<1>9. QED
    BY <1>7, <1>8 DEF Owed

-----------------------------------------------------------------------------
(* Nothing is applicable in an answer.                                     *)

(* Who carries a match in a world works in that world.                     *)
LEMMA CarriesWithin ==
    ASSUME There, NEW t \in Tasks, NEW r, NEW occs, NEW w, Carries(t, r, occs, w)
    PROVE  t.id \in TaskId /\ w \in pending[t.id]
<1>1. Working(t) /\ Structure
    BY DEF There, Here, Rows, WorkRows
<1>2. t.id \in TaskId
  <2>1. Task(t)
    BY <1>1 DEF Structure, Tasks
  <2>2. QED
    BY <1>1, <2>1, TaskIds DEF Task
<1>3. Inside(t, pending[t.id])
    BY <1>1 DEF Working, Within
<1>4. w \in pending[t.id]
    BY <1>3 DEF Carries, Inside, Finds, Committed
<1>5. QED
    BY <1>2, <1>4

(* A world that is published is nobody's any more, so nothing is owed.     *)
LEMMA PublishedIsNormal ==
    ASSUME There, Owed, Publish, NEW w \in ready.scope, NEW r \in RuleId, NEW occs \in Tuples(r)
    PROVE  ~Applicable(state, r, occs, w)
<1>1. C!CertificateSound
    BY DEF There, Rows, C!Invariant
<1>2. ReadyView.phase = "Publish" /\ ReadyView.scope = ready.scope
    BY DEF Publish, CompletionIn, ReadyView
<1>3. w \notin ReadyView.blocked /\ \A t \in TaskId : w \notin ReadyView.rows[t]
    BY <1>1, <1>2 DEF C!CertificateSound
<1>4. w \in active /\ \A t \in TaskId : w \notin pending[t]
    BY <1>1, <1>2, <1>3 DEF C!CertificateSound
<1>5. QED
    BY <1>4, CarriesWithin DEF Owed

(* An answer in whose worlds no rule is applicable.                        *)
Normal(a) ==
    \A w \in a.scope, r \in RuleId :
        \A occs \in [DOMAIN Heads(r) -> Occurrence(a.state.graph)] :
            ~Applicable(a.state, r, occs, w)

(* It stays so as the program does.                                        *)
LEMMA NormalStays ==
    ASSUME program' = program, NEW a, Normal(a)
    PROVE  Normal(a)'
<1>1. /\ RuleId' = RuleId /\ Rules' = Rules
      /\ \A r : Heads(r)' = Heads(r) /\ (Pure(r)' <=> Pure(r))
      /\ \A r, s : Ports(r, s)' = Ports(r, s)
    BY ProgramStays
<1>2. ASSUME NEW r, NEW occs, NEW w
      PROVE  Applicable(a.state, r, occs, w)' => Applicable(a.state, r, occs, w)
  <2>1. /\ Heads(r)' = Heads(r) /\ Rules'[r].bound = Rules[r].bound
        /\ Pure(r)' <=> Pure(r)
        /\ \A s : Ports(r, s)' = Ports(r, s)
    BY <1>1
  <2>2. QED
    BY <2>1 DEF Applicable
<1>3. QED
    BY <1>1, <1>2 DEF Normal

(* Answers stay normal, and a new one is.                                  *)
LEMMA NormalKeeps ==
    ASSUME There, Owed, NothingApplicable, [Next]_vars
    PROVE  NothingApplicable'
<1>1. program' = program
    BY DEF Next, Advance, vars
<1>2. IsSeq(answers)
    BY DEF There, Rows, AnswerRows
<1>3. \A i \in DOMAIN answers : Normal(answers[i])
    BY DEF NothingApplicable, Normal
<1>4. ASSUME NEW i \in DOMAIN answers', NEW a, a = answers'[i] PROVE Normal(a)
  <2>1. CASE answers' = answers
    BY <1>3, <1>4, <2>1
  <2>2. CASE answers' # answers
    <3>1. PICK last : last = [scope |-> ready.scope, state |-> state]
      OBVIOUS
    <3>2. Publish
      BY <2>2, TasksUnseen
         DEF Unseen, Next, Advance, CompletionTick, Capture, Scan, Difference, ReadyAcquire,
             ReadyTransport, ReadyFilter, CompletionPending, Observation, Idle, TakeOutput,
             vars, viewVars
    <3>3. answers' = Append(answers, last)
      BY <3>1, <3>2 DEF Publish
    <3>4. CASE i \in DOMAIN answers
      <4>1. a = answers[i]
        BY <1>2, <1>4, <3>3, <3>4 DEF IsSeq
      <4>2. QED
        BY <1>3, <3>4, <4>1
    <3>5. CASE i \notin DOMAIN answers
      <4>1. a = last
        BY <1>2, <1>4, <3>3, <3>5 DEF IsSeq
      <4>2. /\ a.scope = ready.scope /\ a.state = state
            /\ Occurrence(a.state.graph) = DOMAIN Facts
        BY <3>1, <4>1 DEF Occurrence, Facts
      <4>3. QED
        BY <3>2, <4>2, PublishedIsNormal DEF Normal, Tuples
    <3>6. QED
      BY <3>4, <3>5
  <2>3. QED
    BY <2>1, <2>2
<1>5. ASSUME NEW i \in DOMAIN answers', NEW w \in answers'[i].scope, NEW r \in RuleId',
             NEW occs \in [DOMAIN Heads(r)' -> Occurrence(answers'[i].state.graph)]
      PROVE  ~Applicable(answers[i].state, r, occs, w)'
  <2>1. PICK a : a = answers'[i]
    OBVIOUS
  <2>2. Normal(a)'
    BY <1>1, <1>4, <2>1, NormalStays
  <2>3. QED
    BY <2>1, <2>2 DEF Normal
<1>6. QED
    BY <1>5 DEF NothingApplicable

-----------------------------------------------------------------------------
(* The answers.                                                            *)

(* The answers of the engine are normal forms for ever.  What is published *)
(* was worked off: whatever rule is applicable in an active world is in    *)
(* the hands of a task that works in that world (Owed), however old the    *)
(* graph is that the task reads, and the completion publishes only worlds  *)
(* in which no task works.  The hypothesis is that of an empty Option.     *)
THEOREM AnswersAreNormal ==
    ASSUME NoneApart
    PROVE  Spec => []AnswersAreNormalForms
<1>1. Init => Typing /\ Owed /\ NothingApplicable
  <2>1. Init => NothingApplicable
    BY DEF Init, NothingApplicable
  <2>2. QED
    BY <2>1, StartOwed
<1>2. IInv /\ Rows /\ Typing /\ Owed /\ NothingApplicable /\ [Next]_vars
         => Typing' /\ Owed' /\ NothingApplicable'
  <2>1. IInv /\ Rows => There
    BY DEF IInv, There, Here
  <2>2. QED
    BY <2>1, NextTyping, NextOwed, NormalKeeps
<1>3. Spec => []NothingApplicable
    BY <1>1, <1>2, EngineRows, PTL DEF Spec
<1>4. QED
    BY <1>3, AnswersAreFinal, PTL DEF AnswersAreNormalForms

=============================================================================
