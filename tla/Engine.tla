-------------------------------- MODULE Engine --------------------------------
(***************************************************************************)
(* The execution of a program by src/engine.rs and src/commit.rs: one      *)
(* dispatch of Engine::advance per step.                                   *)
(*                                                                         *)
(* The engine runs all alternatives of a disjunction at once, in one graph *)
(* whose rows carry conditions (sets of worlds).  Its work is cut into     *)
(* tasks in a FIFO: instructions (Body), the search for rule applications  *)
(* a posted fact may complete (Activate, Search) and for those a merge of  *)
(* variables may complete (Wake).  Whoever changes the graph, the history  *)
(* or `active' owns the mutation lane meanwhile.  Searches read the graph  *)
(* they were started on, which may be long out of date when they find a    *)
(* match; the commit checks it again.                                      *)
(*                                                                         *)
(* Certificate.tla and Lane.tla are the abstract views of this module.     *)
(* Left out: programs with constructor declarations (normalization),       *)
(* inspection, stepping, cancellation and collection, which the engine     *)
(* services between these steps.                                           *)
(***************************************************************************)
EXTENDS Graph

CONSTANTS
    Completion, \* Owner::Completion
    Free,       \* nobody owns the lane
    None,       \* an empty Option
    MaxChoice,  \* bound: choices a run may create
    MaxTask,    \* bound: tasks any run may create; program.tasks for a program
    MaxSlack    \* bound: ticks of a run that leave a job Pending

ASSUME EngineBounds ==
    /\ MaxChoice \in Nat /\ MaxTask \in Nat /\ MaxVar \in Nat
    /\ \A p \in Programs : p.tasks \in 1 .. MaxTask

(* The condition that is always true holds somewhere.                      *)
ASSUME SomeWorld == World # {}

ASSUME EngineOwnersDistinct ==
    /\ Completion \notin 1 .. MaxTask
    /\ Free \notin 1 .. MaxTask
    /\ Completion # Free

VARIABLES
    active,     \* Engine.active
    state,      \* Engine.state: the graph and the propagation history
    queue,      \* Engine.queue
    lane,       \* Engine.lane
    waiting,    \* Engine.waiting: tasks, or [id |-> Completion]
    queued,     \* Engine.completion_waiting
    pending,    \* Engine.pending_root: condition per task, {} when absent
    ready,      \* Engine.ready
    observer,   \* Engine.observer: the answers it has still to emit, or None
    output,     \* Engine.output: an answer, or None
    births,     \* number of choices in Engine.births
    next,       \* next task, and next variable
    ticks,      \* Engine.ticks % 3
    slack,      \* Pending ticks left
    failed,     \* history: the worlds that failed
    published,  \* history: how often each world was published
    answers,    \* history: the completions
    applied     \* history: the rule applications

vars == <<program, active, state, queue, lane, waiting, queued, pending, ready, observer,
          output, births, next, ticks, slack, failed, published, answers, applied>>

(* Groups of variables that actions leave alone together; `others' are     *)
(* those a task leaves alone that only goes on with its own work.          *)
others == <<active, state, ready, observer, output, births, slack, failed,
            published, answers, applied>>
laneVars == <<lane, waiting, queued>>
viewVars == <<observer, output, published, answers>>

-----------------------------------------------------------------------------
(* Worlds.  Choice n is decided in world w by w[n].                        *)

AllWorlds == [1 .. MaxChoice -> BOOLEAN]
Condition == SUBSET World
Decision(choice) == {w \in World : w[choice]}
TaskId == 1 .. MaxTask

-----------------------------------------------------------------------------
(* Tasks.  A task has id, scope (its row in the pending root) and the      *)
(* fields of its kind; id and scope are filled in by Spawned.              *)

Body(ins, env, cond) ==
    [kind |-> "Body", id |-> 0, scope |-> {}, ins |-> ins, env |-> env, cond |-> cond,
     phase |-> "Dispatch", index |-> 1, end |-> 0, choice |-> 0, base |-> None, act |-> {}]

(* Engine::body_range: an arm of its own, or the rest of the disjunction.  *)
BodyRange(b, start, end, cond) ==
    IF end - start = 1
    THEN Body(Code[b.ins].items[start], b.env, cond)
    ELSE [Body(b.ins, b.env, cond) EXCEPT !.index = start, !.end = end]

Activate(graph, occ, cond, identityOnly) ==
    [kind |-> "Activate", id |-> 0, scope |-> {}, graph |-> graph, occ |-> occ, cond |-> cond,
     triggers |-> Triggers(graph.facts[occ].rel, identityOnly)]

Search(r, found) ==
    [kind |-> "Search", id |-> 0, scope |-> {}, rule |-> r, found |-> found,
     candidate |-> None, transport |-> FALSE, commit |-> None]

Wake(graph, found) ==
    [kind |-> "Wake", id |-> 0, scope |-> {}, graph |-> graph, found |-> found]

(* Engine::spawn: nothing is spawned in no world.                          *)
Spawned(scope, task) ==
    IF scope = {} THEN <<>> ELSE <<[task EXCEPT !.id = next.task, !.scope = scope]>>

InitTask == [kind |-> "Init", id |-> 1, scope |-> World, env |-> <<>>]

(* row: the frozen row whose Or job is running, or 0.  act: `active' when  *)
(* the running job of Filter or Publish started.                           *)
NoReady == [phase |-> "None", rows |-> [t \in TaskId |-> {}], row |-> 0,
            blocked |-> {}, scope |-> {}, act |-> {}]

Init ==
    /\ program \in Programs
    /\ active = World
    /\ state = [graph |-> EmptyGraph, history |-> {}]
    /\ queue = <<InitTask>>
    /\ lane = Free
    /\ waiting = <<>>
    /\ queued = FALSE
    /\ pending = [t \in TaskId |-> IF t = 1 THEN World ELSE {}]
    /\ ready = NoReady
    /\ observer = None
    /\ output = None
    /\ births = 0
    /\ next = [task |-> 2, var |-> 1]
    /\ ticks = 0
    /\ slack = MaxSlack
    /\ failed = {}
    /\ published = [w \in World |-> 0]
    /\ answers = <<>>
    /\ applied = <<>>

-----------------------------------------------------------------------------
(* Engine::advance: which service the next tick goes to.                   *)

(* Engine::can_complete.  Without choices every task covers every world.   *)
CanComplete ==
    /\ observer = None
    /\ output = None
    /\ active # {} \/ ready # NoReady
    /\ ~ /\ ready = NoReady
         /\ active = World
         /\ births = 0
         /\ \E t \in TaskId : pending[t] # {}

CanObserve == observer # None /\ output = None

(* Fault: answers and observers wait for the tasks.                        *)
ServiceTasksFirst ==
    IF queue # <<>>       THEN "task"
    ELSE IF CanComplete   THEN "completion"
    ELSE IF CanObserve    THEN "observation"
    ELSE "idle"

Service ==
    CASE ticks = 1 /\ CanComplete -> "completion"
      [] ticks = 2 /\ CanObserve  -> "observation"
      [] OTHER -> IF queue # <<>>       THEN "task"
                  ELSE IF CanComplete   THEN "completion"
                  ELSE IF CanObserve    THEN "observation"
                  ELSE "idle"

Tick == ticks' = (ticks + 1) % 3

(* The task at the front of the queue is dispatched.                       *)
Dispatch(kind) ==
    /\ Service = "task"
    /\ Head(queue).kind = kind
    /\ Tick

(* It only goes on with its own work.                                      *)
Own(kind) == Dispatch(kind) /\ UNCHANGED others

current == Head(queue)
Fits(kids) == next.task + Len(kids) <= program.tasks + 1

(* Fault: children get no row of their own.                                *)
AdmitUnrecorded(kids, done) ==
    /\ Fits(kids)
    /\ pending' = [pending EXCEPT ![current.id] = IF done THEN {} ELSE @]
    /\ next' = [next EXCEPT !.task = @ + Len(kids)]

(* The rows and identities after the current task created `kids'.          *)
Admit(kids, done) ==
    /\ Fits(kids)
    /\ pending' = [t \in TaskId |->
                     IF done /\ t = current.id THEN {}
                     ELSE IF \E i \in DOMAIN kids : kids[i].id = t
                          THEN (CHOOSE k \in {kids[i] : i \in DOMAIN kids} : k.id = t).scope
                          ELSE pending[t]]
    /\ next' = [next EXCEPT !.task = @ + Len(kids)]

(* release_lane: the front of the FIFO owns the lane; a task goes back to  *)
(* the queue.  `before' and `after' is the queue around it.                *)
ReleaseLane(before, after) ==
    IF waiting = <<>>
    THEN /\ lane' = Free
         /\ queue' = before \o after
         /\ UNCHANGED <<waiting, queued>>
    ELSE LET entry == Head(waiting)
         IN /\ lane' = entry.id
            /\ waiting' = Tail(waiting)
            /\ queued' = (queued /\ entry.id # Completion)
            /\ queue' = before \o (IF entry.id = Completion THEN <<>> ELSE <<entry>>) \o after

(* The three ways a dispatch ends: the task goes to the back of the queue, *)
(* perhaps after releasing the lane, or it is done.                        *)
Requeue(task, kids) ==
    /\ Admit(kids, FALSE)
    /\ queue' = Tail(queue) \o kids \o <<task>>
    /\ UNCHANGED laneVars

RequeueReleasing(task, kids) ==
    /\ Admit(kids, FALSE)
    /\ ReleaseLane(Tail(queue) \o kids, <<task>>)

(* Fault: a finished task forgets the lane.                                *)
FinishOwning(kids) ==
    /\ Admit(kids, TRUE)
    /\ queue' = Tail(queue) \o kids
    /\ UNCHANGED laneVars

Finish(kids) ==
    /\ Admit(kids, TRUE)
    /\ IF lane = current.id
       THEN ReleaseLane(Tail(queue) \o kids, <<>>)
       ELSE queue' = Tail(queue) \o kids /\ UNCHANGED laneVars

(* Fault: the lane is taken from its owner.                                *)
TakeAny(owner) == TRUE

(* acquire(Owner::Task(id)): the owner, or anyone when the lane is free    *)
(* and nobody waits, goes on as `task'.  Others are parked.                *)
MayAcquire(owner) == lane = owner \/ (lane = Free /\ waiting = <<>>)

AcquireAndRequeue(task) ==
    /\ UNCHANGED <<pending, next>>
    /\ IF MayAcquire(current.id)
       THEN /\ lane' = current.id
            /\ queue' = Append(Tail(queue), task)
            /\ UNCHANGED <<waiting, queued>>
       ELSE /\ waiting' = Append(waiting, current)
            /\ queue' = Tail(queue)
            /\ UNCHANGED <<lane, queued>>

-----------------------------------------------------------------------------
(* Engine::task, Init: one query variable per tick, then the query's body. *)

InitTick ==
    /\ Own("Init")
    /\ IF Len(current.env) < QueryVars
       THEN /\ next.var <= MaxVar
            /\ next' = [next EXCEPT !.var = @ + 1]
            /\ queue' = Append(Tail(queue), [current EXCEPT !.env = Append(@, next.var)])
            /\ UNCHANGED <<laneVars, pending>>
       ELSE Finish(Spawned(current.scope, Body(Query, current.env, current.scope)))

-----------------------------------------------------------------------------
(* Engine::body_tick, one action per phase.                                *)

b == current
Ins == Code[b.ins]

(* The dispatched body is in this phase and still has a world to work in.  *)
BodyIn(phase) ==
    /\ Dispatch("Body")
    /\ b.cond # {}
    /\ b.phase = phase

BodyOwn(phase) == BodyIn(phase) /\ UNCHANGED others

(* Its scope became empty: nothing to do.                                  *)
BodyEmpty ==
    /\ Own("Body")
    /\ b.cond = {}
    /\ Finish(<<>>)

BodyDispatch ==
    /\ BodyOwn("Dispatch")
    /\ IF Ins.op = "True" THEN Finish(<<>>)
       ELSE Requeue([b EXCEPT !.phase = CASE Ins.op = "And"  -> "Expand"
                                          [] Ins.op = "Post" -> "Arguments"
                                          [] OTHER           -> "Acquire"], <<>>)

(* One argument of a post per tick.                                        *)
BodyArguments ==
    /\ BodyOwn("Arguments")
    /\ IF b.index > Len(Ins.args)
       THEN Requeue([b EXCEPT !.phase = "Acquire"], <<>>)
       ELSE Requeue([b EXCEPT !.index = @ + 1], <<>>)

(* One conjunct per tick; the body is done when all are spawned.           *)
BodyExpand ==
    /\ BodyOwn("Expand")
    /\ IF b.index > Len(Ins.items)
       THEN Finish(<<>>)
       ELSE Requeue([b EXCEPT !.index = @ + 1],
                    Spawned(b.cond, Body(Ins.items[b.index], b.env, b.cond)))

(* The lane, then And(scope, active): at once, or as a job.                *)
BodyAcquire ==
    /\ BodyOwn("Acquire")
    /\ \/ AcquireAndRequeue([b EXCEPT !.phase = "Apply", !.cond = @ \cap active])
       \/ /\ MayAcquire(b.id)
          /\ AcquireAndRequeue([b EXCEPT !.phase = "Filter", !.act = active])

BodyFilter ==
    /\ BodyOwn("Filter")
    /\ Requeue([b EXCEPT !.phase = "Apply", !.cond = @ \cap b.act], <<>>)

(* The operation starts from the graph, or from `active', of this moment.  *)
BodyApply ==
    /\ BodyOwn("Apply")
    /\ Requeue([b EXCEPT !.phase = CASE Ins.op = "Post"  -> "Post"
                                     [] Ins.op = "Equal" -> "Merge"
                                     [] Ins.op = "Fail"  -> "Fail"
                                     [] Ins.op = "Or"    -> "Choice",
                         !.base = IF Ins.op \in {"Post", "Equal"} THEN state.graph ELSE None,
                         !.act = IF Ins.op = "Fail" THEN active ELSE {}], <<>>)

(* The fact is in the graph; its activation reads this very graph.         *)
BodyPost ==
    /\ BodyIn("Post")
    /\ LET graph == Posted(b.base, Ins.rel, [p \in DOMAIN Ins.args |-> b.env[Ins.args[p]]],
                           b.cond)
           occ == Len(graph.facts)
       IN /\ state' = [state EXCEPT !.graph = graph]
          /\ Finish(Spawned(b.cond, Activate(graph, occ, b.cond, FALSE)))
    /\ UNCHANGED <<active, ready, viewVars, births, slack, failed, applied>>

(* The variables are merged where they differed, and the merge is woken.   *)
BodyMerge ==
    /\ BodyIn("Merge")
    /\ LET x == b.env[Ins.x]
           y == b.env[Ins.y]
           changed == Changed(b.base, x, y, b.cond)
       IN \E loser \in [changed -> {x, y}] :
             LET graph == Merged(b.base, x, y, loser)
             IN /\ state' = [state EXCEPT !.graph = graph]
                /\ Finish(Spawned(changed, Wake(graph, Woken(b.base, loser))))
    /\ UNCHANGED <<active, ready, viewVars, births, slack, failed, applied>>

(* The result of Difference(active, scope) is the new `active'.            *)
BodyFail ==
    /\ BodyIn("Fail")
    /\ active' = b.act \ b.cond
    /\ failed' = failed \cup b.cond
    /\ Finish(<<>>)
    /\ UNCHANGED <<state, ready, viewVars, births, slack, applied>>

(* One arm is left, or a choice is born and its left half is computed.     *)
BodyChoice ==
    /\ BodyIn("Choice")
    /\ LET end == IF b.end = 0 THEN Len(Ins.items) + 1 ELSE b.end
       IN IF b.index + 1 = end
          THEN /\ Finish(Spawned(b.cond, Body(Ins.items[b.index], b.env, b.cond)))
               /\ UNCHANGED births
          ELSE /\ births < MaxChoice
               /\ births' = births + 1
               /\ Requeue([b EXCEPT !.phase = "Left", !.end = end, !.choice = births + 1], <<>>)
    /\ UNCHANGED <<active, state, ready, viewVars, slack, failed, applied>>

Split == b.index + (b.end - b.index) \div 2

(* The left half of the arms takes the worlds where the choice is true,    *)
BodyLeft ==
    /\ BodyOwn("Left")
    /\ LET cond == b.cond \cap Decision(b.choice)
       IN Requeue([b EXCEPT !.phase = "Right"],
                  Spawned(cond, BodyRange(b, b.index, Split, cond)))

(* the right half the others.                                              *)
BodyRight ==
    /\ BodyOwn("Right")
    /\ LET cond == b.cond \ Decision(b.choice)
       IN Finish(Spawned(cond, BodyRange(b, Split, b.end, cond)))

-----------------------------------------------------------------------------
(* Activate, Wake and the matching half of Search: readers of a graph that *)
(* stays as it was when they were created.                                 *)

(* One trigger per tick starts one search.                                 *)
ActivateTick ==
    /\ Own("Activate")
    /\ IF current.triggers = {}
       THEN Finish(<<>>)
       ELSE LET trigger == FirstTrigger(current.triggers)
            IN Requeue([current EXCEPT !.triggers = @ \ {trigger}],
                  Spawned(current.scope,
                     Search(trigger[1],
                            Discovered(current.graph, trigger[1], trigger[2],
                                       current.occ, current.cond))))

(* One woken occurrence per tick is activated for identity-sensitive heads.*)
WakeTick ==
    /\ Own("Wake")
    /\ IF current.found = {} THEN Finish(<<>>)
       ELSE \E f \in current.found :
               LET rest == [current EXCEPT !.found = @ \ {f}]
                   rel == current.graph.facts[f.occ].rel
               IN Requeue(rest, IF Triggers(rel, TRUE) = {} THEN <<>>
                                ELSE Spawned(current.scope,
                                             Activate(current.graph, f.occ, f.cond, TRUE)))

(* A match is found, or there is none left.                                *)
SearchTick ==
    /\ Own("Search")
    /\ current.candidate = None
    /\ current.commit = None
    /\ IF current.found = {} THEN Finish(<<>>)
       ELSE \E m \in current.found :
               Requeue([current EXCEPT !.found = @ \ {m}, !.candidate = m], <<>>)

(* The match waits for the lane; its support is then brought to the        *)
(* current choices, which changes no world;                                *)
SearchAcquire ==
    /\ Own("Search")
    /\ current.candidate # None
    /\ ~current.transport
    /\ AcquireAndRequeue([current EXCEPT !.transport = TRUE])

(* and it becomes a commit on the state and the `active' of now.           *)
SearchBegin ==
    /\ Own("Search")
    /\ current.transport
    /\ LET m == current.candidate
       IN Requeue([current EXCEPT !.candidate = None, !.transport = FALSE,
                     !.commit = [phase |-> "Start", base |-> state, staged |-> state,
                                 occs |-> m.occs, env |-> m.vars, cond |-> m.cond,
                                 act |-> active, head |-> 1]], <<>>)

-----------------------------------------------------------------------------
(* Commit::tick, one action per phase.  The staged state is private until  *)
(* the last of them makes it the state of the engine.                      *)

c == current.commit
rule == current.rule

CommitIn(phase) ==
    /\ Dispatch("Search")
    /\ c # None
    /\ c.cond # {}
    /\ c.phase = phase

CommitOwn(phase) == CommitIn(phase) /\ UNCHANGED others

Commit(commit) == [current EXCEPT !.commit = commit]

CommitReject == RequeueReleasing(Commit(None), <<>>)

CommitEmpty ==
    /\ Own("Search")
    /\ c # None
    /\ c.cond = {}
    /\ CommitReject

CommitStart ==
    /\ CommitOwn("Start")
    /\ Requeue(Commit([c EXCEPT !.phase = "Head", !.cond = @ \cap c.act]), <<>>)

(* Fault: the match is trusted, however old it is.                         *)
CommitHeadTrusting ==
    /\ CommitOwn("Head")
    /\ c.head <= Len(c.occs)
    /\ Requeue(Commit([c EXCEPT !.head = @ + 1]), <<>>)

(* Each head must still be alive and fit, and occur once.                  *)
CommitHead ==
    /\ CommitOwn("Head")
    /\ c.head <= Len(c.occs)
    /\ LET o == c.occs[c.head]
           graph == c.base.graph
       IN IF graph.facts[o].live = {} \/ \E k \in 1 .. c.head - 1 : c.occs[k] = o
          THEN CommitReject
          ELSE Requeue(Commit([c EXCEPT !.head = @ + 1,
                     !.cond = @ \cap FitsHead(graph, rule, c.head, o, c.env)]), <<>>)

CommitHeadsDone ==
    /\ CommitOwn("Head")
    /\ c.head > Len(c.occs)
    /\ Requeue(Commit([c EXCEPT !.phase = "History"]), <<>>)

(* Fault: the history is written and not read.                             *)
Forgotten(history, r, occs) == {}

(* history::History::support.                                              *)
Recorded(history, r, occs) == {w \in World : <<r, occs, w>> \in history}

(* A rule that removes nothing fires where it has not fired yet.           *)
CommitHistory ==
    /\ CommitOwn("History")
    /\ Requeue(Commit(
          IF Pure(rule)
          THEN [c EXCEPT !.phase = "Record",
                         !.cond = @ \ Recorded(c.base.history, rule, c.occs)]
          ELSE [c EXCEPT !.phase = "Consume", !.head = Rules[rule].kept + 1]), <<>>)

CommitRecord ==
    /\ CommitOwn("Record")
    /\ Requeue(Commit([c EXCEPT !.phase = "Fresh",
          !.staged.history = c.base.history \cup {<<rule, c.occs, w>> : w \in c.cond}]), <<>>)

(* The removed heads die in the worlds of the application.                 *)
CommitConsume ==
    /\ CommitOwn("Consume")
    /\ Requeue(Commit(
          IF c.head > Len(c.occs) THEN [c EXCEPT !.phase = "Fresh"]
          ELSE LET o == c.occs[c.head]
                   graph == c.staged.graph
               IN [c EXCEPT !.head = @ + 1,
                     !.staged.graph = WithLiveness(graph, o, graph.facts[o].live \ c.cond)]),
          <<>>)

(* One fresh variable per tick,                                            *)
CommitFresh ==
    /\ CommitOwn("Fresh")
    /\ Len(c.env) < Rules[rule].slots
    /\ next.var <= MaxVar
    /\ next' = [next EXCEPT !.var = @ + 1]
    /\ queue' = Append(Tail(queue), Commit([c EXCEPT !.env = Append(@, next.var)]))
    /\ UNCHANGED <<laneVars, pending>>

(* then the application: its state, its body and the lane in one tick.     *)
CommitApplied ==
    /\ CommitIn("Fresh")
    /\ Len(c.env) = Rules[rule].slots
    /\ state' = c.staged
    /\ applied' = Append(applied, [rule |-> rule, occs |-> c.occs, env |-> c.env,
                                   cond |-> c.cond])
    /\ RequeueReleasing(Commit(None), Spawned(c.cond, Body(Rules[rule].body, c.env, c.cond)))
    /\ UNCHANGED <<active, ready, viewVars, births, slack, failed>>

CommitTick ==
    \/ CommitEmpty \/ CommitStart \/ CommitHead \/ CommitHeadsDone
    \/ CommitHistory \/ CommitRecord \/ CommitConsume
    \/ CommitFresh \/ CommitApplied

(* A job, an update or a cursor that is not done yet: the task goes to the *)
(* back of the queue as it is.                                             *)
TaskPending ==
    /\ Service = "task"
    /\ Tick
    /\ \/ current.kind \in {"Search", "Wake"}
       \/ /\ current.kind = "Body"
          /\ current.phase \in {"Filter", "Post", "Merge", "Fail", "Left", "Right"}
    /\ slack > 0
    /\ slack' = slack - 1
    /\ Requeue(current, <<>>)
    /\ UNCHANGED <<active, state, ready, viewVars, births, failed, applied>>

-----------------------------------------------------------------------------
(* Engine::completion, one action per phase.                               *)

CompletionIn(phase) ==
    /\ Service = "completion"
    /\ ready.phase = phase
    /\ Tick

(* The certificate is touched, the tasks are not.                          *)
taskVars == <<state, queue, pending, births, next, slack, failed, applied>>

(* The next frozen row in the order of the tasks is joined to `blocked',   *)
(* or, past the last, Difference(scope, blocked) is started.               *)
NextRow(base) ==
    LET rest == {t \in TaskId : base.rows[t] # {}}
    IN IF rest = {} THEN [base EXCEPT !.phase = "Difference"]
       ELSE [base EXCEPT !.phase = "Scan", !.row = CHOOSE t \in rest : \A u \in rest : t <= u]

(* The first tick freezes the pending root and starts with its first row.  *)
Capture ==
    /\ CompletionIn("None")
    /\ ready' = NextRow([NoReady EXCEPT !.rows = pending, !.scope = active])
    /\ UNCHANGED <<active, laneVars, viewVars, taskVars>>

Blocked == ready.blocked \cup ready.rows[ready.row]

(* A certificate that blocks its whole scope is dropped.                   *)
Scan ==
    /\ CompletionIn("Scan")
    /\ IF ready.row = 0 THEN ready' = NextRow(ready)
       ELSE LET blocked == Blocked
            IN ready' = IF blocked \in {World, ready.scope} THEN NoReady
                        ELSE [ready EXCEPT !.rows[ready.row] = {}, !.row = 0,
                                           !.blocked = blocked]
    /\ UNCHANGED <<active, laneVars, viewVars, taskVars>>

Difference ==
    /\ CompletionIn("Difference")
    /\ LET scope == ready.scope \ ready.blocked
       IN ready' = IF scope = {} THEN NoReady
                   ELSE [ready EXCEPT !.phase = "Acquire", !.scope = scope]
    /\ UNCHANGED <<active, laneVars, viewVars, taskVars>>

(* acquire(Owner::Completion): the lane, or a place in the FIFO.           *)
ReadyAcquire ==
    /\ CompletionIn("Acquire")
    /\ IF MayAcquire(Completion)
       THEN /\ lane' = Completion
            /\ queued' = FALSE
            /\ ready' = [ready EXCEPT !.phase = "Transport"]
            /\ UNCHANGED waiting
       ELSE /\ queued' = TRUE
            /\ waiting' = IF queued THEN waiting ELSE Append(waiting, [id |-> Completion])
            /\ UNCHANGED <<lane, ready>>
    /\ UNCHANGED <<active, viewVars, taskVars>>

(* Brought to the current choices, the scope is filtered by `active'.      *)
ReadyTransport ==
    /\ CompletionIn("Transport")
    /\ ready' = [ready EXCEPT !.phase = "Filter", !.act = active]
    /\ UNCHANGED <<active, laneVars, viewVars, taskVars>>

ReadyFilter ==
    /\ CompletionIn("Filter")
    /\ LET scope == ready.scope \cap ready.act
       IN IF scope = {}
          THEN /\ ready' = NoReady
               /\ ReleaseLane(queue, <<>>)
          ELSE /\ ready' = [ready EXCEPT !.phase = "Publish", !.scope = scope,
                                         !.act = active]
               /\ UNCHANGED <<laneVars, queue>>
    /\ UNCHANGED <<active, viewVars, state, pending, births, next, slack, failed, applied>>

(* The answers of a completion: the choices made so far tell them apart.   *)
AnswerOf(w, choices) == [n \in 1 .. choices |-> w[n]]
Answers(scope) == {AnswerOf(w, births) : w \in scope}

AllAnswers == {AnswerOf(w, n) : w \in World, n \in 0 .. MaxChoice}

ASSUME NoneIsNoAnswer ==
    None \notin AllAnswers /\ \A some \in SUBSET AllAnswers : some # None

Publish ==
    /\ CompletionIn("Publish")
    /\ active' = ready.act \ ready.scope
    /\ observer' = Answers(ready.scope)
    /\ published' = [w \in World |-> published[w] + (IF w \in ready.scope THEN 1 ELSE 0)]
    /\ answers' = Append(answers, [scope |-> ready.scope, state |-> state])
    /\ ready' = NoReady
    /\ ReleaseLane(queue, <<>>)
    /\ UNCHANGED <<output, state, pending, births, next, slack, failed, applied>>

CompletionPending ==
    /\ Service = "completion"
    /\ ready.phase \in {"Difference", "Transport", "Filter", "Publish"} \/ ready.row # 0
    /\ Tick
    /\ slack > 0
    /\ slack' = slack - 1
    /\ UNCHANGED <<active, laneVars, viewVars, state, queue, pending, ready, births, next,
                   failed, applied>>

-----------------------------------------------------------------------------
(* Engine::observation and its client.                                     *)

(* The observer emits one answer per tick, each once, or is done.          *)
Observation ==
    /\ Service = "observation"
    /\ Tick
    /\ IF observer = {}
       THEN observer' = None /\ UNCHANGED output
       ELSE \E answer \in observer :
               observer' = observer \ {answer} /\ output' = answer
    /\ UNCHANGED <<active, laneVars, ready, published, answers, taskVars>>

(* Engine::take_output, called by the client at any time.                  *)
TakeOutput ==
    /\ output # None
    /\ output' = None
    /\ UNCHANGED <<active, laneVars, ready, observer, published, answers, taskVars, ticks>>

Idle ==
    /\ Service = "idle"
    /\ Tick
    /\ UNCHANGED <<active, laneVars, viewVars, ready, taskVars>>

-----------------------------------------------------------------------------

BodyTick ==
    \/ BodyEmpty \/ BodyDispatch \/ BodyArguments \/ BodyExpand
    \/ BodyAcquire \/ BodyFilter \/ BodyApply
    \/ BodyPost \/ BodyMerge \/ BodyFail \/ BodyChoice \/ BodyLeft \/ BodyRight

ReaderTick ==
    \/ ActivateTick \/ WakeTick \/ SearchTick \/ SearchAcquire \/ SearchBegin

CompletionTick ==
    \/ Capture \/ Scan \/ Difference \/ ReadyAcquire \/ ReadyTransport
    \/ ReadyFilter \/ Publish \/ CompletionPending

Advance ==
    /\ \/ InitTick \/ BodyTick \/ ReaderTick \/ CommitTick \/ TaskPending
       \/ CompletionTick \/ Observation \/ Idle
    /\ UNCHANGED program

Next == Advance \/ (TakeOutput /\ UNCHANGED program)

Spec == Init /\ [][Next]_vars

(* The host calls advance again and again and takes every output.          *)
FairSpec == Spec /\ WF_vars(Advance) /\ WF_vars(TakeOutput /\ UNCHANGED program)

-----------------------------------------------------------------------------
(* The views of the abstract modules.                                      *)

(* A running Fail job of a task, by its operands.                          *)
FailJob(t, field) ==
    IF \E i \in DOMAIN queue : queue[i].id = t /\ queue[i].kind = "Body" /\ queue[i].phase = "Fail"
    THEN (CHOOSE task \in {queue[i] : i \in DOMAIN queue} : task.id = t)[field]
    ELSE {}

ReadyView ==
    [phase |-> CASE ready.phase = "Difference" -> "Scan"
                 [] ready.phase = "Transport"  -> "Filter"
                 [] OTHER -> ready.phase,
     rows |-> ready.rows, blocked |-> ready.blocked, scope |-> ready.scope,
     base |-> IF ready.phase = "Publish" THEN ready.act ELSE {}]

CompletionView == INSTANCE Certificate WITH
    Task <- TaskId,
    failing <- [t \in TaskId |-> FailJob(t, "cond")],
    captured <- [t \in TaskId |-> FailJob(t, "act")],
    ready <- ReadyView,
    delivering <- observer # None \/ output # None

LaneView == INSTANCE Lane WITH
    Task <- TaskId,
    Scalar <- {Completion},
    waiting <- [i \in DOMAIN waiting |-> waiting[i].id],
    flag <- [s \in {Completion} |-> queued],
    runnable <- {queue[i].id : i \in DOMAIN queue}

(* The tasks, the certificate and `active' implement Certificate: every    *)
(* task of the code keeps its children within its own row and changes      *)
(* `active' under the lane only.                                           *)
ImplementsCertificate == CompletionView!Spec

(* Every dispatch, with all it does to the queues, is a step of Lane.      *)
ImplementsLane == LaneView!Spec

(* Whoever waits for the lane is granted it: the FIFO is emptied, or its   *)
(* front is taken again and again (and Lane orders it), whatever an owner  *)
(* does before it releases the lane.                                       *)
EveryWaiterServed == []<>(waiting = <<>>) \/ []<><<Len(waiting') < Len(waiting)>>_waiting

-----------------------------------------------------------------------------
(* Properties.                                                             *)

(* Every variable has its type; the rows of the pending root are those of  *)
(* the tasks in the queue and the FIFO.                                    *)
TypeOK ==
    LET tasks == ({queue[i] : i \in DOMAIN queue} \cup {waiting[i] : i \in DOMAIN waiting})
                    \ {[id |-> Completion]}
    IN /\ active \in Condition
       /\ lane \in TaskId \cup {Completion, Free}
       /\ queued \in BOOLEAN
       /\ pending \in [TaskId -> Condition]
       /\ {task.id : task \in tasks} = {t \in TaskId : pending[t] # {}}
       /\ \A task \in tasks : task.scope = pending[task.id]
       /\ births \in 0 .. MaxChoice
       /\ ticks \in 0 .. 2 /\ slack \in 0 .. MaxSlack
       /\ state.history \subseteq RuleId \X Seq(Nat) \X World

(* Rule r can be applied to these occurrences in world w of a state.       *)
Applicable(st, r, occs, w) ==
    /\ Distinct(occs)
    /\ \A k \in DOMAIN occs : /\ st.graph.facts[occs[k]].rel = Heads(r)[k].rel
                              /\ w \in st.graph.facts[occs[k]].live
    /\ \A s \in 1 .. Rules[r].bound : \A p, q \in Ports(r, s) :
          Same(st.graph, st.graph.facts[occs[p[1]]].args[p[2]],
                         st.graph.facts[occs[q[1]]].args[q[2]], w)
    /\ Pure(r) => <<r, occs, w>> \notin st.history

(* A commit applies a rule only where it is applicable now, in active      *)
(* worlds, however old the graph was that its match was found in.          *)
AppliedWhereApplicable ==
    [][applied' # applied =>
         LET a == applied'[Len(applied')]
         IN /\ a.cond # {} /\ a.cond \subseteq active
            /\ \A w \in a.cond : Applicable(state, a.rule, a.occs, w)]_vars

(* No world sees a fact removed twice, or a propagation of one tuple       *)
(* fired twice, by whichever searches found it.                            *)
AppliedOnce ==
    \A i, j \in DOMAIN applied :
        LET x == applied[i]
            y == applied[j]
        IN i < j /\ x.cond \cap y.cond # {} =>
              /\ \A h \in Rules[x.rule].kept + 1 .. Len(x.occs),
                    k \in Rules[y.rule].kept + 1 .. Len(y.occs) : x.occs[h] # y.occs[k]
              /\ ~(Pure(x.rule) /\ x.rule = y.rule /\ x.occs = y.occs)

(* No rule is applicable in any world of an answer: no match was missed by *)
(* the triggers of facts posted, of variables merged and of worlds split   *)
(* while searches read old graphs.                                         *)
NothingApplicable ==
    \A i \in DOMAIN answers : \A w \in answers[i].scope, r \in RuleId :
        \A occs \in [DOMAIN Heads(r) -> Occurrence(answers[i].state.graph)] :
            ~Applicable(answers[i].state, r, occs, w)

(* What the state says of a published world does not change any more.      *)
AnswersDoNotChange ==
    \A i \in DOMAIN answers : \A w \in answers[i].scope :
        LET old == answers[i].state.graph
            new == state.graph
        IN /\ old.rep[w] = new.rep[w]
           /\ {o \in Occurrence(old) : w \in old.facts[o].live}
                = {o \in Occurrence(new) : w \in new.facts[o].live}

(* What is published is a normal form, and stays as it was published while *)
(* the other worlds of the same graph go on.                               *)
AnswersAreNormalForms == NothingApplicable /\ AnswersDoNotChange

(* A terminating program is worked off: every world fails or is published, *)
(* every answer is delivered and no task is left.                          *)
Done ==
    /\ active = {} /\ queue = <<>> /\ waiting = <<>> /\ lane = Free
    /\ observer = None /\ output = None
EverythingDelivered == program.ends => <>[]Done

(* Work goes on: what can be worked off is, and nobody waits for ever for  *)
(* the lane.                                                               *)
WorkGoesOn == EverythingDelivered /\ EveryWaiterServed

(* A diverging program, run until its tasks are used up: by then the       *)
(* worlds that no task works in have been published, whatever the others   *)
(* still do.  A bounded form of: one endless arm does not hold back the    *)
(* answers of the others.                                                  *)
FinishedWorldsPublished ==
    next.task > program.tasks =>
        \A w \in active : \E t \in TaskId : w \in pending[t]

=============================================================================
