-------------------------------- MODULE Heap --------------------------------
(***************************************************************************)
(* Collection beside everything that holds part of the heap: tasks in the  *)
(* queue and parked, the certificate, the observer, the stepper, snapshots *)
(* and inspections, and a cancellation that takes them all down            *)
(* (src/engine/collection.rs, inspection.rs, cancel.rs).                   *)
(*                                                                         *)
(* Of the heap the model has handles of conditions, the rows of the graph  *)
(* and the descriptors of bodies.  Each row of the graph carries one       *)
(* condition and goes by its name, so a graph root is a set of conditions. *)
(* The collector's phases read and replace in the order of the code, but   *)
(* a collection is its start and one step: while it lives no task runs,    *)
(* and calls that would move a root are refused.                           *)
(***************************************************************************)
EXTENDS Lane, Obligations, FiniteSetsExt, TLC

CONSTANTS
    Condition,               \* handles of the arena
    True,                    \* the terminal condition, which owns no node
    Collection,              \* Owner::Collection; the certificate's lane is in Engine.tla
    MaxView,                 \* bound: snapshots and inspections
    MaxStep                  \* bound: views and steps that make the heap grow

ASSUME CollectionIsAnOwner == Collection \in Scalar

View == 1 .. MaxView

(* What the variables hold: bodies and what is left of them, payloads,     *)
(* versions of the map of pending bodies, what views have read.            *)
Guard == Condition \cup {True}
Body == [at : 0 .. MaxProgress, guard : Guard]
Payload == [body : Body, root : SUBSET Condition]
Record == [parts : Body \cup {None}, epoch : Nat]
MapsTo(S) == UNION {[T -> S] : T \in SUBSET Task}
PendingMap == MapsTo(Descriptor \cup {None})
Captured == [graph : SUBSET Condition, pending : PendingMap, last : BOOLEAN,
             saw : MapsTo(Body \cup {None})]
Looking == [snapshot : Captured \cup {None},
            phase : {"Select", "Project", "Output", "Discard", "Done"}, scope : Guard]
Reading == [kind : {"Ready", "RuleStep", "Observe"}, condition : Guard,
            rows : SUBSET Condition, descriptors : SUBSET Descriptor]

ASSUME HeapBounds == {MaxProgress, MaxView, MaxStep} \subseteq Nat

(* An empty Option is nothing else, and True owns no node.                 *)
ASSUME NoneAndTrueApart ==
    /\ True \notin Condition
    /\ None \notin Guard \cup Descriptor
    /\ None \notin Body /\ None \notin Payload /\ None \notin Record
    /\ None \notin Captured /\ None \notin Looking /\ None \notin [owns : BOOLEAN]

VARIABLES
    tasks,        \* the payloads in queue and waiting: body and the root a search reads
    graph,        \* state.graph
    pending,      \* pending_root
    birth,        \* Engine.births, of which there is one at most: its condition
    reader,       \* one of Engine.ready, observer and rule_step
    syntax,       \* body_syntax, and how far its promotion is
    heap,         \* arena, rows of the graph and obligations
    kept,         \* what the archived snapshots protect in each of them
    archive,      \* Engine.archive
    snapshots,    \* Engine.snapshots
    inspections,  \* Engine.inspections
    nextView,     \* NEXT_VIEW
    cancel,       \* Engine.cancellation
    collector,    \* Engine.collector
    requested,    \* Engine.collection_requested
    steps         \* steps that made the heap grow, up to the bound

owners == <<lane, waiting, flag, runnable>>
source == <<tasks, graph, pending, birth, reader>>
views == <<snapshots, inspections, nextView>>
heapVars == <<owners, source, syntax, heap, kept, archive, views, cancel, collector,
              requested, steps>>

-----------------------------------------------------------------------------
(* What holds what.                                                        *)
Nothing == [rows |-> {}, descriptors |-> {}, conditions |-> {}]

JoinAll(held) == [rows |-> UNION {h.rows : h \in held},
                  descriptors |-> UNION {h.descriptors : h \in held},
                  conditions |-> UNION {h.conditions : h \in held}]

NoBody == [body |-> [at |-> 0, guard |-> True], root |-> {}]

Live == {t \in Task : tasks[t] # None}
Parked == Waiters \cap Task
TaskRoots(payload) == [rows |-> payload.root, descriptors |-> {},
                       conditions |-> {payload.body.guard} \ {True}]

ReaderRoots ==
    IF reader = None THEN Nothing
    ELSE [rows |-> reader.rows, descriptors |-> reader.descriptors,
          conditions |-> {reader.condition} \ {True}]

(* A snapshot is the graph, the pending map and the last choice of its     *)
(* moment; `saw' remembers what was left of each body.                     *)
Ids(map) == {i \in View : map[i] # None}
ShotRoots(shot) == [rows |-> shot.graph, descriptors |-> Bodies(shot.pending),
                    conditions |-> {}]
ViewRoots(i) ==
    [IF inspections[i].snapshot = None THEN Nothing ELSE ShotRoots(inspections[i].snapshot)
     EXCEPT !.conditions = {inspections[i].scope} \ {True}]
Shots == ({snapshots[i] : i \in Ids(snapshots)}
          \cup {inspections[i].snapshot : i \in Ids(inspections)}) \ {None}

BirthRoots(choice) == [Nothing EXCEPT !.conditions = {choice} \ {None}]

Canceled == cancel.phase # "Running"
Released == cancel.phase \in {"Collect", "Done"}
CurrentRoots == [rows |-> graph, descriptors |-> Bodies(pending), conditions |-> {}]
Idle == collector = None
Collecting ==
    collector # None \/ requested \/ lane = Collection \/ flag[Collection]
Fresh == Condition \ heap.conditions
WithConditions(h, new) == [h EXCEPT !.conditions = @ \cup (new \ {True})]
WithBook(h, book) == [h EXCEPT !.book = book]

(* Steps and views together are bounded, so that few views leave room for  *)
(* more steps; a view counts as two.                                       *)
InBudget == steps + 2 * (nextView - 1) < MaxStep

-----------------------------------------------------------------------------
HeapInit ==
    /\ lane = Free /\ waiting = <<>> /\ flag = [s \in Scalar |-> FALSE]
    /\ \E t \in Task : /\ runnable = {t}
                       /\ tasks = [u \in Task |-> IF u = t THEN NoBody ELSE None]
                       /\ pending = [u \in {t} |-> None]
    /\ graph = {} /\ birth = None /\ reader = None
    /\ syntax = [done |-> FALSE, seen |-> {}]
    /\ heap = [rows |-> {}, conditions |-> {}, book |-> NewBook]
    /\ kept = Nothing
    /\ archive = [after |-> 0, reset |-> FALSE]
    /\ snapshots = [i \in View |-> None] /\ inspections = [i \in View |-> None]
    /\ nextView = 1
    /\ cancel = [phase |-> "Running", limit |-> 0]
    /\ collector = None
    /\ requested = FALSE
    /\ steps = 0

-----------------------------------------------------------------------------
(* One dispatch of a task.  Only what it does to the heap and to the lane  *)
(* is modelled: which rules it applies is the matter of Engine.tla.        *)

(* sync_obligation.                                                        *)
Synced(t, body) ==
    IF syntax.done THEN Updated(heap.book, pending[t], Parts(body))
    ELSE {[book |-> heap.book, body |-> pending[t]]}

(* A Boolean job ends, or the body goes on to its next operand.            *)
Work(t) ==
    \E guard \in {tasks[t].body.guard, True} \cup Fresh, step \in {0, 1} :
        LET body == [at |-> tasks[t].body.at + step, guard |-> guard]
        IN /\ body # tasks[t].body
           /\ body.at <= MaxProgress
           /\ \E r \in Synced(t, body) :
                /\ heap' = WithBook(WithConditions(heap, {guard}), r.book)
                /\ pending' = [pending EXCEPT ![t] = r.body]
           /\ tasks' = [tasks EXCEPT ![t].body = body]
           /\ UNCHANGED <<owners, graph, birth, reader>>

(* Graph::post, in a transaction: a row under the condition of the body or *)
(* under one that is found for it.  The search it wakes reads this root.   *)
Post(t) ==
    /\ lane = t
    /\ \E c \in ({tasks[t].body.guard} \ {True}) \cup Fresh :
        /\ graph' = graph \cup {c}
        /\ heap' = WithConditions([heap EXCEPT !.rows = @ \cup {c}], {c})
    /\ graph' # graph
    /\ tasks' = [tasks EXCEPT ![t].root = graph']
    /\ UNCHANGED <<owners, pending, birth, reader>>

(* A choice is born.                                                       *)
Bear(t) ==
    /\ lane = t /\ birth = None
    /\ birth' \in Fresh
    /\ heap' = WithConditions(heap, {birth'})
    /\ UNCHANGED <<owners, tasks, graph, pending, reader>>

(* admit.                                                                  *)
Admit(t, u) ==
    /\ tasks[u] = None
    /\ LET body == [at |-> 0, guard |-> tasks[t].body.guard]
       IN /\ tasks' = [tasks EXCEPT ![u] = [body |-> body, root |-> {}]]
          /\ \E r \in IF syntax.done THEN Updated(heap.book, None, Parts(body))
                      ELSE {[book |-> heap.book, body |-> None]} :
                /\ heap' = WithBook(heap, r.book)
                /\ pending' = [v \in DOMAIN pending \cup {u} |->
                                  IF v = u THEN r.body ELSE pending[v]]
    /\ Spawn /\ runnable' = runnable \cup {u}
    /\ UNCHANGED <<graph, birth, reader>>

NoNewTask == runnable' \subseteq runnable \cup Waiters

Acquire(t) ==
    /\ TaskTake(t) \/ TaskPark(t)
    /\ UNCHANGED <<source, heap>>

Leave(t) ==
    /\ lane = t /\ Release /\ NoNewTask
    /\ UNCHANGED <<source, heap>>

(* The row, the payload and the lane go in the tick the task is done.      *)
Complete(t) ==
    /\ tasks[t].body.at = MaxProgress
    /\ tasks' = [tasks EXCEPT ![t] = None]
    /\ pending' = [u \in DOMAIN pending \ {t} |-> pending[u]]
    /\ Finish(t) /\ NoNewTask
    /\ UNCHANGED <<graph, birth, reader, heap>>

(* The certificate scans pending_root and joins its rows, the stepper      *)
(* probes it, the observer reads a published graph.                        *)
Read ==
    /\ reader = None
    /\ \E found \in {True} \cup Fresh :
        /\ reader' \in {[kind |-> "Ready", condition |-> found, rows |-> {},
                         descriptors |-> Bodies(pending)],
                        [kind |-> "RuleStep", condition |-> True, rows |-> {},
                         descriptors |-> Bodies(pending)],
                        [kind |-> "Observe", condition |-> True, rows |-> graph,
                         descriptors |-> {}]}
        /\ heap' = WithConditions(heap, {reader'.condition})
    /\ UNCHANGED <<owners, tasks, graph, birth, pending>>

StopReading ==
    /\ reader # None
    /\ reader' = None
    /\ UNCHANGED <<owners, tasks, graph, pending, birth, heap>>

(* The bound counts the steps that can make the heap grow.                 *)
Grow ==
    /\ InBudget
    /\ steps' = steps + 1
    /\ \/ \E t \in runnable : \/ Work(t) \/ Post(t) \/ Bear(t)
                              \/ \E u \in Task : Admit(t, u)
       \/ Read

Source ==
    /\ \/ Grow
       \/ /\ \/ \E t \in runnable : Acquire(t) \/ Leave(t) \/ Complete(t)
             \/ StopReading
             \/ UNCHANGED <<owners, source, heap>>
          /\ UNCHANGED steps
    /\ UNCHANGED <<syntax, inspections, cancel>>

-----------------------------------------------------------------------------
(* Collection.                                                             *)
Invalid == [after |-> 0, reset |-> TRUE]

(* acquire(Owner::Collection), which only a semantic collection tries.     *)
MayOwn(semantic) ==
    semantic /\ ~Canceled /\ (graph # {} \/ birth # None \/ lane = Collection)

AcquireLane(semantic) ==
    /\ MayOwn(semantic)
    /\ \/ lane = Collection /\ UNCHANGED owners
       \/ ScalarTake(Collection)

FailToAcquire(semantic) ==
    IF MayOwn(semantic)
    THEN /\ lane # Collection /\ ~Uncontended
         /\ \/ ScalarWait(Collection)
            \/ flag[Collection] /\ UNCHANGED owners
    ELSE UNCHANGED owners

(* A collection starts because it was asked for or because of the size of  *)
(* the heap or of what became obsolete in it, that is at any time.  If it  *)
(* cannot have the lane it starts without, or waits for the lane while the *)
(* heap is not twice as large.                                             *)
Unwanted(semantic) ==
    /\ ~requested
    /\ ~(lane = Collection /\ semantic /\ ~Canceled)

Begin(semantic) ==
    /\ collector = None
    /\ \E owns \in BOOLEAN :
        /\ IF owns THEN AcquireLane(semantic) ELSE FailToAcquire(semantic)
        /\ collector' = [owns |-> owns]
    /\ archive' \in {archive, Invalid}
    /\ requested' = FALSE
    /\ UNCHANGED <<source, syntax, heap, kept, cancel>>

(* Compact gives the current state other conditions, here one of them;     *)
(* readers and views keep theirs.                                          *)
Current == [graph |-> graph, tasks |-> tasks, birth |-> birth, pending |-> pending,
            book |-> heap.book]

Renaming(from, to) ==
    LET new(c) == IF c = from THEN to ELSE c
    IN {[graph |-> {new(c) : c \in graph},
         tasks |-> [t \in Task |-> IF tasks[t] = None THEN None
                                   ELSE [tasks[t] EXCEPT !.body.guard = new(@)]],
         birth |-> new(birth), pending |-> r.pending, book |-> r.book]
        : r \in Substituted(heap.book, pending, from, to)}

Compacted ==
    {Current} \cup IF collector.owns
                   THEN UNION {Renaming(c, d) : c \in graph \cup ({birth} \ {None}), d \in Fresh}
                   ELSE {}

(* Fault: parked payloads are no roots.                                    *)
GatherQueued(now) == Nothing

(* What the phases Tasks to RuleStep find, one after the other.            *)
GatherTasks(now) == JoinAll({TaskRoots(now.tasks[t]) : t \in runnable})

GatherParked(now) == JoinAll({TaskRoots(now.tasks[t]) : t \in Parked})

GatherBirths(now) == IF Released THEN Nothing ELSE BirthRoots(now.birth)
GatherReader(now) ==
    [ReaderRoots EXCEPT !.descriptors = @ \cup Bodies(now.pending)]
GatherInspections == JoinAll({ViewRoots(i) : i \in Ids(inspections)})

(* Only snapshots later than the last that was registered.                 *)
Unregistered == {i \in Ids(snapshots) : i > archive.after}
Archived == JoinAll({ShotRoots(snapshots[i]) : i \in Unregistered})

(* After a cancellation choices live as long as a view can see them.       *)
RetainsChoices == \E shot \in Shots : shot.last
Trimmed(now) == IF Released /\ ~RetainsChoices THEN None ELSE now.birth

(* A semantic collection drops rows that no active world needs.            *)
Pruned(now) == IF collector.owns THEN SUBSET now.graph ELSE {now.graph}

(* A store keeps what its archive protects and what the other roots reach; *)
(* only what was not protected before is passed on to the next store.      *)
Protected(before) == IF archive.reset THEN {} ELSE before

(* Graph, Pending and Arena, in that order: rows and descriptors that stay *)
(* name conditions, and of those the archived are protected as well.       *)
CollectStores(book, roots) ==
    LET before == [rows |-> Protected(kept.rows), descriptors |-> Protected(kept.descriptors),
                   conditions |-> Protected(kept.conditions)]
        rows == before.rows \cup Archived.rows
        bodies == before.descriptors \cup Archived.descriptors
        guards(d) == Guards(book, d) \ {True}
        conditions == before.conditions \cup (rows \ before.rows)
                          \cup guards(bodies \ before.descriptors)
        live == bodies \cup roots.descriptors
    IN /\ kept' = [rows |-> rows, descriptors |-> bodies, conditions |-> conditions]
       /\ heap' = [rows |-> rows \cup roots.rows,
                   conditions |-> conditions \cup roots.conditions \cup (roots.rows \ rows)
                                      \cup guards(roots.descriptors \ bodies),
                   book |-> [book EXCEPT !.descriptors =
                                [d \in Descriptor |-> IF d \in live THEN @[d] ELSE None]]]

(* The phases of a collection, and finish_collection.                      *)
Collect ==
    /\ collector # None
    /\ \E now \in Compacted : \E rows \in Pruned(now) :
        /\ graph' = rows /\ tasks' = now.tasks /\ pending' = now.pending
        /\ birth' = Trimmed(now)
        /\ CollectStores(now.book,
               JoinAll({[Nothing EXCEPT !.rows = rows], GatherTasks(now), GatherParked(now),
                        GatherBirths(now), GatherReader(now), GatherInspections,
                        BirthRoots(Trimmed(now))}))
    /\ archive' = [after |-> Max(Unregistered \cup {archive.after}), reset |-> FALSE]
    /\ IF collector.owns THEN Release /\ NoNewTask ELSE UNCHANGED owners
    /\ collector' = None
    /\ UNCHANGED <<requested, reader, syntax, cancel>>

-----------------------------------------------------------------------------
(* Views.  While a collector lives the calls that would move a root are    *)
(* refused (Busy): the guard Idle.                                         *)

(* request_cancel.                                                         *)
Discarding(v) ==
    [v EXCEPT !.phase = IF @ = "Done" THEN @ ELSE "Discard"]

(* drain_tick: the jobs and the observer first, the snapshot last.         *)
Drained(v) ==
    IF v.scope # True THEN [v EXCEPT !.scope = True]
    ELSE [v EXCEPT !.snapshot = None, !.phase = "Done"]

(* An inspection that the cancellation covers is discarded by whatever     *)
(* advances it.                                                            *)
Covered(i) == Canceled /\ i <= cancel.limit
Due(i) == IF Covered(i) THEN [inspections EXCEPT ![i] = Discarding(@)] ELSE inspections

(* Inspection::tick of the inspection i of `map': it selects its scope,    *)
(* then reads the graph and what is pending, and each time it has told     *)
(* something it waits until that is taken.                                 *)
InspectionTick(map, i) ==
    LET v == map[i]
        to(w) == inspections' = [map EXCEPT ![i] = w] /\ UNCHANGED heap
    IN \/ /\ v.phase = "Select"
          /\ \E scope \in {True} \cup Fresh :
               /\ inspections' = [map EXCEPT ![i].scope = scope, ![i].phase = "Project"]
               /\ heap' = WithConditions(heap, {scope})
       \/ v.phase = "Project" /\ \E next \in {"Output", "Discard"} : to([v EXCEPT !.phase = next])
       \/ v.phase = "Discard" /\ to(Drained(v))
       \/ v.phase \in {"Output", "Done"} /\ to(v)

(* service_inspection goes round the inspections.                          *)
ServiceInspection == \E i \in Ids(inspections) : InspectionTick(Due(i), i)

-----------------------------------------------------------------------------
(* Cancellation.                                                           *)

(* promote_body_syntax_tick.                                               *)
Unpromoted == Live \ syntax.seen

Promote(t) ==
    /\ \E r \in Updated(heap.book, None, Parts(tasks[t].body)) :
        /\ heap' = WithBook(heap, r.book)
        /\ pending' = [pending EXCEPT ![t] = r.body]
    /\ syntax' = [syntax EXCEPT !.seen = @ \cup {t}]

ToPhase(phase) == cancel' = [cancel EXCEPT !.phase = phase]

CancelSyntax ==
    /\ cancel.phase = "Syntax"
    /\ IF syntax.done \/ Unpromoted = {}
       THEN /\ syntax' = [syntax EXCEPT !.done = TRUE]
            /\ ToPhase("Queue")
            /\ UNCHANGED <<heap, pending>>
       ELSE (\E t \in Unpromoted : Promote(t)) /\ UNCHANGED cancel
    /\ UNCHANGED <<owners, tasks, graph, birth, reader>>

(* discard_tick of a task: its jobs first.                                 *)
DiscardTask(t) ==
    tasks' = [tasks EXCEPT ![t] = IF @.body.guard # True \/ @.root # {}
                                  THEN [NoBody EXCEPT !.body.at = tasks[t].body.at] ELSE None]

CancelQueue ==
    /\ cancel.phase = "Queue"
    /\ IF runnable = {} THEN ToPhase("Parked") /\ UNCHANGED <<tasks, runnable>>
       ELSE /\ \E t \in runnable :
                /\ DiscardTask(t)
                /\ runnable' = IF tasks'[t] = None THEN runnable \ {t} ELSE runnable
            /\ UNCHANGED cancel
    /\ UNCHANGED <<lane, waiting, flag, graph, pending, birth, reader, syntax, heap>>

CancelParked ==
    /\ cancel.phase = "Parked"
    /\ IF waiting = <<>> THEN ToPhase("Ready") /\ UNCHANGED <<tasks, waiting, flag>>
       ELSE LET o == Head(waiting)
            IN /\ IF o \in Task THEN DiscardTask(o) ELSE UNCHANGED tasks
               /\ IF o \in Task /\ tasks'[o] # None THEN UNCHANGED <<waiting, flag>>
                  ELSE /\ waiting' = Tail(waiting)
                       /\ flag' = [s \in Scalar |-> flag[s] /\ s # o]
               /\ UNCHANGED cancel
    /\ UNCHANGED <<lane, runnable, graph, pending, birth, reader, syntax, heap>>

CancelReaders ==
    /\ cancel.phase = "Ready"
    /\ IF reader # None /\ reader.kind # "RuleStep"
       THEN reader' = None /\ UNCHANGED cancel
       ELSE ToPhase("Inspections") /\ UNCHANGED reader
    /\ UNCHANGED <<owners, tasks, graph, pending, birth, syntax, heap>>

CancelInspections(map) ==
    /\ cancel.phase = "Inspections"
    /\ LET left == {i \in Ids(map) : i <= cancel.limit /\ map[i].phase # "Done"}
       IN IF left = {} THEN ToPhase("Waiters") /\ inspections' = map
          ELSE /\ inspections' = [map EXCEPT ![Min(left)] = Drained(Discarding(@))]
               /\ UNCHANGED cancel
    /\ UNCHANGED <<owners, source, syntax, heap>>

CancelWaiters ==
    /\ cancel.phase = "Waiters"
    /\ waiting' = <<>> /\ lane' = Free /\ flag' = [s \in Scalar |-> FALSE]
    /\ ToPhase("Roots")
    /\ UNCHANGED <<runnable, source, syntax, heap>>

CancelRoots ==
    /\ cancel.phase = "Roots"
    /\ graph' = {} /\ pending' = [t \in {} |-> None]
    /\ ToPhase("Collect")
    /\ UNCHANGED <<owners, tasks, birth, reader, syntax, heap>>

CancelCollect ==
    /\ cancel.phase = "Collect"
    /\ ToPhase("Done")
    /\ UNCHANGED <<owners, source, syntax, heap>>

CancelDone ==
    /\ cancel.phase = "Done"
    /\ IF Ids(inspections) = {} THEN UNCHANGED <<inspections, heap>> ELSE ServiceInspection
    /\ UNCHANGED <<owners, source, syntax, cancel>>

(* discard_step_tick comes before everything else.                         *)
DiscardStep ==
    /\ reader' = None
    /\ UNCHANGED <<owners, tasks, graph, pending, birth, syntax, heap, cancel>>

(* cancel_tick, with the inspections `map'.                                *)
CancelTick(map) ==
    IF reader # None /\ reader.kind = "RuleStep" THEN DiscardStep /\ inspections' = map
    ELSE \/ /\ \/ CancelSyntax \/ CancelQueue \/ CancelParked \/ CancelReaders
               \/ CancelWaiters \/ CancelRoots \/ CancelCollect
            /\ inspections' = map
         \/ CancelInspections(map)
         \/ CancelDone

-----------------------------------------------------------------------------
(* The host's calls that advance the engine, a tick at a time.             *)

(* Fault: the last collection is left to the size of the heap.             *)
ServedOnly == UNCHANGED requested

(* Roots asks for the last collection.                                     *)
Served == requested' = (requested \/ cancel.phase = "Roots")

(* Every fourth tick serves an inspection, if there is one.                *)
Serve ==
    /\ \/ Canceled /\ CancelTick(inspections) /\ UNCHANGED steps
       \/ /\ ~Canceled /\ Ids(inspections) # {}
          /\ ServiceInspection
          /\ UNCHANGED <<owners, source, syntax, cancel, steps>>
       \/ ~Canceled /\ Source
    /\ Served
    /\ UNCHANGED <<kept, archive, collector>>

(* A collection that has to wait for the lane is queued for it before the  *)
(* tick is served.                                                         *)
QueueForLane ==
    /\ Unwanted(TRUE) /\ MayOwn(TRUE)
    /\ ScalarWait(Collection)
    /\ UNCHANGED <<source, syntax, heap, kept, archive, inspections, cancel, collector,
                   requested, steps>>

(* A tick is served when there is no collection to begin, and once after   *)
(* each collection (collection_yield): here whenever none is under way.    *)
Advance ==
    /\ \/ /\ Collect \/ Begin(TRUE)
          /\ UNCHANGED <<inspections, steps>>
       \/ Idle /\ QueueForLane
       \/ Idle /\ Serve
    /\ UNCHANGED <<snapshots, nextView>>

AdvanceInspection(i) ==
    /\ i \in Ids(inspections)
    /\ Due(i)[i].phase \notin {"Output", "Done"}
    /\ \/ (Collect \/ Begin(FALSE)) /\ inspections' = Due(i)
       \/ /\ Idle /\ Unwanted(FALSE)
          /\ IF Canceled /\ cancel.phase # "Done" THEN CancelTick(Due(i))
             ELSE /\ InspectionTick(Due(i), i)
                  /\ UNCHANGED <<owners, source, syntax, cancel>>
          /\ Served
          /\ UNCHANGED <<kept, archive, collector>>
    /\ UNCHANGED <<snapshots, nextView, steps>>

Maintain ==
    /\ Collect \/ Begin(FALSE)
    /\ UNCHANGED <<views, steps>>

-----------------------------------------------------------------------------
(* The client's other calls.                                               *)
engineVars == <<owners, tasks, graph, birth, reader, kept, collector>>

(* Engine::snapshot: the bodies that have no record yet get one, and from  *)
(* here on no descriptor that is there is changed in place.                *)
Promoted ==
    LET new == IF syntax.done THEN {}
               ELSE {t \in Unpromoted : Parts(tasks[t].body) # None}
    IN {[book |-> Frozen([heap.book EXCEPT !.descriptors =
                    [d \in Descriptor |->
                        IF \E t \in new : f[t] = d
                        THEN [parts |-> Parts(tasks[CHOOSE t \in new : f[t] = d].body),
                              epoch |-> heap.book.epoch]
                        ELSE @[d]]]),
         pending |-> [t \in DOMAIN pending |-> IF t \in new THEN f[t] ELSE pending[t]]]
        : f \in Injection(new, FreeIn(heap.book))}

Shot(r) == [graph |-> graph, pending |-> r.pending, last |-> birth # None,
            saw |-> Remaining(r.book, r.pending)]

TakeSnapshot(r) ==
    /\ heap' = WithBook(heap, r.book)
    /\ pending' = r.pending
    /\ syntax' = [syntax EXCEPT !.done = TRUE]

(* capture_snapshot.  One snapshot and one inspection exist at a time.     *)
Capture ==
    /\ Idle /\ nextView <= MaxView /\ InBudget /\ Ids(snapshots) = {}
    /\ \E r \in Promoted :
        /\ TakeSnapshot(r)
        /\ snapshots' = [snapshots EXCEPT ![nextView] = Shot(r)]
    /\ nextView' = nextView + 1
    /\ UNCHANGED <<engineVars, archive, inspections, cancel, requested, steps>>

(* start_inspection of a snapshot, or of the moment.                       *)
StartInspection ==
    /\ Idle /\ nextView <= MaxView /\ InBudget /\ Ids(inspections) = {}
    /\ LET view(shot) == [snapshot |-> shot, phase |-> "Select", scope |-> True]
       IN \/ \E i \in Ids(snapshots) :
                /\ inspections' = [inspections EXCEPT ![nextView] = view(snapshots[i])]
                /\ UNCHANGED <<heap, pending, syntax>>
          \/ \E r \in Promoted :
                /\ TakeSnapshot(r)
                /\ inspections' = [inspections EXCEPT ![nextView] = view(Shot(r))]
    /\ nextView' = nextView + 1
    /\ UNCHANGED <<engineVars, archive, snapshots, cancel, requested, steps>>

(* release_snapshot.                                                       *)
ReleaseSnapshot(i) ==
    /\ Idle /\ snapshots[i] # None
    /\ snapshots' = [snapshots EXCEPT ![i] = None]
    /\ archive' = Invalid
    /\ requested' = TRUE
    /\ UNCHANGED <<engineVars, pending, syntax, heap, inspections, nextView, cancel, steps>>

(* cancel_inspection, take_inspection_output and release_inspection.       *)
CancelInspection(i) ==
    /\ Idle /\ inspections[i] # None
    /\ inspections' = [inspections EXCEPT ![i] = Discarding(@)]
    /\ UNCHANGED requested

TakeOutput(i) ==
    /\ inspections[i] # None /\ inspections[i].phase = "Output"
    /\ inspections' = [inspections EXCEPT ![i].phase = "Project"]
    /\ UNCHANGED requested

ReleaseInspection(i) ==
    /\ Idle /\ inspections[i] # None
    /\ inspections[i].phase = "Done"
    /\ inspections' = [inspections EXCEPT ![i] = None]
    /\ requested' = TRUE

(* discard_inspection, a tick of it.                                       *)
DiscardInspection(i) ==
    /\ Idle /\ inspections[i] # None /\ inspections[i].phase # "Done"
    /\ inspections' = [inspections EXCEPT ![i] = Drained(Discarding(@))]
    /\ UNCHANGED requested

OneView(i) ==
    /\ \/ CancelInspection(i) \/ TakeOutput(i)
       \/ ReleaseInspection(i) \/ DiscardInspection(i)
    /\ UNCHANGED <<engineVars, pending, syntax, heap, archive, snapshots, nextView,
                   cancel, steps>>

(* cancel, which is never refused.                                         *)
Cancel ==
    /\ ~Canceled
    /\ cancel' = [phase |-> "Syntax", limit |-> nextView - 1]
    /\ UNCHANGED <<engineVars, pending, syntax, heap, archive, views, requested, steps>>

Call ==
    \/ Capture \/ StartInspection \/ Cancel
    \/ \E i \in View : ReleaseSnapshot(i) \/ OneView(i)

HeapNext ==
    \/ Advance
    \/ \E i \in View : AdvanceInspection(i)
    \/ Maintain
    \/ Call

HeapSpec == HeapInit /\ [][HeapNext]_heapVars

-----------------------------------------------------------------------------
(* Whatever a task, a reader or a view holds is still there: conditions,   *)
(* rows and descriptors are freed only when nothing holds them, whichever  *)
(* continuation was suspended where when a collection came.                *)
Held ==
    JoinAll({CurrentRoots, ReaderRoots} \cup {TaskRoots(tasks[t]) : t \in Live}
            \cup {ShotRoots(shot) : shot \in Shots} \cup {ViewRoots(i) : i \in Ids(inspections)}
            \cup {BirthRoots(birth)})

NothingHeldIsFreed ==
    LET held == Held
    IN /\ held.rows \subseteq heap.rows
       /\ held.rows \cup held.conditions \subseteq heap.conditions
       /\ held.descriptors \subseteq LiveIn(heap.book)
       /\ Guards(heap.book, held.descriptors) \ {True} \subseteq heap.conditions
       /\ birth = None => \A shot \in Shots : ~shot.last

(* What is left of the bodies is told as it is: a view says forever what   *)
(* it said when it was captured, and the current records what the bodies   *)
(* have still to do, also of bodies that are being discarded.              *)
RecordsAreTrue ==
    /\ \A shot \in Shots : Remaining(heap.book, shot.pending) = shot.saw
    /\ ~Canceled /\ syntax.done =>
        \A t \in Live : Remaining(heap.book, pending)[t] = Parts(tasks[t].body)

(* When a cancellation is done and no view is held nothing is left.        *)
NothingIsLeft ==
    cancel.phase = "Done" /\ ~Collecting /\ Ids(snapshots) \cup Ids(inspections) = {} =>
        /\ heap.conditions = {} /\ heap.rows = {} /\ LiveIn(heap.book) = {}
        /\ birth = None

-----------------------------------------------------------------------------
(* For model checking: identities are only compared.                       *)
Symmetry == Permutations(Task) \cup Permutations(Condition) \cup Permutations(Descriptor)
=============================================================================
