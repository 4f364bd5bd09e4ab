# Verification of CHRImp

TLA+ models, model-checking runs and machine-checked proofs for the CHR engine
of this repository. Paths such as `engine.rs` are below `src/`.

CHRImp runs Constraint Handling Rules with explicit disjunction. It does not
backtrack: all alternatives live at once in one shared state. A *condition*
says in which alternatives a row of the state holds; conditions are canonical
decision diagrams over the choices born so far. In the models a condition is
the set of *worlds* it holds in, and a world is one assignment of truth values
to the choices of a run. Every algorithm is a state machine with a `tick` of
bounded work, and the engine interleaves them; nothing below relies on threads
except in the notebook server.

## 1. Inventory

| Component (files) | State | Operations | Interacts with | Hard behaviour | What makes it correct |
|---|---|---|---|---|---|
| Execution engine (`engine.rs`, `commit.rs`, `engine/discovery.rs`) | task queue, `state` (graph and history roots), `active`, births | one dispatch per tick: Init, Body phases, Activate, Search and Commit, Wake | everything below | searches read graphs that are long out of date; jobs finish ticks after they read their operands | rules applied only where applicable now, once; no match missed; answers are normal forms and do not change |
| Completion certificate (`engine.rs` `completion`, `can_complete`) | `ready`, `pending_root` | Scan, Difference, Acquire, Transport, Filter, Publish | tasks (rows), lane, `active` | scans a frozen root while tasks go on | a published world has no work left, ever; each world published or failed, once |
| Mutation lane (`engine.rs` `acquire`/`release_lane`, `engine/waiting.rs`) | `lane`, FIFO, two flags | acquire, park, release | tasks, certificate, collector | direct handoff, payload moves between queue and FIFO | no lost handoff, no overtaking, everyone is served |
| Graph (`graph.rs`) and store (`store.rs`) | persistent ordered maps | post, set_liveness, cursors | all readers | roots shared between versions, in-place writes when unshared | a retained root never changes |
| Identity (`identity.rs`, `members.rs`, `wake.rs`) | conditional union-find: PARENT, CHILD, RANK rows with conditions | Resolve, Equal, Merge, Members, Wake | graph, conditions | one merge links several pairs of representatives in disjoint contexts, edit by edit | in each world a forest; merge joins exactly two classes; the wake finds every moved occurrence |
| Matching (`matching.rs`, `engine/restriction.rs`) | join frames, trail, access paths | Matches::tick | graph, identity | backtracking interleaved with everything else | every match once, with its exact support |
| Propagation history (`history.rs`) | (rule, heads) to condition | support, set_support, prune | commit | duplicates from several searches | a propagation fires once per tuple and world |
| Conditions (`condition.rs`) | node table, unique table, cache, order | apply jobs, collect, sift, transform | all | suspended jobs across collection and reordering | canonical diagrams; a job's result is its operation's |
| Observation (`observe.rs`) | DFS stack | Observe::tick | graph, conditions | runs while execution goes on | each answer once, complete |
| Collection, coordinates, compaction (`engine/collection.rs`, `coordinates.rs`, `compact.rs`, `gc.rs`, `trace.rs`, `graph/prune.rs`) | collector phases, epochs | cycles under the lane | all roots | everything is suspended at an arbitrary point | no live row is lost; renaming of choices preserves meaning |
| Normalization (`engine/normalization.rs`, `dispatch.rs`, `producer.rs`, `program/constructors.rs`) | per-body normalizers | eager rule application for constructor declarations | engine | replaces ordinary activation | same answers as ordinary execution |
| Cancellation, stepping, inspection (`engine/cancel.rs`, `step.rs`, `inspection.rs`, `obligations.rs`) | requests, snapshots | teardown, one-rule steps, snapshot views | engine | requests arrive at any point | teardown drains; a step stops at a consistent state |
| Notebook server (`notebook.rs`, `main.rs`) | owners, receipts, runs, outputs, spool | reserve, attach, retire, numbered commands, output and acknowledgement, cancel, close; maintenance thread | threads, clients | retries, lost answers, lock order | a command takes effect once, in order; output is delivered in order; owners count their runs |
| Browser connection (`web/connection.mjs`) | stored controller (owner, command number, pending command), stored rows of runs | request, replay, recover, cancel, close, opening the store | server, store, page | every await may fail or be the page's last; restarts of the server | client and server agree on what took effect; no run is lost; a pending command is settled |
| Parser, program preparation (`syntax.rs`, `program.rs`) | prepared program | parse, prepare | engine | none | trigger tables are complete |
| Rest of the browser notebook (`web/notebook.mjs`, `documents.mjs`, `answers.mjs`, `graph.mjs`) | sessions, archives, drawings | user actions, delivery of output | connection, store | delivery while the run goes on | each output stored once |
| Tools, examples, tests | – | – | – | – | – |

The hazards, each at its line, are in `PROJECT.json`; every property below is
aimed at some of them.

## 2. Modules

| Module | Models | Used by |
|---|---|---|
| `Certificate` | the completion certificate over abstract tasks | `SteppingProofs`, `Stepping`, refined by `Engine` |
| `Stepping` | the gate of a logical step and its probe, beside a source that is `Certificate`'s | `SteppingProofs`, `MCStepping` |
| `Lane` | the mutation lane with tasks and polling owners | `LaneProofs`, `Heap`, refined by `Engine` |
| `Program` | prepared programs and their trigger tables | `Graph` |
| `Graph` | what a graph root says: occurrences, classes, matches, woken occurrences | `Engine` |
| `Engine` | every dispatch of the engine | `MCEngine` |
| `Obligations` | the descriptors of unfinished bodies | `Heap` |
| `Heap` | collection beside tasks, snapshots, inspections and a cancellation | `HeapProofs`, run `heap` |
| `Store` | the persistent maps, their cursors and filters, collection and archive | `MCStore` |
| `Coordinates` | compaction of choices, epochs and transports | `MCCoordinates` |
| `Forest` | forests of parents and their representatives | `UnionFind`, `IdentityRows` |
| `UnionFind` | what `identity.rs` promises: union by rank in every world | `UnionFindProofs`, refined by `Identity` |
| `IdentityRows` | the PARENT, CHILD and RANK rows of a root | `Identity`, `Members`, `Pruning` |
| `Identity` | `Merge`: links in disjoint conditions, edits of a staged root | `IdentityProofs`, `MCIdentity` |
| `Members` | the walks `Resolve`, `Members` and `Wake` on a root | `Walks` |
| `Matching` | the join of the heads of a rule over any index | `Walks` |
| `Sharing` | shared restrictions: producers, readers, the bounded registry | `Walks` |
| `Observing` | from the worlds of a completed graph to its answers | `Walks` |
| `Pruning` | what a collection takes out of graph, identity and history, with its certificate | `Walks`, `IdentityProofs` |
| `Blocks` | the containers that are made of blocks: the lane's FIFO, the slab of nodes, the queue of records to release | `Walks` |
| `Walks` | `Members`, `Matching`, `Sharing`, `Observing`, `Pruning` and `Blocks`, side by side | `MCWalks` |
| `Diagram` | the arena of `condition.rs`: nodes, tables, handles and `Job` | `Transform` |
| `Transform` | substitution of choices and projection | `Condition` |
| `Condition` | tasks, collector and sifting on one arena | `MCCondition` |
| `Receipts` | the server's tables of owners, receipts and runs, and what a request and a maintenance tick do to them | `Server`, `Connection` |
| `Server` | those tables under requests of any clients | `NotebookProofs`, `Notebook` |
| `Delivery` | spool, batches and acknowledgements of one run, and the page that saves its answers | `NotebookProofs`, `Notebook` |
| `Maintenance` | the threads of the server and its locks | `NotebookProofs`, `Notebook` |
| `Notebook` | the three above, side by side | `MCNotebook` |
| `Connection` | one browser's `NotebookConnection` with its store, and the server | runs `connection`, `overtaken` |
| `SteppingProofs` | the proofs about `Certificate` and `Stepping` | |
| `LaneProofs`, `HeapProofs`, `EngineProofs`, `UnionFindProofs`, `IdentityProofs` | the proofs about the module of that name; in `IdentityProofs` also about `Pruning` | |
| `AnswersProofs` | the proof about `Engine` that answers are normal forms | |
| `NotebookProofs` | the proofs about `Server`, `Maintenance` and `Delivery` | |
| `MC*` | constants for TLC: programs, goals, symmetry | the runs |

`Walks` and `Notebook` only put modules side by side that share a run: a
behaviour is one of theirs, and nothing is composed that the code composes.

### Certificate

`Engine::completion` has one action per phase. Rows of `pending_root` are a
function from tasks to conditions (`{}` is an absent row); the frozen cursor is
the set of rows not yet visited. A *task* is anything that obeys two rules: its
children are admitted, in the step that creates them, with rows inside its own
(`Admit`), and it assigns `active` only as the result of a job it started while
owning the lane (`FailStart`, `FailFinish`; the job takes arbitrarily long).
The rules are what the comment above `can_complete` appeals to; `Engine`
shows that the tasks of the code obey them. `Transport`, which renames choices
to the current epoch, is merged with `Filter` because worlds are not renamed.
`Filter` checks the scope against `active` again, as the code does;
`CertificateSound` shows that no world of the scope can have left `active`
since the capture, so that check never removes one.

Properties: `CertificateSound` (frozen rows certify what they do not cover),
`NoLateWork` (an answer is final) and `Accounted`: no world is published twice
or both published and failed (`PublishedOnce`), and `active` is exactly what
was neither (`ActiveIsTheRest`). `OperandsCurrent` (operands of jobs that will
assign `active` are still current), `CertificateSound` and `ActiveShrinks` are
proved only.

### Stepping

`Engine::advance` asks `step_gate` before every dispatch while a step is
requested: at most one rule is to be applied in the worlds that a list of
decisions selects. The gate computes the selected scope, runs the source every
other tick, compares each application with the scope, and uses the ticks
between for a *probe*, which finds out that no application can come any more:
it freezes the pending root, as the completion does, and joins its rows.
`step` has the fields of `RuleStep`; a Boolean job is known by what it will
return. The source is any program of which `Certificate` is true: children
inside their parents, and `active` shrinks; `CertificateIsASource` proves that
these two hold of `Certificate`, and so of `Engine`. In a behaviour either steps are requested,
or the engine runs freely and completes: no step and no completion read each
other's variables. `StepsAreExact`: a step that ends without an event
leaves no task in those of its worlds that are still active (`NothingToCome`),
and one that ends with an event had just that application in its worlds since
the request, and says whether it reached beyond them (`OneApplication`). `StepsEnd`: a step ends unless there is work left in its
worlds; a sibling that runs for ever does not hold it up.

### Lane

The FIFO is a sequence, the payloads are represented by the sets of runnable
and parked owners. Tasks are parked and resumed, the scalar owners
(`Completion`, `Collection`) stay outside the queue and poll. Properties:
`NoHandoffLost` (a payload is at one place, `OneEntry`, and whoever waits
somebody owns the lane and will run, `OwnerRuns`) and `FirstComeFirstServed`;
that everyone who waits is served is told of the engine (`EveryWaiterServed`).

### Program, Graph

Data as the engine presents it to tasks. A graph is a value with a sequence of
occurrences and, for each world, the representative of each variable. Holding
a graph value pins that version, as holding a root does in the code. Facts
whose support became empty stay in the sequence with no world. The
representative that wins a merge depends on ranks in the code; here any choice
is allowed, per world. That a merge has this effect, and that a wake finds what
`Woken` says, is what `Identity` and `Members` are about. The order in which a search reads heads after the
anchored one follows index counts in the code; here it is source order, which
changes only which of several equal variables is bound. A search may report
one tuple in several parts with disjoint supports, as may a wake; here each is
reported once with the union.

### Engine

State variables are the fields of `Engine` of the same name; `pending` is
`pending_root`, `queued` is `completion_waiting`, and the histories `failed`,
`published`, `answers`, `applied` record what happened. A task is a record in
`queue` or `waiting`. One action is one iteration of `Engine::advance`: it is
dispatched by `Service` (the reserved shares of completion and observation, and
the fill order), does what the handler does in that tick, and ends with what
the scheduler does to the task (`Requeue`, `RequeueReleasing`, `Finish`, or
parking in `AcquireAndRequeue`). Row removal, admission of children and
release of the lane are part of the same action, in the code's order, because
that order decides who is served next.

Boolean jobs, staged updates and cursors take several ticks in the code. The
operation is done in the tick that ends it, from operands captured when it
started; `TaskPending` and `CompletionPending` are the ticks before. Commits
revalidate head by head; the ports of a head are checked in the same action,
since nobody else can change the commit's private state in between and
`TaskPending` supplies the delay.

Refinements, as properties of runs: `ImplementsCertificate` (`Certificate`'s
specification under the mapping `CompletionView`) and `ImplementsLane`.
`AppliedWhereApplicable` compares each application with the state at its commit,
`AppliedOnce` compares the applications with each other, so an update of
liveness or history that is lost later is seen too. `AnswersAreNormalForms` has
two parts: `NothingApplicable` is about all the searches that should have
happened, `AnswersDoNotChange` about all the work that goes on in a shared root
afterwards. `program` is chosen at the start and says whether the run ends;
`EverythingDelivered` is about those that do, `FinishedWorldsPublished` about
one that does not, run until its tasks are used up. `WorkGoesOn` joins
`EverythingDelivered` with `EveryWaiterServed`, that whoever waits for the lane
is granted it.

The worlds of a run are the constant `World`, a set of assignments to the
choices; that there is one at all (`SomeWorld`) is what makes the condition
that is always true another one than the condition that is never true.

`Engine` leaves out constructor programs, cancellation, inspection and
collection (for these see `Heap` and `Coordinates`), and stepping (`Stepping`). A task whose scope is FALSE is discarded by the code; scopes
change only in the coordinates pass of collection, so this cannot happen here.

### Forest, UnionFind, IdentityRows, Identity, Members

`UnionFind` has one action: in each world of a scope where two variables have
different representatives, one is hung below the other. `Root` is defined by
closure (the root that is in every parent-closed set with the variable), so
that it can be reasoned about without induction on the length of a walk.
`same` records the equations, closed under equality.
`PartitionIsWhatWasEquated` and `RankGrows` are proved; that `Identity` has
them too follows from its refinement.

`Identity` has the rows of a root, each row a condition, and one action per
phase of `Merge::tick`; `merge` has the fields of the struct. A Boolean job is
part of the action that uses its result, its operands being private to the
merge. `Publish` is the step in which the body makes the staged root the
current one; the current root cannot change before, because the body owns the
lane (`Lane!OwnerRuns`, `ImplementsLane`), so one merge runs at a time.
Emptying private maps (`Cleanup`, `discard_tick`) is left out, and so is
`track_links`, which normalization uses. Properties: `ImplementsUnionFind` (the
rows of the current root, read world by world, take one union per merge),
`RowsConsistent` (the rows of a variable are disjoint, also between two edits,
children mirror parents, and ranks are logarithmic in the size of a class),
`DeltaNamesMovedClasses` (what the wake is told).

`Members` has the walks, one action per phase, over a frozen root: a behaviour
is one job. Nothing is interleaved here, because the root is a value and the
rest of a walk is private; what makes the walks hard is that one walk visits a
variable in all worlds at once while the rows of different worlds lead
different ways. `Novel` and `Remember` are merged with `Next`, `Hit` and
`Enqueue` with the scan they belong to. `MembersAndWakesAreExact` says that the
members found are the class, in every world, each once, and that the wake finds
the occurrences whose representative has moved, and no other.

### Matching, Sharing, Observing, Pruning, Blocks, Walks

Each of these is a long computation that a task owns and advances tick by tick.

`Matching` is the join of the heads of a rule: depth first, one frame per
matched head, bindings on a trail. A frame enumerates the candidates of one
index; which one is chosen by counting rows in the code and is any index here
whose use the code allows. `MatchesAreExact`: every match is found, in every
world once, in whatever parts, and nothing else.

`Sharing` is `graph/restriction.rs`: matchers that filter the same bucket share
a producer, which reads it once; whoever needs the next row reads it for all.
The registry is bounded and cleared by collections, and a producer is abandoned
when its last reader leaves. `SharedRowsAreExact`: a reader gets its rows, in
order and each once, and a producer with a reader is never abandoned.

`Observing` walks the births depth first and divides scopes by the choices born
in them, with the index of supports and its continuations. `AnswersAreHistories`:
each history of the completed worlds is answered once, by its facts. The branch
of the code for an inactive scope is modelled but no view reaches it, because
the scope of an observation is never empty.

`Pruning` cuts graph, identity and history to what is active and may still be
resolved, and leaves a certificate, which later writes carry along as dirty keys
or drop. `PruneIsExact` compares what it leaves with a direct definition, after
any writes, whether it visits all rows, the dirty ones or none.

`Blocks` has three containers that other modules take for a sequence, a set and
a stack: `WaitingQueue`, whose blocks of four are kept as spares when they are
emptied; `NodeSlab`, which finds the nodes of an arena by their serial numbers
and drops a block with its last node; and the queue of the records to release,
which overflows from its inline array into older blocks. `BlocksAreExact`
compares each with what it stands for, after any calls.

### Obligations, Heap

`Heap` is about who holds what when a collection comes: tasks in the queue and
parked, the certificate, the observer, snapshots and inspections, and a
cancellation that takes them down one step after the other
(`engine/collection.rs`, `inspection.rs`, `cancel.rs`). Of the heap it has
handles of conditions, rows of the graph and descriptors of bodies
(`Obligations`). A collection is its start and one step, since no task runs
while it lives. It implements the parking and handing over of `Lane`, which it
instantiates. `NothingHeldIsFreed`, `RecordsAreTrue` (a view says for ever what it said
when it was captured, although descriptors are changed in place) and
`NothingIsLeft` (a cancelled engine without views is empty).

### Store

Roots are trees of shared records; a write copies what others can reach and
changes the rest in place; a record whose last reference is dropped leaves its
children in a queue; a collector visits what it is given and tells an archive
what is new. `RootsAreMaps` (a root keeps its contents, a cursor reads the map it
was opened on, trees are whole) and `CollectionIsExact` (nothing reachable is stale, every
value held is told). Substitution is a filter with a memo of images.

### Coordinates

A choice whose value follows from older ones in every active world is
forgotten: `engine/compact.rs` rewrites everything without it and publishes the
substitution as a step between two epochs, and readers of an older state carry
what they found over these steps (`engine/coordinates.rs`: segments, caches,
leases). A condition is a set of assignments to the choices, and has beside it
the worlds it stands for, which the program does not know.
`StatesKeepTheirMeaning`: rewriting changes no meaning, and states that
somebody looks back at can be read. `AnswersAreFinished`: a certificate captured
before several compactions is still one.

### Diagram, Transform, Condition

The other modules take conditions for sets of worlds; these say why that is
right. A handle is a number: `2n` is node `n`, `2n + 1` its complement, 0 and 1
are the terminals. `Diagram` has the arena as a record (`nodes`, `unique`,
`cache` with its order of use `recent`, `rank` and `after` of the choices,
reference counts, the epoch of the order) and `Job`, one operator per kind of
frame; `Transform` has substitution, which replaces choices by conditions from
the last in the order to the first, and projection, which quantifies choices
away. Their ticks are operators on the arena and the task. `Condition` has one
action per tick of a task, of the collector or of the sift, in the order the code forces:
a task first brings a reordering to its end (`TickSift`), a collector holds
every task and call up while it lives, and it may be dropped after any of its
ticks (the caller may stop collecting at any time), when the reordering stays
behind in the arena and may no longer reclaim nodes.

The caller is `Script`, a straight-line program of calls that runs beside the
collector. Its `Meaning` is computed without the arena, and
`HandlesAreMeanings` compares every handle with it in every state: in the
middle of a swap, which rewrites nodes in place, and of a sweep. Its second part,
`Canonical`, is what the engine relies on when it compares conditions by handle.
`NothingFreedOrLeft` is about the reference counts that decide what a swap frees
(`CountsAreEdges`) and about a collection that is not cut short
(`CollectionLeavesReachable`), `RestartsOnce` about jobs that find the order
changed: the lease taken at the first restart keeps it.

Clearing the cache, marking, gathering the candidates of a sift and releasing a
task's memo are one step each: nothing else runs meanwhile, or what they touch
is private. The size thresholds that start a reordering and its budget are
free choices. Left out: the limit of 32 candidates, which the run cannot reach,
the synchronous calls through `Arena::direct`, discarding a task, archived
roots (with `Reset` and `Unique`); the blocks of nodes are in `Blocks`. A sweep that is cut
short leaves garbage whose children are gone; `Whole` sets it apart, and since
numbers are not used again nothing finds it.

### Receipts, Server, Connection

A client gives its commands consecutive numbers; the server answers the next
number, or the last one again from the owner's receipt. Together they are to
make every command take effect exactly once, across lost answers, reloads of
the page and restarts of the server.

`Receipts` has one operator per route, `Dispatch` choosing among them as
`Runtime::dispatch` does. Every request of an owner holds `Owner.state` from the
look at the receipt to its replacement, and maintenance drives or reclaims a
run only under the same lock, so a request is one step; the locks themselves
are the subject of `Maintenance`. `entries` and `runs` are the tables of
the same names; a run keeps what commands read (`closing`, cancellation,
`running`, `stepping`, and whether a step is under way, done or being left), a
reclaimed run stays as `gone`. `issued` and `admitted` are the owner counters.
`executed` is history. An answer is `ok` with the number given, `busy` (the
retryable 409 of `view_result`), `unknown_owner`, or `refused` (every other
4xx, among which the client makes no difference). A 500 changes no number and
is to the client what a lost request is. Whether an engine is collecting is
not modelled: `Deny` may answer `busy` to any step or resume. Programs that
`prepare` rejects, and runs that have finished, are left out: the first are
refused like other commands, the second take commands like paused runs.

In `Server` clients send anything of the set `Asked`. Properties:
`ExecutedInOrder` and `OwnersCountRuns`; `ReceiptIsLast` is proved only.

In `Connection` one browser uses `NotebookConnection`. The controller is
serial, so `phase` says at which await it is: a request under way (`fetch`) or
a write to the store. Each await is a step; what lies between two awaits is
one. A request is served and its answer received in one step, unless the fetch
fails: then it was lost, was served, or is still under way (`late`, a bag). A
write that fails ends the operation with the error, as the code's exceptions
do. `Reload` forgets everything but `saved` and `rows`; `ServerRestarts` forgets
the server. `state`, `saved` and `durable` are `state`, the stored controller,
and `durableOwner` with `pendingDurable`. Of the rows of runs the protocol reads
whether a close was begun and whether a step is pending. `User` is what
`RunSession` asks for: it recovers before it cancels, closes or changes runs.
The browser's lock admits one controller at a time.

Properties: `StoredIsDone`, which joins `Agreement` (the server has executed
exactly what the stored controller has counted, and possibly the pending
command) and `RowsMatchRuns` (no run of this server is without a stored row, and
no row of an older server passes for a run of this one), `CommandIsNextOrReplay`
(no command is answered with `command_conflict`) and the liveness property
`EverySettled`.

`CommandIsNextOrReplay` does not hold in general (run `overtaken`). A step is
sent while a resumed step is still being left, its fetch fails while the
request is under way, and the page recovers: the copy it sends is served first
and refused, so the client drops the command and keeps its number. When the
first copy arrives the old step has been left, and it takes effect under that
number. The user's next command has the same number and another body, and the
server refuses it with `command_conflict`. The client drops it, as it does
every refused command, and keeps the number, so each later command meets the
same answer until that very step is asked for again or the server is restarted.
In run `connection` the property holds: its bound on commands and events ends
before the number is used a third time.

### Delivery, Maintenance, Notebook

`Delivery` follows the answers of one run. The server appends the events of the
engine to a spool on disk, gives them out in numbered batches and keeps the
last batch until its number is acknowledged; the page assembles alternatives,
stores their parts and its place in the batch in one transaction, and after a
reload goes on there. Fetches fail before or after they are served, requests of
a page that was left are served late, transactions and the spool fail.
`ArchiveIsExact`: what is stored is the first complete alternatives, each with
all its parts, and no check of the page ever fails. `AnswersArrive`: a complete
alternative is stored in the end.

Three things were seen in the model that no document speaks about. A request to
cancel by a page that was left, served after the page was loaded anew, makes
`readOutput` of the new page store the phase `canceled` although the spool is
not drained; the answers spooled by then stay on the server until the run is
closed. A spool that stays unreadable makes `cancel` fail, and with it
`closeRun`, for ever. And in `engine/cancel.rs`, phase `Collect`,
`debug_assert!(!self.collecting())` can be reached with `collection_yield` still
set by a collection that ended in `maintain`; release builds go on rightly
(module `Heap`).

`Maintenance` has the HTTP workers and the callers of `tick`, and the locks of
the owners' table, of each owner, of the run table; a step is what happens
between taking and leaving a lock that no other is taken under. The fairness
of an owner's lock (the queue of waiting workers that the maintenance thread
yields to) is part of it. `TablesAgree`: no thread works on a reclaimed run or
for a retired owner, and the two tables have the same runs.
`ServedAndReclaimed`: every request is answered, and every closed run is
reclaimed. It is this module that lets `Receipts` and `Delivery` take a request
as one step.

## 3. Runs

| Run | Module | States | Shows |
|---|---|---|---|
| `stepping` | `MCStepping`: 2 tasks, 2 worlds; one choice, decided either way, or no decision | 85 396 | Tasks split, spawn, fail and finish in every order: the invariants of `Certificate` where the engine completes, and those of steps where steps are requested. Two worlds are enough for a world that fails, is published or is not selected while the other goes on; two tasks for a frozen row and a child born meanwhile. |
| `heap` | `Heap`: 2 tasks, 2 conditions, 2 descriptors | 349 538 | What collections keep, what views say and what a cancellation leaves, and the order in which the lane is served. |
| `rules` | `MCEngine`: `a(A), ((b(B), a(B), A = C, B = C) ; true)` with `a(X), b(X) ==> t(X)` and `a(X) \ a(X) <=> u(N)` | 159 434 | A propagation found from both heads; two facts that can each remove the other, matched only after two merges of one class; fresh variables; the other alternative is published meanwhile and shares `a(A)`. `ImplementsCertificate`. |
| `arms` | `MCEngine`: three alternatives, two choices, rules that fail; and `l(A) ; true` with `l(X) <=> l(X)` | 30 178 | Nested choices, arms that fail with work under way, delivery, and an alternative that is published although another one never ends. `ImplementsLane`. |
| `store` | `MCStore`: keys of 3 bits, 2 to a page, 4 calls | 571 108 | Writes to shared and unshared records, cursors and filters over roots that are released, collections and an archive between any two calls. |
| `identity` | `MCIdentity`: 4 variables, 2 worlds, symmetric | 128 216 | Merges of variables whose classes differ between the worlds: up to four pairs of representatives, ranks 0 to 2. |
| `walks` | `MCWalks` | 216 176 | Members and wakes, joins, answers, shared restrictions and prunes, each from every one of its inputs; and the containers of `Blocks` under any calls. |
| `notebook` | `MCNotebook` | 212 320 | The server's tables under arbitrary clients, the delivery of one run, and the threads with their locks. |
| `connection` | `Connection`: all five commands; 3 commands, 3 faults, 4 events, 1 abandoned request under way, 2 incarnations | 269 017 | Failed fetches and writes, reloads and restarts at every await, and requests that arrive after their sender gave up. |
| `condition` | `MCCondition`: 4 choices, one born under another and one at any moment of a reordering; 13 calls; a cache of 2 results; 2 collections | 285 707 | Jobs, substitutions and a projection that are stopped at any tick by a collection that marks, sweeps and reorders, or is dropped on the way. |
| `coordinates` | `MCCoordinates`: five programs of up to 3 choices, up to 3 compactions, segments of 2 epochs | 1 938 983 | Searches, a certificate, views and an inspection that hold on to older states while choices are forgotten. |
| `overtaken` | `Connection`: start, step, resume; 5 commands, 2 faults | violated | The finding above. |

Deadlock is checked in `rules`, where the bounds would show as one. Elsewhere
the system may stop: after its last answer or call, when the user stops, or at
the bound on the tasks of the program of `arms` that never ends.

Bounds of the engine. `MaxTask`, `MaxVar` and `MaxChoice` limit what a run may
create; in the programs that end they are never reached. `MaxSlack` is the
number of Pending ticks a run may spend. The scheduler is deterministic, so
these ticks, the choice of losers in merges, the order of matches and wakes and
the client's `take_output` are the only sources of different interleavings. Two
or three extra ticks let each task of these programs fall behind another one
that races with it.

Bounds of the heap. A body has two positions (`MaxProgress` 1), so it is
replaced in the book at least once, and every change of its guard makes a handle.
`MaxStep` bounds the steps that make the heap grow and the views together, a
view counting as two: three leave room for a snapshot or inspection with a step
of a task before, between or after. One snapshot and one inspection exist at a
time. Two conditions and two descriptors tell what is shared from what is not.

Bounds of the walks. Four variables are the fewest for a tree of depth two,
where a walk passes a variable that is not a representative, and two worlds the
fewest for forests that disagree, cycles of rows included (2 is below 1 where
just these two were merged, and 1 below 2 where 2 had won against 3 before). A
join is over four facts, one of them a loop, three variables, and heads that
form a path or a cycle. A view has three choices, one born under another and a
third under either, so eight worlds. Restrictions have buckets of one and of two
chunks, two of them sharing one, in a registry of two, and two readers, who may
leave; the registry is cleared once. Prunes see two occurrences with three of
the variables, two writes and two prunes in any order, and one reordering of
the arena. The containers have blocks of two entries and take as many entries as
fill three blocks, so that each crosses the ends of its blocks and reuses them.

`identity`: `MaxRank` is one more than the ranks of four variables need, so that
a rank too many is seen. `store`: two keys to a page and three bits make
trees of up to three levels, which four calls split, copy, join and remove;
symmetric in the two slots.

`condition`: two collections are needed for a lease to matter: the first
restarts a job, the second must not. One register is smaller in another order,
so that orders really change. The calls wait for one another's results, so few
tasks run at once.

`notebook`: the server is restarted once; each incarnation has two owners and
two runs, and requests name the first one, so that after the restart all are of
an older server; commands 1 and 2 are asked in any order. Two owners are needed
for a request on somebody else's run. A run has two alternatives with at most
one part each, a batch has at most three events, the page writes when it has two
rows, the spool is compacted when two were read, and there is one failure or
reload (`MaxTrouble`). Two workers and two callers of `tick`, one of them not
the maintenance thread, take five requests for one owner and one run: attaching,
starting, closing and retiring, and one that races with any of them.

`connection`: three faults are a fetch that fails, a page that is left while the
recovery is under way and a failure after it. Three commands give a start, a
command on its run and one that must have the right number afterwards.
`MaxEvent` bounds commands and faults together.

Fairness. `Engine!FairSpec`: the host calls `advance` again and again and takes
every output (`runtime.rs` `drive`, and the loop of `notebook.rs` `tick`). The
scheduler inside `advance` is the code's, so that no fairness of tasks is
assumed: that waiters are served (`EveryWaiterServed`) is a result.
`WalkSpec`: the task that owns a walk is dispatched again and again, and so is
every reader of a restriction; both follow from the queue's order. `Stepping`:
the host goes on to call `advance`, and a job of the probe, whose ticks come
between those of the source, is done after some of them (strong fairness of
`Probe`).
`Maintenance`: each thread is scheduled by the operating system; the fairness of
an owner's lock is the code's own (the queue of waiting workers) and is
modelled. `Delivery`: the page goes on with what it does, its user opens it
again, reads on after a failure, and closes a cancelled run.

`Connection`: the controller goes on by itself and its requests are served
(weak fairness); the page is opened again after it was left; a session recovers
what is pending when it is restored and before it cancels, closes or switches
runs, so recovery is attempted again and again (strong fairness, since faults
and other operations come in between); and a collection ends, because every
retry asks for maintenance (`/api/maintenance`), so not every answer is `busy`.
The bound on faults is part of the model: nothing is settled while every fetch
fails.

Each property is also run against a faulty variant of one definition (the
operators with a comment starting `Fault:`), which must violate it.

## 4. Proofs

Each theorem holds for all values of the constants that satisfy the named
assumptions. An inductive invariant was model-checked before it was proved.

`SteppingProofs` proves every invariant of `Certificate` and `ActiveShrinks`
for all sets of worlds and tasks, from `OwnersDistinct` only. The inductive
invariant is the conjunction of all of them: `NoLateWork` needs
`CertificateSound` (publication is safe because the scope is disjoint from all
rows), which holds because `Admit` keeps children within their parent
(`BornWithin`); `PublishedOnce` and `Accounted` need `OperandsCurrent`, the
statement that the lane protects operands across ticks. One lemma per action.

It proves `StepsAreExact` of `Stepping` for all sets of worlds, tasks and
selections, from `SelectionsDecideChoices` and `OwnersDistinct`. `NothingToCome`
rests on `ProbeSound`, which follows the rows that a probe froze: a world that
it has neither joined to `blocked` nor still to read has no task, as children
are born inside their parents, and the operands of the probe's products only
shrink under it. `Course` says what each phase knows of the applications since
the request. `CertificateIsASource` proves of `Certificate` what `Stepping`
takes of it.

`LaneProofs` proves `TypeOK`, `OneEntry`, `OwnerRuns` (together inductive) and
`FirstComeFirstServed` from `LaneOwnersDistinct`. `Pushed` and `Popped` are
the facts about the FIFO.

`HeapProofs` proves `NothingHeldIsFreed`, `RecordsAreTrue` and `NothingIsLeft`
for all tasks, conditions, descriptors and views and any bounds, from
`HeapBounds`, `NoneAndTrueApart` (an empty `Option` is no value, and TRUE owns
no node), `CollectionIsAnOwner` and `LaneOwnersDistinct`. A collection frees
what its phases have not found, so the inductive invariant, `HeapInv`, has a
part for each kind of holder: every payload is in the run queue or in the FIFO
(`Places`, with the invariants of `Lane`), which is what makes the two phases
over tasks complete; the roots are taken down only when no payload and no
reader is left (`Stages`); what the state, a reader and the views hold is in the
stores (`StateHeld`, `ReaderHeld`, `ViewsHeld`), which are closed under naming
(`StoreSound`); a body that a view can see is older than the last capture, so it
is copied before it is changed (`Fixed`); and the archive has all that
registered snapshots hold (`KeptHeld`, `ArchiveKept`), without which a
collection that looks only at later snapshots would free the earlier ones.
`BodiesTold` and `Emptied` are what the other two properties need. Every action
but `Collect` lets the stores grow (`Grows`), and one lemma each says what it
changes; for `Collect` the lemmas follow its phases (`Settled`, `Rooted`, `Left`).

`EngineProofs` is about the whole engine, for any prepared programs, any worlds
and any interleaving the bounds allow. It proves

- that every dispatch is a step of `Lane` (`ImplementsLane`), and hence that no
  payload is stranded (`EngineStrandsNobody`),
- that every dispatch is a step of `Certificate` or a stutter
  (`EngineImplementsCertificate`), and hence that the engine loses no world:
  each is active, failed or published, once, and no task works in a published
  one (`EngineLosesNoWorld`),
- `AppliedOnce`: no world sees a fact removed twice, or a propagation fired twice,
- `AppliedWhereApplicable`: each application is of a rule that is applicable in
  the state it is applied to, in worlds that are active,
- that what the state says of a published world never changes again, though
  others of the same graph are still worked in (`AnswersAreFinal`),
- and in `AnswersProofs` the invariant `AnswersAreNormalForms`: no rule is
  applicable in a world of an answer (`AnswersAreNormal`).

What makes this hard is that a search holds a match of a graph that may be long
out of date, waits for the lane behind any number of others and validates the
match head by head on a state that it has read once. The first invariant, *IInv*,
has four parts: *Structure* (every task is at one place, and one past its acquire owns
the lane), *LaneInv* (the invariant of `Lane`), *Knowledge* (`Task` by `Task`:
the occurrences a task names exist and have the arguments it knows; what it
learned of an older graph is a bound on the present one, since occurrences are
never forgotten, liveness shrinks and classes grow; and what an owner of the
lane has verified of the state it captured is true of the current one) and
*Traces* (each application has left an occurrence that is dead, or a history
row, in its worlds). Knowledge without LaneInv is not inductive (two commits at
once), nor LaneInv without Structure. There are four lemmas for the ways a
dispatch can end, `RequeueKeeps`, `ReleasingKeeps`, `FinishKeeps` and
`AcquireKeeps`, and one for each action, which supplies what that action adds;
only `CommitApplied` is about Traces and `Justly`.

The refinement of `Certificate` needs *Rows* besides: a task's scope is its row of the
pending root, and what it has left to do lies inside it (`WorkRows`); where the
certificate's phase stands and when it waits for the lane (`ReadyRows`); the
answers are those of published worlds (`AnswerRows`); and `Certificate`'s own
invariant, by which nobody works in a published world. Each action again has
one lemma (`...Advances`, `...Rows`). `AnswersAreFinal` follows since a dispatch
changes the state only in worlds of its task's row (`NextLocally`).

That answers are normal forms is the claim that no match is missed, whatever
graphs the searches read. Its invariant is *Owed*: a rule that is applicable in
an active world is carried by a task (`Carries`): an activation that has the
trigger still to try, in a graph in which the tuple matches already; a wake
with one of its occurrences under a head that is sensitive to identity; or a
search that has found it, as one of its matches, its candidate or its commit.
It is handed on from one to the next: a post owes an activation to what it
completes (`BodyPostOwed`), a merge a wake (`BodyMergeOwed`: a tuple that fits
now and did not before has two ports of one slot in classes that were joined,
and one of them in the class that lost its root), an activation a search, which
finds every tuple its graph has (`DiscoveredFinds`), and a commit that turns a
match down, or applies it, leaves it inapplicable there. Owed needs *Typing*:
the arguments of facts, the environments of bodies and the bindings of matches
are variables that exist, since a merge looks at the classes of variables only.
A world is published when no task has it in its row, and who carries a match
has its world in its row (`CarriesWithin`), so nothing is owed there.

The assumptions are `ProgramsArePrepared`, `EngineBounds`, `SomeWorld`,
`NoneIsNoAnswer` and `EngineOwnersDistinct`. The first is what parser and
preparation guarantee: indexes are in range, the atoms of one relation have one
arity (relation and arity are the signature, `syntax.rs` line 264), every rule
has a head, and slots are numbered in the order in which they are met, heads
first (`program.rs`, `Variables::slot` and `prepare`), so that the slots up to
`bound` occur in heads and a body reads slots that its rule has (`Reads`).
`AnswersAreNormal` has a hypothesis, `NoneApart`, that an empty `Option` is not
a record with a field `occs`; it stands in the theorem because TLC, for which
`None` is a model value, cannot evaluate it.

`UnionFindProofs` proves `PartitionIsWhatWasEquated` and `RankGrows` for all
sets of variables and worlds, from `VariablesAreNumbers` (only the tie-break
`l < r` uses it). The two and the types are inductive together. The lemmas
about `Forest` say that a walk has one end (`UniqueRoot`) and what a link does
to the ends of all walks (`LinkMovesClass`); with the definition of `Reached`
by closure each is proved by exhibiting a closed set.

`IdentityProofs` proves for all finite sets of variables and any worlds, from
`VariablesAreNumbers` and `RanksSuffice`, that the rows stay consistent in the
middle of a link too (`RowsConsistent`), that a delta names just what moved
(`DeltaNamesMovedClasses`), and that a merge of many links, each of many edits,
is one union of `UnionFind` (`ImplementsUnionFind`); so the theorem of
`UnionFindProofs` holds of the rows of the code (`ClassesAreWhatWasEquated`).
`RanksSuffice` bounds the ranks by the number of variables: identities and
ranks are both `u64`, so there cannot be more ranks than the type has. The
invariant says of each single world what of the merge lies behind it (`Todo`,
`Staged`, `Wrote`), because a step of a merge is about a set of worlds and the
worlds of a link leave it at different edits. That ranks are logarithmic (a
class of rank *k* has 2^*k* members) is proved with the powers as a function.

Of `Pruning` it proves `PruneIsExact`, for any variables, worlds, occurrences,
records, references and bounds, from `PrunesAreOfRows` (arguments and heads are
variables and occurrences, no merge links a variable to itself) and
`VariablesAreNumbers`. What a variable may still be resolved from (`Needed`) is
again defined by closed sets. While a prune marks, whatever is pending or marked
is needed (`MarksSound`), and what is named, or above something marked, is
pending or marked (`SeedsHeld`, `ArgsHeld`, `MarksClosed`); so when nothing is
pending the marks are a closed set that holds what is named, and are exactly
what is needed (`MarksExact`). A certificate (`CertificateTrue`) says that its
root is what a prune of it would return, up to its dirty rows. That a prune may
leave one needs that pruning twice is pruning once (`PrunedNeeded`: cutting
rows makes nothing that stays less needed), and that one outlives a write needs
that no row of the identity is there, or the write would need its closure anew.
The invariant also needs that a variable has one parent in a world (`Lone`):
merges link representatives only, and prunes only take rows away.

`NotebookProofs` proves of `Server` `TypeOK`, `ExecutedInOrder`, `ReceiptIsLast` and
`OwnersCountRuns` for any number of owners, runs and incarnations and any set of
requests, from `AskedAreRequests` only. The inductive invariant adds
`OnlyAdmitted` (only numbers up to `admitted` have executed anything), without
which a number attached for the first time might have a past. `NextKeepsOrder` and
`NextIsLast` say what one more command does to the history, `RunReplaced` and
`SameRunsCounted` what a changed run does to the count of runs; then there is one
lemma per route.

Of `Maintenance` it proves `TablesAgree` for any number of workers, callers of
`tick`, owners, runs and requests, from `MaintenanceBounds` and `ThreadsDiffer`:
the licence `Receipts` and `Delivery` use when they take a request as one
step. The invariant has what each thread knows at the place where it is
(`WorkerKnows`, `KeeperKnows`): the locks it holds, and what it read under them
that is still true, namely that the owner it holds is not retired, the run it
names is this owner's and is not reclaimed. `Undisturbed` is the condition
under which the step of one thread leaves alone what another one knows; each
action is proved to satisfy it for all others, and to establish what its own
thread knows next.

Of `Delivery` it proves `ArchiveIsExact` for runs of any length, batches of any
size and any number of failures and reloads, from `DeliveryBounds`. Everybody
stands at a place in the events of the engine: the spool up to where it was
read, the batch that is kept (`SpoolSound`), the row in the store (`RowSound`)
and the page (`Keeps`). What each has of the answers is what the events before
its place make (`StandsAt`, `Exact`, `Written`), and `PushIsExact` says that one
event more keeps it so. The places of row and page are given by the number of
the acknowledged batch, and do not move when the server goes on: each of its
steps, also for a request that was left and is served late, only adds events,
cancels, or replaces a batch that is stored (`Advances`); that a late request
asks for no newer batch than the stored one is `StraysSound`. A cancellation
drops the alternative under way and skips the events after the last end. That
is right only after the last event was read from the spool (`HoldsTheLast`), so
the invariant follows what a page knows of that from the reply to `cancel` up
to the last transaction (`ReplyKept`, `Does`). A run is closed only once all is
saved (`AllSaved`, `Closes`). Each operation of the page has a lemma that what
it makes of a sound page is sound (`PageSound`); steps of the store use these
lemmas in the state after the transaction.

Only model-checked:

- liveness, which is beyond the proof system: `WorkGoesOn`
  (`EverythingDelivered` and `EveryWaiterServed`), `StepsEnd`, `WalksEnd`,
  `AllIsServed` (`AnswersArrive`, `ServedAndReclaimed`), `EverySettled`; and
  `FinishedWorldsPublished`, an invariant about programs that do not end, which
  says by a bound on their tasks that something happened in time;
- `Condition` and `Store`: what a handle or a tree means is defined by recursion
  over its nodes, so that their properties need induction over data (and the
  edits of `Store` are recursive operators); `Coordinates`, whose states mean
  what such conditions mean;
- the members of `Walks` other than `Pruning`, whose runs go through every input
  of a small size: that a walk, a join or a fold over a sequence ends with the
  right set is an induction over the input;
- `Connection`: `StoredIsDone` and `CommandIsNextOrReplay` hold of the runs'
  bounds only. Run `overtaken` shows the second to fail beyond them, so there
  is no theorem to prove.

## 5. Plan

1. `Derivation`: the abstract CHR semantics of one world, implemented by
   `Engine` in each world; `AppliedWhereApplicable`, `AppliedOnce` and
   `AnswersAreNormal` are its steps and its end.
2. `Connection` extended by inspect and snapshot.
3. `Condition` extended by archived roots and discarded tasks.
4. `Normalization`: constructor programs, implementing the same answers.

Not modelled: normalization (`engine/normalization.rs`, `dispatch.rs`,
`producer.rs`, `program/constructors.rs`), an alternative execution of some
programs; the parser and the planning of indexes; the counts by which an access
path is chosen; what an inspection prints; documents and drawings of the
browser; diagnostics, examples and measurements. One hazard of what is
modelled has no property yet: the closures of archived roots across
collections (`condition.rs` line 1290).
