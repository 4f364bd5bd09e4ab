-------------------------------- MODULE Lane --------------------------------
(***************************************************************************)
(* The mutation lane of src/engine.rs: acquire, release_lane and the FIFO  *)
(* of src/engine/waiting.rs.                                               *)
(*                                                                         *)
(* One owner at a time may change the shared state.  A task that fails to  *)
(* acquire the lane is parked: its payload moves from the run queue into   *)
(* the FIFO and comes back when release_lane grants it the lane.  The      *)
(* certificate and the collector are no tasks: they stay where they are    *)
(* and poll, and a flag each says whether they are already in the FIFO.    *)
(*                                                                         *)
(* Engine.tla implements this module with the tasks of the code.           *)
(***************************************************************************)
EXTENDS Naturals, Sequences

CONSTANTS
    Task,         \* task identities
    Scalar,       \* Owner::Completion and Owner::Collection
    Free          \* the lane has no owner (None)

ASSUME LaneOwnersDistinct ==
    /\ Task \cap Scalar = {}
    /\ Free \notin Task \cup Scalar

VARIABLES
    lane,       \* Engine.lane
    waiting,    \* Engine.waiting
    flag,       \* Engine.completion_waiting and Engine.collection_waiting
    runnable    \* the tasks in Engine.queue

vars == <<lane, waiting, flag, runnable>>

-----------------------------------------------------------------------------

Owner == Task \cup Scalar

Waiters == {waiting[i] : i \in DOMAIN waiting}

Init ==
    /\ lane = Free
    /\ waiting = <<>>
    /\ flag = [s \in Scalar |-> FALSE]
    /\ runnable \in SUBSET Task

(* After a step the run queue has the tasks `kept' and any new ones.       *)
Keep(kept) ==
    /\ runnable' \in SUBSET (Task \cup kept)
    /\ kept \subseteq runnable'
    /\ (runnable' \ kept) \cap (runnable \cup Waiters) = {}

(* A step of a runnable task that leaves the lane alone.                   *)
Spawn ==
    /\ runnable # {}
    /\ Keep(runnable)
    /\ UNCHANGED <<lane, waiting, flag>>

Uncontended == lane = Free /\ waiting = <<>>

(* acquire(Owner::Task(t)) by the task being dispatched.                   *)
TaskTake(t) ==
    /\ t \in runnable
    /\ Uncontended
    /\ lane' = t
    /\ UNCHANGED <<waiting, flag, runnable>>

(* acquire sets park_task, and the scheduler parks the payload before it   *)
(* dispatches anything else.                                               *)
TaskPark(t) ==
    /\ t \in runnable
    /\ lane # t
    /\ ~Uncontended
    /\ waiting' = Append(waiting, t)
    /\ runnable' = runnable \ {t}
    /\ UNCHANGED <<lane, flag>>

ScalarTake(s) ==
    /\ Uncontended
    /\ lane' = s
    /\ flag' = [flag EXCEPT ![s] = FALSE]
    /\ UNCHANGED <<waiting, runnable>>

(* A scalar owner that polls again while it waits is not queued twice.     *)
ScalarWait(s) ==
    /\ lane # s
    /\ ~Uncontended
    /\ ~flag[s]
    /\ flag' = [flag EXCEPT ![s] = TRUE]
    /\ waiting' = Append(waiting, s)
    /\ UNCHANGED <<lane, runnable>>

(* Only a task has a payload to put back.                                  *)
Resumed(owner) == {owner} \cap Task

(* Fault: the last to come is served first.                                *)
ReleaseToLast(kept) ==
    IF waiting = <<>>
    THEN lane' = Free /\ Keep(kept) /\ UNCHANGED <<waiting, flag>>
    ELSE LET last == waiting[Len(waiting)]
         IN /\ lane' = last
            /\ waiting' = SubSeq(waiting, 1, Len(waiting) - 1)
            /\ flag' = [s \in Scalar |-> flag[s] /\ s # last]
            /\ Keep(kept \cup Resumed(last))

(* release_lane: direct handoff to the front of the FIFO.  `kept' is what  *)
(* the run queue keeps of its tasks.                                       *)
ReleaseLane(kept) ==
    IF waiting = <<>>
    THEN /\ lane' = Free
         /\ Keep(kept)
         /\ UNCHANGED <<waiting, flag>>
    ELSE /\ lane' = Head(waiting)
         /\ waiting' = Tail(waiting)
         /\ flag' = [s \in Scalar |-> flag[s] /\ s # Head(waiting)]
         /\ Keep(kept \cup Resumed(Head(waiting)))

(* The owner goes on without the lane (a finished commit, a certificate)   *)
Release ==
    /\ lane \in runnable \cup Scalar
    /\ ReleaseLane(runnable)

(* or is finished: its row, its payload and the lane go in the same tick.  *)
Finish(t) ==
    /\ t \in runnable
    /\ IF lane = t THEN ReleaseLane(runnable \ {t})
       ELSE /\ Keep(runnable \ {t})
            /\ UNCHANGED <<lane, waiting, flag>>

Next ==
    \/ Spawn
    \/ \E t \in Task : TaskTake(t) \/ TaskPark(t) \/ Finish(t)
    \/ \E s \in Scalar : ScalarTake(s) \/ ScalarWait(s)
    \/ Release

Spec == Init /\ [][Next]_vars

-----------------------------------------------------------------------------

(* Every variable has its type and the FIFO holds owners.                  *)
TypeOK ==
    /\ lane \in Owner \cup {Free}
    /\ waiting \in Seq(Owner)
    /\ flag \in [Scalar -> BOOLEAN]
    /\ runnable \in SUBSET Task

(* A suspended payload has exactly one owner: a task is in the run queue   *)
(* or at one place of the FIFO, and a scalar owner is in the FIFO exactly  *)
(* while its flag says so.                                                 *)
OneEntry ==
    /\ \A i, j \in DOMAIN waiting : waiting[i] = waiting[j] => i = j
    /\ Waiters \cap runnable = {}
    /\ \A s \in Scalar : flag[s] <=> s \in Waiters

(* No lost handoff: nobody waits for a free lane, the owner is not itself  *)
(* waiting, and a task that owns the lane is in the run queue, where it    *)
(* will be dispatched to finish its transaction.                           *)
OwnerRuns ==
    /\ lane = Free => waiting = <<>>
    /\ lane \notin Waiters
    /\ lane \in Task => lane \in runnable

(* acquire and release_lane keep every payload at one place and lose no    *)
(* handoff between the queue, the FIFO and the flags.                      *)
NoHandoffLost == OneEntry /\ OwnerRuns

(* First come, first served: while somebody waits the lane only passes to  *)
(* the front of the FIFO, and the others keep their order, so that an      *)
(* owner that polls or is dispatched at the right moment overtakes nobody. *)
InOrder ==
    /\ waiting # <<>> => lane' \in {lane, Head(waiting)}
    /\ \/ waiting' = waiting
       \/ \E o \in Owner : waiting' = Append(waiting, o)
       \/ waiting # <<>> /\ waiting' = Tail(waiting)

FirstComeFirstServed == [][InOrder]_vars

=============================================================================
