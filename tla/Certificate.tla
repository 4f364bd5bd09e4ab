----------------------------- MODULE Certificate -----------------------------
(***************************************************************************)
(* The completion certificate of src/engine.rs: how the engine decides     *)
(* that some worlds have no work left, while tasks keep running.           *)
(*                                                                         *)
(* A world is one assignment of truth values to the choices of a run, and  *)
(* a Condition of the code is the set of worlds it holds in.  The engine   *)
(* keeps a row of pending_root for each unfinished task, with the          *)
(* condition it works under.  Engine::completion freezes that root, takes  *)
(* the union of its rows one row per tick, and publishes what `active' has *)
(* beyond it as an answer, although tasks are created, finish and fail     *)
(* all the while.                                                          *)
(*                                                                         *)
(* Here the phases of completion() are those of the code.  A task is       *)
(* anything that obeys the two rules the code's comment relies on: its     *)
(* children are born within its own condition in the step that creates     *)
(* them, and it changes `active' only while it owns the mutation lane.     *)
(* Engine.tla has the tasks of the code and implements this module.        *)
(***************************************************************************)
EXTENDS Naturals

CONSTANTS
    World,        \* the worlds
    Task,         \* task identities
    Completion,   \* Owner::Completion
    Free          \* the lane has no owner (None)

ASSUME OwnersDistinct ==
    /\ Completion \notin Task
    /\ Free \notin Task
    /\ Completion # Free

VARIABLES
    active,     \* Engine.active: worlds neither failed nor published
    pending,    \* Engine.pending_root: condition of each task, {} when absent
    lane,       \* Engine.lane: who may change active and the state
    failing,    \* per task: the right operand of its running Difference job
    captured,   \* per task: `active' when that job was started
    ready,      \* Engine.ready: the certificate under construction
    delivering, \* an answer is being observed or delivered
    failed,     \* history: the worlds that failed
    published   \* history: how often each world was published

vars == <<active, pending, lane, failing, captured, ready, delivering,
          failed, published>>

-----------------------------------------------------------------------------

Condition == SUBSET World
Owner == Task \cup {Completion}

(* The phases of ReadyPhase, and "None" when Engine.ready is None.  Scan   *)
(* includes Difference, whose operands nobody changes.  The epoch          *)
(* transport between Acquire and Filter renames choices; it does not       *)
(* change the worlds and is modelled with Filter.                          *)
Phase == {"None", "Scan", "Acquire", "Filter", "Publish"}

(* rows: the frozen rows the cursor has not reached, {} when there is      *)
(* none.  base: `active' when the Difference job of Publish started.       *)
Ready == [phase : Phase, rows : [Task -> Condition],
          blocked : Condition, scope : Condition, base : Condition]

NoReady == [phase |-> "None", rows |-> [t \in Task |-> {}],
            blocked |-> {}, scope |-> {}, base |-> {}]

Init ==
    /\ active = World
    /\ \E t \in Task : pending = [u \in Task |-> IF u = t THEN World ELSE {}]
    /\ lane = Free
    /\ failing = [t \in Task |-> {}]
    /\ captured = [t \in Task |-> {}]
    /\ ready = NoReady
    /\ delivering = FALSE
    /\ failed = {}
    /\ published = [w \in World |-> 0]

-----------------------------------------------------------------------------
(* Tasks.                                                                  *)

Live(t) == pending[t] # {}

(* Whom release_lane may grant the lane to: the front of the FIFO, here    *)
(* any task, or a certificate, that may be waiting; nobody if it is empty. *)
Grantable ==
    {Free} \cup {u \in Task : pending'[u] # {}}
           \cup (IF ready'.phase = "Acquire" THEN {Completion} ELSE {})

(* Task t keeps the lane as it is, or owns it and releases it.  A finished *)
(* task never owns it.                                                     *)
LaneAfter(t) ==
    \/ lane' = lane /\ (lane = t => pending'[t] # {})
    \/ lane = t /\ lane' \in Grantable \ {t}

(* Fault: a child works wherever the graph has worlds.                     *)
AdmitAnywhere(t) ==
    /\ pending' \in [Task -> Condition]
    /\ \A u \in Task :
          IF u = t THEN pending'[u] \in {pending[t], {}}
          ELSE Live(u) => pending'[u] = pending[u]

(* The scheduler's bookkeeping after one step of task t: children are      *)
(* admitted within its condition, and its own row goes when it is done.    *)
Admit(t) ==
    /\ pending' \in [Task -> Condition]
    /\ \A u \in Task :
          IF u = t THEN pending'[u] \in {pending[t], {}}
          ELSE IF Live(u) THEN pending'[u] = pending[u]
          ELSE pending'[u] \subseteq pending[t]

(* An atomic step of a task that leaves `active' alone.                    *)
TaskStep(t) ==
    /\ Live(t)
    /\ failing[t] = {}
    /\ Admit(t)
    /\ UNCHANGED <<active, failing, captured, ready, delivering, failed, published>>
    /\ LaneAfter(t)

(* Engine::acquire for a task that finds the lane free.                    *)
TaskAcquire(t) ==
    /\ Live(t)
    /\ lane = Free
    /\ lane' = t
    /\ UNCHANGED <<active, pending, failing, captured, ready, delivering,
                   failed, published>>

(* Fault: the job is started before the lane is acquired.                  *)
FailStartEarly(t) ==
    /\ Live(t)
    /\ failing[t] = {}
    /\ \E w \in (SUBSET (pending[t] \cap active)) \ {{}} :
          failing' = [failing EXCEPT ![t] = w]
    /\ captured' = [captured EXCEPT ![t] = active]
    /\ UNCHANGED <<active, pending, lane, ready, delivering, failed, published>>

(* A Fail body, or a rejected producer arm, starts Difference(active, w).  *)
FailStart(t) ==
    /\ lane = t
    /\ failing[t] = {}
    /\ \E w \in (SUBSET (pending[t] \cap active)) \ {{}} :
          failing' = [failing EXCEPT ![t] = w]
    /\ captured' = [captured EXCEPT ![t] = active]
    /\ UNCHANGED <<active, pending, lane, ready, delivering, failed, published>>

(* The result of the job.                                                  *)
Remainder(t) == captured[t] \ failing[t]

(* The job completes some ticks later and its result becomes `active'.     *)
FailFinish(t) ==
    /\ failing[t] # {}
    /\ active' = Remainder(t)
    /\ failed' = failed \cup failing[t]
    /\ failing' = [failing EXCEPT ![t] = {}]
    /\ captured' = [captured EXCEPT ![t] = {}]
    /\ Admit(t)
    /\ UNCHANGED <<ready, delivering, published>>
    /\ LaneAfter(t)

-----------------------------------------------------------------------------
(* Engine::completion, one action per phase.                               *)

CanComplete ==
    /\ ~delivering
    /\ active # {} \/ ready.phase # "None"

(* The first tick: the pending root is frozen by taking its cursor.        *)
Capture ==
    /\ CanComplete
    /\ ready.phase = "None"
    /\ ready' = [phase |-> "Scan", rows |-> pending, blocked |-> {},
                 scope |-> active, base |-> {}]
    /\ UNCHANGED <<active, pending, lane, failing, captured, delivering,
                   failed, published>>

(* A dropped certificate goes with its frozen root.                        *)
Dropped == NoReady

(* One row is joined to `blocked'.  A certificate whose whole scope is     *)
(* blocked is dropped.                                                     *)
ScanRow ==
    /\ CanComplete
    /\ ready.phase = "Scan"
    /\ \E t \in Task :
          /\ ready.rows[t] # {}
          /\ LET joined == ready.blocked \cup ready.rows[t]
             IN ready' = IF joined \in {World, ready.scope}
                         THEN Dropped
                         ELSE [ready EXCEPT !.rows[t] = {}, !.blocked = joined]
    /\ UNCHANGED <<active, pending, lane, failing, captured, delivering,
                   failed, published>>

(* Fault: the cursor stops at the first empty row.                         *)
ScannedSome == \E t \in Task : ready.rows[t] = {}

Scanned == \A t \in Task : ready.rows[t] = {}

(* After the last row: what remains of the scope, if anything does.        *)
Difference ==
    /\ CanComplete
    /\ ready.phase = "Scan"
    /\ Scanned
    /\ LET scope == ready.scope \ ready.blocked
       IN ready' = IF scope = {} THEN Dropped
                   ELSE [ready EXCEPT !.phase = "Acquire", !.scope = scope]
    /\ UNCHANGED <<active, pending, lane, failing, captured, delivering,
                   failed, published>>

(* The lane is free, or was handed to the certificate while it waited.     *)
ReadyAcquire ==
    /\ CanComplete
    /\ ready.phase = "Acquire"
    /\ lane \in {Free, Completion}
    /\ lane' = Completion
    /\ ready' = [ready EXCEPT !.phase = "Filter"]
    /\ UNCHANGED <<active, pending, failing, captured, delivering, failed, published>>

(* The scope is checked against the current `active'.                      *)
Filter ==
    /\ CanComplete
    /\ ready.phase = "Filter"
    /\ LET scope == ready.scope \cap active
       IN IF scope = {}
          THEN /\ ready' = Dropped
               /\ UNCHANGED pending
               /\ lane' \in Grantable
          ELSE /\ ready' = [ready EXCEPT !.phase = "Publish",
                                         !.scope = scope, !.base = active]
               /\ UNCHANGED <<pending, lane>>
    /\ UNCHANGED <<active, failing, captured, delivering, failed, published>>

Unpublished == ready.base \ ready.scope

Publish ==
    /\ CanComplete
    /\ ready.phase = "Publish"
    /\ active' = Unpublished
    /\ published' = [w \in World |-> IF w \in ready.scope THEN published[w] + 1
                                     ELSE published[w]]
    /\ delivering' = TRUE
    /\ ready' = NoReady
    /\ UNCHANGED <<pending, failing, captured, failed>>
    /\ lane' \in Grantable

(* The observer has finished and its last event was taken.                 *)
Delivered ==
    /\ delivering
    /\ delivering' = FALSE
    /\ UNCHANGED <<active, pending, lane, failing, captured, ready, failed, published>>

-----------------------------------------------------------------------------

CompletionStep ==
    \/ Capture \/ ScanRow \/ Difference
    \/ ReadyAcquire \/ Filter \/ Publish

Next ==
    \/ \E t \in Task : TaskStep(t) \/ TaskAcquire(t) \/ FailStart(t) \/ FailFinish(t)
    \/ CompletionStep
    \/ Delivered

Spec == Init /\ [][Next]_vars

-----------------------------------------------------------------------------

(* Every variable has its type, and a certificate that was dropped keeps   *)
(* no frozen row: completion() returns without putting `ready' back.       *)
TypeOK ==
    /\ active \in Condition
    /\ pending \in [Task -> Condition]
    /\ lane \in Owner \cup {Free}
    /\ failing \in [Task -> Condition]
    /\ captured \in [Task -> Condition]
    /\ ready \in Ready
    /\ ready.phase = "None" => ready = NoReady
    /\ delivering \in BOOLEAN
    /\ failed \in Condition
    /\ published \in [World -> Nat]

(* The mutation lane does its work: a job that will assign `active' holds  *)
(* the lane and its operand is still the current `active', and the owner   *)
(* of the lane is a live task or a certificate that will release it.       *)
OperandsCurrent ==
    /\ \A t \in Task : failing[t] # {} =>
          /\ lane = t
          /\ captured[t] = active
          /\ failing[t] \subseteq pending[t] \cap active
    /\ lane \in Task => pending[lane] # {}
    /\ ready.phase \in {"Filter", "Publish"} => lane = Completion
    /\ lane = Completion => ready.phase \in {"Acquire", "Filter", "Publish"}
    /\ ready.phase = "Publish" => ready.base = active /\ ready.scope \subseteq active

(* The frozen rows stay a certificate while the engine runs on: a world of *)
(* the captured scope that no frozen row covers has no task now, and has   *)
(* not failed since.                                                       *)
CertificateSound ==
    /\ ready.phase # "None" =>
          \A w \in ready.scope :
             w \notin ready.blocked /\ (\A t \in Task : w \notin ready.rows[t])
                => w \in active /\ \A t \in Task : w \notin pending[t]
    /\ ready.phase \notin {"None", "Scan"} => \A t \in Task : ready.rows[t] = {}
    /\ ready.phase \in {"Acquire", "Filter", "Publish"} =>
          ready.scope \cap ready.blocked = {}

(* An answer is final: once a world is published no task works in it, not  *)
(* even one created after the pending rows were frozen (the claim of the   *)
(* comment above Engine::can_complete).                                    *)
NoLateWork ==
    \A t \in Task, w \in World : published[w] > 0 => w \notin pending[t]

(* A world is published at most once, and a published world never fails:   *)
(* completions of different certificates, and failures that race with a    *)
(* certificate, are disjoint.                                              *)
PublishedOnce ==
    \A w \in World : published[w] <= 1 /\ (published[w] = 1 => w \notin failed)

ActiveIsTheRest ==
    active = {w \in World : w \notin failed /\ published[w] = 0}

(* No world is lost, kept or used twice: each is active, failed or         *)
(* published once, although `active' is assigned by jobs that read it many *)
(* ticks before.                                                           *)
Accounted == PublishedOnce /\ ActiveIsTheRest

(* `active' never grows: no late result of a job revives a world.          *)
ActiveShrinks == [][active' \subseteq active]_vars

=============================================================================
