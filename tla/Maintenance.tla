----------------------------- MODULE Maintenance -----------------------------
(***************************************************************************)
(* The threads of the notebook server and its locks, by src/notebook.rs.   *)
(* HTTP workers serve requests; the maintenance thread drives one run per  *)
(* turn, and reclaims the runs that were closed.  The tables of owners and *)
(* of runs have a lock each, and so have every owner and every run.  What  *)
(* happens between taking and leaving a lock that no other is taken under  *)
(* is one step.                                                            *)
(*                                                                         *)
(* Receipts tells what a request does, and takes it as one step; here it   *)
(* is told what may happen while it is served.  Of an engine it matters    *)
(* whether it is canceled and whether its data is gone.                    *)
(***************************************************************************)
EXTENDS Naturals, FiniteSets, FiniteSetsExt

CONSTANTS
    Worker,     \* the HTTP workers
    Keeper,     \* the maintenance thread, and other callers of tick
    Other,      \* the other callers, whose calls are counted with the requests
    OwnerId,    \* owner numbers that are issued
    MaxStarted, \* bound: runs started
    MaxAsked    \* bound: requests and other calls

ASSUME MaintenanceBounds ==
    Other \subseteq Keeper /\ OwnerId \subseteq Nat \ {0} /\ MaxStarted \in Nat /\ MaxAsked \in Nat

VARIABLES
    owners,     \* Runtime.owners: who holds it, the attached, their runs
    table,      \* Runtime.runs: who holds it, its runs and the round of ticks
    owner,      \* the Owners: who holds them, who waits, whether retired, how many runs
    engine,     \* the Runs: who holds them, whether canceled, whether torn down
    kept,       \* Runtime.batches: the runs with a retained batch
    worker,     \* what each worker does
    keeper,     \* what each caller of tick does
    asked       \* number of requests so far

threadVars == <<owners, table, owner, engine, kept, worker, keeper, asked>>

Free == "free"

(* A holder of a lock is told from the others.                             *)
ASSUME ThreadsDiffer == Worker \cap Keeper = {} /\ Free \notin Worker \cup Keeper

AtRest == [at |-> "Rest"]

MaintenanceInit ==
    /\ owners = [holder |-> Free, admitted |-> 0, entries |-> {}, runs |-> <<>>]
    /\ table = [holder |-> Free, next |-> 0, entries |-> {}, closing |-> <<>>,
                after |-> 0, round |-> 0]
    /\ owner = [o \in OwnerId |-> [holder |-> Free, waiting |-> {}, retired |-> FALSE, runs |-> 0]]
    /\ engine = <<>>
    /\ kept = {}
    /\ worker = [w \in Worker |-> AtRest]
    /\ keeper = [k \in Keeper |-> AtRest]
    /\ asked = 0

Without(f, x) == [y \in DOMAIN f \ {x} |-> f[y]]
With(f, x, v) == [y \in DOMAIN f \cup {x} |-> IF y = x THEN v ELSE f[y]]

-----------------------------------------------------------------------------
(* Requests.  A worker takes one after the other.                          *)

Route == {"attach", "retire", "start", "output", "close"}

At(w, place) == worker[w].at = place

(* A start that has not taken its number yet.                              *)
Starting(w) == worker[w] # AtRest /\ worker[w].route = "start" /\ ~At(w, "Started")

Ask(w) ==
    /\ worker[w] = AtRest /\ asked < MaxAsked
    /\ \E route \in Route, o \in OwnerId, r \in 1 .. MaxStarted :
          /\ route \in {"attach", "retire", "start"} => r = 1
          /\ route = "start" =>
                table.next + Cardinality({v \in Worker : Starting(v)}) < MaxStarted
          /\ worker' = [worker EXCEPT ![w] = [at |-> "Lookup", route |-> route, owner |-> o, run |-> r]]
    /\ asked' = asked + 1
    /\ UNCHANGED <<owners, table, owner, engine, kept, keeper>>

Goes(w, place) == worker' = [worker EXCEPT ![w].at = place]

Responds(w) == worker' = [worker EXCEPT ![w] = AtRest]

Self(w) == owner[worker[w].owner]

(* Owner::request registers before it blocks.                              *)
Register(w) == owner' = [owner EXCEPT ![worker[w].owner].waiting = @ \cup {w}]

Leaves(w) == owner' = [owner EXCEPT ![worker[w].owner].holder = Free]

(* reserve, attach and retire take the table of owners; the others look    *)
(* their owner up in it.                                                   *)
Lookup(w) ==
    /\ At(w, "Lookup") /\ owners.holder = Free
    /\ IF worker[w].route \in {"attach", "retire"}
       THEN /\ owners' = [owners EXCEPT !.holder = w]
            /\ Goes(w, "Admission")
            /\ UNCHANGED owner
       ELSE /\ IF worker[w].owner \in owners.entries
               THEN Register(w) /\ Goes(w, "Wait")
               ELSE Responds(w) /\ UNCHANGED owner
            /\ UNCHANGED owners
    /\ UNCHANGED <<table, engine, kept, keeper, asked>>

(* The table is left before an owner is waited for.                        *)
Unheld(t) == [t EXCEPT !.holder = Free]

Admission(w) ==
    /\ At(w, "Admission")
    /\ LET o == worker[w].owner IN
       IF o \in owners.entries
       THEN owners' = Unheld(owners) /\ Register(w) /\ Goes(w, "Wait")
       ELSE /\ owners' = IF worker[w].route = "attach" /\ o > owners.admitted
                         THEN [owners EXCEPT !.holder = Free, !.admitted = o,
                                             !.entries = @ \cup {o}]
                         ELSE [owners EXCEPT !.holder = Free]
            /\ Responds(w) /\ UNCHANGED owner
    /\ UNCHANGED <<table, engine, kept, keeper, asked>>

Wait(w) ==
    /\ At(w, "Wait") /\ Self(w).holder = Free
    /\ owner' = [owner EXCEPT ![worker[w].owner].holder = w,
                              ![worker[w].owner].waiting = @ \ {w}]
    /\ Goes(w, "Entitled")
    /\ UNCHANGED <<owners, table, engine, kept, keeper, asked>>

Thereafter == [retire |-> "Fence", start |-> "Insert", output |-> "Mapped", close |-> "Mapped"]

(* A request that found its owner before the owner retired is refused.     *)
Entitled(w) ==
    /\ At(w, "Entitled")
    /\ IF worker[w].route = "attach" \/ (Self(w).retired /\ worker[w].route # "retire")
       THEN Leaves(w) /\ Responds(w)
       ELSE UNCHANGED owner /\ Goes(w, Thereafter[worker[w].route])
    /\ UNCHANGED <<owners, table, engine, kept, keeper, asked>>

(* Those that hold the owner are fenced off before it leaves the table.    *)
Fence(w) ==
    /\ At(w, "Fence")
    /\ IF Self(w).runs # 0
       THEN Leaves(w) /\ Responds(w)
       ELSE /\ owner' = [owner EXCEPT ![worker[w].owner].retired = TRUE]
            /\ Goes(w, "Retired")
    /\ UNCHANGED <<owners, table, engine, kept, keeper, asked>>

Retired(w) ==
    /\ At(w, "Retired") /\ owners.holder = Free
    /\ owners' = [owners EXCEPT !.entries = @ \ {worker[w].owner}]
    /\ Leaves(w) /\ Responds(w)
    /\ UNCHANGED <<table, engine, kept, keeper, asked>>

(* start adds the run to both tables, the table of runs being held.        *)
Insert(w) ==
    /\ At(w, "Insert") /\ table.holder = Free
    /\ LET r == table.next + 1 IN
       /\ table' = [table EXCEPT !.holder = w, !.next = r, !.entries = @ \cup {r}]
       /\ engine' = With(engine, r, [holder |-> Free, canceled |-> FALSE, torn |-> FALSE])
       /\ worker' = [worker EXCEPT ![w].at = "Started", ![w].run = r]
    /\ UNCHANGED <<owners, owner, kept, keeper, asked>>

Started(w) ==
    /\ At(w, "Started") /\ owners.holder = Free
    /\ owners' = [owners EXCEPT !.runs = With(@, worker[w].run, worker[w].owner)]
    /\ owner' = [owner EXCEPT ![worker[w].owner].holder = Free, ![worker[w].owner].runs = @ + 1]
    /\ table' = [table EXCEPT !.holder = Free]
    /\ Responds(w)
    /\ UNCHANGED <<engine, kept, keeper, asked>>

(* The routes on a run: the run is the owner's, it is found, it is locked, *)
(* and it is still there and not closing.                                  *)
Mapped(w) ==
    /\ At(w, "Mapped") /\ owners.holder = Free
    /\ LET r == worker[w].run IN
       IF r \in DOMAIN owners.runs /\ owners.runs[r] = worker[w].owner
       THEN Goes(w, "Find") /\ UNCHANGED owner
       ELSE Responds(w) /\ Leaves(w)
    /\ UNCHANGED <<owners, table, engine, kept, keeper, asked>>

Find(w) ==
    /\ At(w, "Find") /\ table.holder = Free
    /\ IF worker[w].run \in table.entries
       THEN Goes(w, "Lock") /\ UNCHANGED owner
       ELSE Responds(w) /\ Leaves(w)
    /\ UNCHANGED <<owners, table, engine, kept, keeper, asked>>

Lock(w) ==
    /\ At(w, "Lock") /\ engine[worker[w].run].holder = Free
    /\ engine' = [engine EXCEPT ![worker[w].run].holder = w]
    /\ Goes(w, "Recheck")
    /\ UNCHANGED <<owners, table, owner, kept, keeper, asked>>

Recheck(w) ==
    /\ At(w, "Recheck") /\ table.holder = Free
    /\ LET r == worker[w].run IN
       IF r \in table.entries /\ (worker[w].route = "output" => r \notin DOMAIN table.closing)
       THEN Goes(w, "Effect") /\ UNCHANGED <<owner, engine>>
       ELSE Responds(w) /\ Leaves(w) /\ engine' = [engine EXCEPT ![r].holder = Free]
    /\ UNCHANGED <<owners, table, kept, keeper, asked>>

(* output retains its batch; close cancels the engine and marks the run.   *)
Effect(w) ==
    /\ At(w, "Effect")
    /\ LET r == worker[w].run IN
       \/ /\ worker[w].route = "output"
          /\ kept' = kept \cup {r}
          /\ engine' = [engine EXCEPT ![r].holder = Free]
          /\ UNCHANGED table
       \/ /\ worker[w].route = "close" /\ table.holder = Free
          /\ table' = [table EXCEPT !.closing = IF r \in DOMAIN @ THEN @ ELSE With(@, r, FALSE)]
          /\ engine' = [engine EXCEPT ![r].holder = Free, ![r].canceled = TRUE]
          /\ UNCHANGED kept
    /\ Leaves(w) /\ Responds(w)
    /\ UNCHANGED <<owners, keeper, asked>>

WorkerStep(w) ==
    \/ Lookup(w) \/ Admission(w) \/ Wait(w) \/ Entitled(w)
    \/ Fence(w) \/ Retired(w) \/ Insert(w) \/ Started(w)
    \/ Mapped(w) \/ Find(w) \/ Lock(w) \/ Recheck(w) \/ Effect(w)

-----------------------------------------------------------------------------
(* tick.                                                                   *)

In(k, place) == keeper[k].at = place

Moves(k, place) == keeper' = [keeper EXCEPT ![k].at = place]

Returns(k) == keeper' = [keeper EXCEPT ![k] = AtRest]

(* A round ends with the last run there was at its beginning.              *)
Pick(k) ==
    /\ keeper[k] = AtRest /\ table.holder = Free
    /\ LET last == IF table.round = 0 THEN Max(table.entries \cup {0}) ELSE table.round
           ahead == {r \in table.entries : table.after < r /\ r <= last}
       IN IF ahead # {}
          THEN LET r == Min(ahead) IN
               /\ table' = [table EXCEPT !.round = last, !.after = r]
               /\ keeper' = [keeper EXCEPT ![k] =
                    [at |-> "Owner", run |-> r, owner |-> 0,
                     closing |-> IF r \in DOMAIN table.closing
                                 THEN IF table.closing[r] THEN "torn" ELSE "begun"
                                 ELSE "no"]]
          ELSE /\ table.round # 0
               /\ table' = [table EXCEPT !.round = 0, !.after = 0]
               /\ UNCHANGED keeper
    /\ IF k \in Other THEN asked < MaxAsked /\ asked' = asked + 1 ELSE UNCHANGED asked
    /\ UNCHANGED <<owners, owner, engine, kept, worker>>

OwnerOf(k) ==
    /\ In(k, "Owner") /\ owners.holder = Free
    /\ LET r == keeper[k].run IN
       IF r \in DOMAIN owners.runs /\ owners.runs[r] \in owners.entries
       THEN keeper' = [keeper EXCEPT ![k].at = "Waiting", ![k].owner = owners.runs[r]]
       ELSE Returns(k)
    /\ UNCHANGED <<owners, table, owner, engine, kept, worker, asked>>

(* Fault: an owner is taken whenever it is free.                           *)
MayAlwaysTry(o) == TRUE

(* A worker that waits for the owner goes first.                           *)
MayTry(o) == owner[o].waiting = {}

Waiting(k) ==
    /\ In(k, "Waiting")
    /\ IF MayTry(keeper[k].owner) THEN Moves(k, "Try") ELSE Returns(k)
    /\ UNCHANGED <<owners, table, owner, engine, kept, worker, asked>>

Try(k) ==
    /\ In(k, "Try")
    /\ LET o == keeper[k].owner
           r == keeper[k].run
       IN IF owner[o].holder = Free /\ ~owner[o].retired /\ engine[r].holder = Free
          THEN /\ owner' = [owner EXCEPT ![o].holder = k]
               /\ engine' = [engine EXCEPT ![r].holder = k]
               /\ Moves(k, "Held")
          ELSE Returns(k) /\ UNCHANGED <<owner, engine>>
    /\ UNCHANGED <<owners, table, kept, worker, asked>>

LetGo(k) ==
    /\ owner' = [owner EXCEPT ![keeper[k].owner].holder = Free]
    /\ Returns(k)

(* Fault: the run found in the table is still there.                       *)
AssumedThere(r) == TRUE

(* Another caller may have reclaimed the run in the meantime.              *)
StillThere(r) == r \in DOMAIN owners.runs

Held(k) ==
    /\ In(k, "Held") /\ owners.holder = Free
    /\ LET r == keeper[k].run IN
       IF StillThere(r) THEN Moves(k, "Work") /\ UNCHANGED <<owner, engine>>
       ELSE LetGo(k) /\ engine' = [engine EXCEPT ![r].holder = Free]
    /\ UNCHANGED <<owners, table, kept, worker, asked>>

(* The engine is driven, or torn down when it is canceled.                 *)
Driven(e) == [e EXCEPT !.holder = Free, !.torn = e.canceled]

(* Of a run that is torn down the batches go first, one per turn.          *)
Work(k) ==
    /\ In(k, "Work")
    /\ LET r == keeper[k].run IN
       \/ /\ keeper[k].closing = "no"
          /\ engine' = [engine EXCEPT ![r] = Driven(@)]
          /\ LetGo(k) /\ UNCHANGED <<table, kept>>
       \/ /\ keeper[k].closing = "begun" /\ table.holder = Free
          /\ engine' = [engine EXCEPT ![r] = Driven(@)]
          /\ table' = IF Driven(engine[r]).torn
                      THEN [table EXCEPT !.closing = With(@, r, TRUE)] ELSE table
          /\ LetGo(k) /\ UNCHANGED kept
       \/ /\ keeper[k].closing = "torn" /\ r \in kept
          /\ kept' = kept \ {r}
          /\ engine' = [engine EXCEPT ![r].holder = Free]
          /\ LetGo(k) /\ UNCHANGED table
       \/ /\ keeper[k].closing = "torn" /\ r \notin kept
          /\ engine' = [engine EXCEPT ![r].holder = Free]
          /\ Moves(k, "Reclaim") /\ UNCHANGED <<table, kept, owner>>
    /\ UNCHANGED <<owners, worker, asked>>

Withdraw(k) ==
    /\ In(k, "Reclaim") /\ table.holder = Free
    /\ table' = [table EXCEPT !.holder = k, !.entries = @ \ {keeper[k].run},
                              !.closing = Without(@, keeper[k].run)]
    /\ Moves(k, "Reclaimed")
    /\ UNCHANGED <<owners, owner, engine, kept, worker, asked>>

Reclaimed(k) ==
    /\ In(k, "Reclaimed") /\ owners.holder = Free
    /\ owners' = [owners EXCEPT !.runs = Without(@, keeper[k].run)]
    /\ owner' = [owner EXCEPT ![keeper[k].owner].holder = Free,
                              ![keeper[k].owner].runs = @ - 1]
    /\ table' = [table EXCEPT !.holder = Free]
    /\ Returns(k)
    /\ UNCHANGED <<engine, kept, worker, asked>>

KeeperStep(k) ==
    \/ Pick(k) \/ OwnerOf(k) \/ Waiting(k) \/ Try(k) \/ Held(k) \/ Work(k)
    \/ Withdraw(k) \/ Reclaimed(k)

MaintenanceNext ==
    \/ \E w \in Worker : Ask(w) \/ WorkerStep(w)
    \/ \E k \in Keeper : KeeperStep(k)

MaintenanceSpec == MaintenanceInit /\ [][MaintenanceNext]_threadVars

-----------------------------------------------------------------------------
(* Every thread is scheduled.                                              *)
MaintenanceFairness ==
    /\ \A w \in Worker : WF_threadVars(WorkerStep(w))
    /\ \A k \in Keeper : WF_threadVars(KeeperStep(k))

(* Who works on a run: a worker or keeper that holds it and its owner.     *)
OnRun(place, o, r) ==
    place \in {"Effect", "Work"} =>
       /\ r \in table.entries /\ r \in DOMAIN owners.runs
       /\ owners.runs[r] = o /\ o \in owners.entries /\ ~owner[o].retired

(* No thread works on a run that was reclaimed, or for an owner that       *)
(* retired.  The two tables have the same runs, an owner counts his, and   *)
(* nothing is left of a run that was reclaimed, neither a batch nor the    *)
(* mark that it closes.                                                    *)
TablesAgree ==
    /\ \A w \in Worker : worker[w] # AtRest => OnRun(worker[w].at, worker[w].owner, worker[w].run)
    /\ \A k \in Keeper : keeper[k] # AtRest => OnRun(keeper[k].at, keeper[k].owner, keeper[k].run)
    /\ table.holder = Free => table.entries = DOMAIN owners.runs
    /\ \A o \in OwnerId :
          /\ owner[o].holder = Free =>
                owner[o].runs = Cardinality({r \in DOMAIN owners.runs : owners.runs[r] = o})
          /\ owner[o].retired => owner[o].runs = 0
    /\ DOMAIN table.closing \subseteq table.entries
    /\ kept \subseteq table.entries

(* Every request is answered: no two threads wait for each other, and the  *)
(* maintenance thread, which takes owners again and again, does not keep a *)
(* worker from one.  Every run that was closed is reclaimed.               *)
ServedAndReclaimed ==
    /\ \A w \in Worker : worker[w] # AtRest ~> worker[w] = AtRest
    /\ \A r \in 1 .. MaxStarted :
          r \in DOMAIN table.closing ~> r \notin table.entries
=============================================================================
