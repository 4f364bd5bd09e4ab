-------------------------------- MODULE Walks --------------------------------
(***************************************************************************)
(* The long computations that the tasks of the engine own and advance tick *)
(* by tick: the walks over identity rows (Members), the join of the heads  *)
(* of a rule (Matching), the projection of answers (Observing), the shared *)
(* restrictions of joins (Sharing) and the pruning of the current root     *)
(* (Pruning).  Beside them are the containers of Blocks, used one at a     *)
(* time.                                                                   *)
(*                                                                         *)
(* Those that read a root read one they pin, which no other task changes,  *)
(* so a behaviour is one walk.  The readers of a shared restriction, and   *)
(* the writers beside a prune, are among the actions of their modules.     *)
(***************************************************************************)
EXTENDS Members, Matching, Observing, Sharing, Pruning, Blocks

VARIABLE
    walk        \* which of them this behaviour is

walkVars == <<walk, vars, matchVars, observeVars, shareVars, pruneVars,
              blockVars>>

Walk == {"Members", "Match", "Observe", "Share", "Prune", "Fifo", "Slab", "Release"}

(* What is not walked.                                                     *)
Unused == [kind |-> "Unused"]
NotStarted == [phase |-> "Unused"]

WalkInit ==
    /\ walk \in Walk
    /\ IF walk = "Members" THEN job \in Job /\ MembersStart
       ELSE /\ job = Unused /\ members = MembersOf("Unused") /\ found = <<>>
            /\ resolver = NoResolver /\ resolved = <<>>
            /\ wake = NotStarted /\ woken = <<>>
    /\ IF walk = "Match" THEN goal \in Goal /\ JoinStart
       ELSE goal = Unused /\ join = NotStarted /\ matched = <<>>
    /\ IF walk = "Observe" THEN view \in View /\ ObserveStart
       ELSE view = Unused /\ observer = NotStarted /\ answers = <<>>
    /\ ShareInit
    /\ PruneInit
    /\ BlocksInit

MembersStep ==
    /\ walk = "Members" /\ Next
    /\ UNCHANGED <<walk, matchVars, observeVars, shareVars, pruneVars, blockVars>>

MatchStep ==
    /\ walk = "Match" /\ MatchNext
    /\ UNCHANGED <<walk, vars, observeVars, shareVars, pruneVars, blockVars>>

ObserveStep ==
    /\ walk = "Observe" /\ ObserveNext
    /\ UNCHANGED <<walk, vars, matchVars, shareVars, pruneVars, blockVars>>

ShareStep ==
    /\ walk = "Share" /\ ShareNext
    /\ UNCHANGED <<walk, vars, matchVars, observeVars, pruneVars, blockVars>>

PruneStep ==
    /\ walk = "Prune" /\ PruneNext
    /\ UNCHANGED <<walk, vars, matchVars, observeVars, shareVars, blockVars>>

BlockStep ==
    /\ \/ walk = "Fifo" /\ (FifoPush \/ FifoPop)
       \/ walk = "Slab" /\ (SlabAllocate \/ SlabRemove)
       \/ walk = "Release" /\ (ReleasePush \/ ReleasePop)
    /\ UNCHANGED <<walk, vars, matchVars, observeVars, shareVars, pruneVars>>

WalkNext == MembersStep \/ MatchStep \/ ObserveStep \/ ShareStep \/ PruneStep \/ BlockStep

-----------------------------------------------------------------------------
(* The task that owns a walk is dispatched again and again, and so is each *)
(* reader of a restriction.                                                *)

WalkSpec ==
    /\ WalkInit /\ [][WalkNext]_walkVars
    /\ WF_vars(Next)
    /\ WF_matchVars(MatchTick)
    /\ WF_observeVars(ObserveTick)
    /\ \A r \in Reader : WF_shareVars(Tick(r))
    /\ WF_pruneVars(PruneTick)

Ended ==
    /\ walk = "Members" => Done
    /\ walk = "Match" => join.phase \in {"Done", "Discarded"}
    /\ walk = "Observe" => observer.phase \in {"Done", "Discarded"}

(* Every walk comes to its end in finitely many ticks: around a cycle of   *)
(* the rows of different worlds, through all candidates of a join or of    *)
(* its removal, through all histories, at a producer that other readers    *)
(* left, and through a root of any shape.                                  *)
WalksEnd ==
    /\ <>Ended
    /\ \A r \in Reader : readers[r].phase = "Open" ~> readers[r].phase # "Open"
    /\ prune # NoJob ~> prune = NoJob
=============================================================================
