------------------------------- MODULE Pruning -------------------------------
(***************************************************************************)
(* What a collection takes out of the current root: Prune of               *)
(* src/graph/prune.rs and Prune of src/history.rs.                         *)
(*                                                                         *)
(* Occurrences and once-only records are cut to the worlds that are still  *)
(* active, records also to those where all their heads live.  A row of the *)
(* identity of a variable stays where something may still resolve it: a    *)
(* reference from outside (a seed), an argument of a live occurrence, or a *)
(* variable below it.                                                      *)
(*                                                                         *)
(* A prune leaves a certificate for the root it returns.  Writes carry it  *)
(* along with the keys that became dirty, or drop it; the next prune of    *)
(* that root then looks at the dirty rows only, or at nothing.             *)
(***************************************************************************)
EXTENDS IdentityRows, FiniteSets, SequencesExt

CONSTANTS
    Cell,       \* occurrences that rows are kept for, numbers
    ArgsOf,     \* per occurrence: its arguments
    HeadsOf,    \* the once-only records: their heads, sequences of Cell
    SeedLists,  \* references from outside: sequences of [var, cond]
    Links,      \* merges that may happen: [child, parent, cond]
    MaxDirty,   \* MAX_DIRTY_BYTES, in keys recorded
    MaxSeeds,   \* MAX_SEEDS
    MaxWrite,   \* bound: writes
    MaxPrune,   \* bound: prunes
    MaxOrder    \* bound: reorders of the arena

ASSUME PrunesAreOfRows ==
    /\ Cell \subseteq Nat
    /\ ArgsOf \in [Cell -> Seq(Var)]
    /\ HeadsOf \subseteq Seq(Cell)
    /\ SeedLists \subseteq Seq([var : Var, cond : Condition])
    /\ Links \subseteq [child : Var, parent : Var, cond : Condition]
    /\ \A link \in Links : link.child # link.parent

VARIABLES
    base,       \* the published root: live (per occurrence) and identity rows
    staged,     \* the root a commit has staged
    records,    \* per record: the worlds it was applied in
    live,       \* Engine.active
    order,      \* Arena.representation_epoch
    certificate,\* Graph.liveness: root, active, order, seeds, free, dirty
    prune,      \* Prune, with what of the root is still to be visited
    writes,     \* writes so far
    prunes      \* prunes so far

pruneVars == <<base, staged, records, live, order, certificate, prune, writes, prunes>>

-----------------------------------------------------------------------------

NoCertificate == [free |-> FALSE, dirty |-> <<>>]
HasCertificate == certificate # NoCertificate

EmptyRoot == [live |-> [o \in Cell |-> {}], identity |-> NoRows]

NoJob == [phase |-> "Idle"]

PruneInit ==
    /\ base = [EmptyRoot EXCEPT !.live = [o \in Cell |-> World]]
    /\ staged = base
    /\ records = [heads \in HeadsOf |-> World]
    /\ live = World
    /\ order = 0
    /\ certificate = NoCertificate
    /\ prune = NoJob
    /\ writes = 0
    /\ prunes = 0

(* An empty interval of the identity rows.                                 *)
IdentityFree(root) == root.identity = NoRows

-----------------------------------------------------------------------------
(* Graph::write.  The certificate goes along with the root it is for.      *)

(* Fault: also the certificate of a root with identity rows.               *)
CarriedAlways == HasCertificate /\ certificate.root = staged

(* take_liveness_delta: only where no row can make another one due.        *)
Carried == HasCertificate /\ certificate.free /\ certificate.root = staged

(* Certificate::record: an absent row and a row of all active worlds need  *)
(* no second look.                                                         *)
Dirty(o, support) ==
    IF support \in {{}, certificate.active} \/ certificate.active = World
    THEN certificate.dirty
    ELSE Append(certificate.dirty, o)

WriteRow(o, support) ==
    /\ prune = NoJob /\ writes < MaxWrite
    /\ support # staged.live[o]
    /\ writes' = writes + 1
    /\ staged' = [staged EXCEPT !.live[o] = support]
    /\ certificate' =
          IF Carried /\ Len(Dirty(o, support)) <= MaxDirty
          THEN [certificate EXCEPT !.root = staged', !.dirty = Dirty(o, support)]
          ELSE NoCertificate
    /\ UNCHANGED <<base, records, live, order, prune, prunes>>

(* A merge writes identity rows, and no certificate survives that.         *)
Link(link) ==
    /\ prune = NoJob /\ writes < MaxWrite
    /\ \A w \in link.cond :
          LET parent == ParentIn(staged.identity, w)
          IN IsRoot(parent, link.child) /\ IsRoot(parent, link.parent)
    /\ writes' = writes + 1
    /\ staged' = [staged EXCEPT
          !.identity.PARENT[link.child][link.parent] = @ \cup link.cond,
          !.identity.CHILD[link.parent][link.child] = @ \cup link.cond,
          !.identity.RANK[link.parent][1] =
             @ \cup {w \in link.cond : RankIn(staged.identity, w)[link.parent] = 0}]
    /\ certificate' = NoCertificate
    /\ UNCHANGED <<base, records, live, order, prune, prunes>>

(* The commit publishes its root, or gives it up.                          *)
PublishRoot ==
    /\ prune = NoJob /\ staged # base
    /\ base' = staged
    /\ UNCHANGED <<staged, records, live, order, certificate, prune, writes, prunes>>

Abandon ==
    /\ prune = NoJob /\ staged # base
    /\ staged' = base
    /\ UNCHANGED <<base, records, live, order, certificate, prune, writes, prunes>>

(* A failure or a published answer takes worlds out.                       *)
CutActive(cond) ==
    /\ prune = NoJob
    /\ cond # live /\ cond \subseteq live
    /\ live' = cond
    /\ UNCHANGED <<base, staged, records, order, certificate, prune, writes, prunes>>

(* The arena orders its choices anew: handles kept by number are stale.    *)
Reorder ==
    /\ order < MaxOrder
    /\ order' = order + 1
    /\ UNCHANGED <<base, staged, records, live, certificate, prune, writes, prunes>>

-----------------------------------------------------------------------------
(* The collection prunes the records, gathers the seeds and prunes the     *)
(* root.                                                                   *)

StartPrune(seeds) ==
    /\ prune = NoJob /\ staged = base /\ prunes < MaxPrune
    /\ prunes' = prunes + 1
    /\ prune' = [phase |-> "Records", seeds |-> seeds, given |-> seeds, before |-> base,
                 rows |-> Cell, heads |-> HeadsOf, names |-> Var, free |-> FALSE,
                 next |-> NoCertificate,
                 pending |-> [v \in Var |-> {}], marked |-> [v \in Var |-> {}]]
    /\ UNCHANGED <<base, staged, records, live, order, certificate, writes>>

At(phase) == prune.phase = phase

(* history::Prune: one record.                                             *)
PruneRecord ==
    /\ At("Records")
    /\ IF prune.heads = {}
       THEN /\ prune' = [prune EXCEPT !.phase = "Certificate"]
            /\ UNCHANGED records
       ELSE \E heads \in prune.heads :
               /\ prune' = [prune EXCEPT !.heads = @ \ {heads}]
               /\ records' = [records EXCEPT ![heads] =
                     {w \in @ \cap live : \A i \in DOMAIN heads : w \in base.live[heads[i]]}]
    /\ UNCHANGED <<base, staged, live, order, certificate, writes, prunes>>

Applies ==
    /\ HasCertificate
    /\ certificate.root = base
    /\ certificate.active = live
    /\ certificate.order = order
    /\ certificate.free \/ certificate.seeds = prune.seeds

NewCertificate ==
    [root |-> base, active |-> live, order |-> order, free |-> IdentityFree(base),
     seeds |-> IF IdentityFree(base) THEN <<>> ELSE prune.seeds, dirty |-> <<>>]

(* What the certificate of the last prune leaves to be done.               *)
UseCertificate ==
    /\ At("Certificate") /\ Applies
    /\ IF certificate.dirty = <<>>
       THEN /\ prune' = [prune EXCEPT !.phase = "Noop"]
            /\ UNCHANGED certificate
       ELSE /\ prune' = [prune EXCEPT !.phase = "Occurrences", !.free = TRUE,
                            !.rows = Range(certificate.dirty),
                            !.next = [certificate EXCEPT !.dirty = <<>>]]
            /\ certificate' = NoCertificate
    /\ UNCHANGED <<base, staged, records, live, order, writes, prunes>>

StartFull ==
    /\ At("Certificate") /\ ~Applies
    /\ certificate' = NoCertificate
    /\ prune' =
          [prune EXCEPT !.free = IdentityFree(base),
             !.phase = IF IdentityFree(base) /\ live = World THEN "Noop"
                       ELSE IF IdentityFree(base) THEN "Occurrences" ELSE "Seeds",
             !.next = IF IdentityFree(base) \/ Len(prune.seeds) <= MaxSeeds THEN NewCertificate
                      ELSE NoCertificate]
    /\ UNCHANGED <<base, staged, records, live, order, writes, prunes>>

(* Nothing is to be taken out.                                             *)
Noop ==
    /\ At("Noop")
    /\ prune' = NoJob
    /\ UNCHANGED <<base, staged, records, live, order, certificate, writes, prunes>>

(* The variables of `more' are pending where it says.                      *)
Pend(job, more) ==
    [job EXCEPT !.pending = [v \in Var |-> IF v \in DOMAIN more THEN @[v] \cup more[v] ELSE @[v]]]

PendSeed ==
    /\ At("Seeds")
    /\ prune' = IF prune.seeds = <<>> THEN [prune EXCEPT !.phase = "Occurrences"]
                ELSE LET seed == Head(prune.seeds)
                     IN Pend([prune EXCEPT !.seeds = Tail(@)],
                             [v \in {seed.var} |-> seed.cond \cap live])
    /\ UNCHANGED <<base, staged, records, live, order, certificate, writes, prunes>>

(* One occurrence: its rows are cut, and what it mentions stays.           *)
PruneOccurrence ==
    /\ At("Occurrences")
    /\ IF prune.rows = {}
       THEN /\ prune' = [prune EXCEPT !.phase = IF prune.free THEN "Cleanup" ELSE "Next"]
            /\ UNCHANGED staged
       ELSE LET o == Min(prune.rows)
                cond == staged.live[o] \cap live
                rest == [prune EXCEPT !.rows = @ \ {o}]
            IN /\ staged' = [staged EXCEPT !.live[o] = cond]
               /\ prune' = IF prune.free THEN rest
                           ELSE Pend(rest, [v \in Range(ArgsOf[o]) |-> cond])
    /\ UNCHANGED <<base, records, live, order, certificate, writes, prunes>>

(* One variable is marked where it was not, and its parents are pending.   *)
Mark ==
    /\ At("Next")
    /\ LET open == {v \in Var : prune.pending[v] # {}}
           v == Min(open)
           fresh == prune.pending[v] \ prune.marked[v]
       IN prune' =
             IF open = {} THEN [prune EXCEPT !.phase = "Identity"]
             ELSE Pend([prune EXCEPT !.pending[v] = {}, !.marked[v] = @ \cup fresh],
                       [p \in Var |-> staged.identity.PARENT[v][p] \cap fresh])
    /\ UNCHANGED <<base, staged, records, live, order, certificate, writes, prunes>>

(* The rows of one variable, where it stays.                               *)
KeepRows(identity, v, cond) ==
    LET kept(row) == [x \in DOMAIN row |-> row[x] \cap cond]
    IN [PARENT |-> [identity.PARENT EXCEPT ![v] = kept(@)],
        RANK |-> [identity.RANK EXCEPT ![v] = kept(@)],
        CHILD |-> [p \in Var |-> [identity.CHILD[p] EXCEPT ![v] = @ \cap cond]]]

PruneIdentity ==
    /\ At("Identity")
    /\ IF prune.names = {}
       THEN /\ prune' = [prune EXCEPT !.phase = "Cleanup"]
            /\ UNCHANGED staged
       ELSE LET v == Min(prune.names)
            IN /\ prune' = [prune EXCEPT !.names = @ \ {v}]
               /\ staged' = [staged EXCEPT
                     !.identity = KeepRows(@, v, prune.marked[v] \cap live)]
    /\ UNCHANGED <<base, records, live, order, certificate, writes, prunes>>

(* The root is returned, with a certificate unless the arena reordered.    *)
Cleanup ==
    /\ At("Cleanup")
    /\ certificate' =
          IF prune.next # NoCertificate /\ prune.next.order = order /\ staged # EmptyRoot
          THEN [prune.next EXCEPT !.root = staged] ELSE certificate
    /\ base' = staged
    /\ prune' = NoJob
    /\ UNCHANGED <<staged, records, live, order, writes, prunes>>

PruneTick ==
    \/ PruneRecord \/ UseCertificate \/ StartFull \/ Noop \/ PendSeed \/ PruneOccurrence
    \/ Mark \/ PruneIdentity \/ Cleanup

PruneNext ==
    \/ \E o \in Cell, support \in SUBSET World : WriteRow(o, support)
    \/ \E link \in Links : Link(link)
    \/ PublishRoot \/ Abandon \/ Reorder
    \/ \E cond \in SUBSET World : CutActive(cond)
    \/ \E seeds \in SeedLists : StartPrune(seeds)
    \/ PruneTick

PruneSpec == PruneInit /\ [][PruneNext]_pruneVars

-----------------------------------------------------------------------------

(* The variables something may resolve in a world: upward from the seeds   *)
(* and from the arguments of what lives there.                             *)
Needed(root, seeds, w) ==
    LET named == {seeds[i].var : i \in {i \in DOMAIN seeds : w \in seeds[i].cond}}
        used == UNION {Range(ArgsOf[o]) : o \in {o \in Cell : w \in root.live[o]}}
        parent == ParentIn(root.identity, w)
    IN {v \in Var : \E u \in named \cup used : v \in Reached(parent, u)}

KeptRow(root, seeds, v, row) == {w \in row \cap live : v \in Needed(root, seeds, w)}

Pruned(root, seeds) ==
    [live |-> [o \in Cell |-> root.live[o] \cap live],
     identity |->
        [PARENT |-> [v \in Var |-> [p \in Var |->
                        KeptRow(root, seeds, v, root.identity.PARENT[v][p])]],
         CHILD |-> [p \in Var |-> [v \in Var |->
                        KeptRow(root, seeds, v, root.identity.CHILD[p][v])]],
         RANK |-> [v \in Var |-> [k \in Rank |->
                        KeptRow(root, seeds, v, root.identity.RANK[v][k])]]]]

(* A prune returns exactly what is active and may be resolved, whether it  *)
(* visits all rows, the dirty ones or none; and a record stays where it    *)
(* can still prevent something.                                            *)
PruneIsExact ==
    /\ prune.phase \in {"Noop", "Cleanup"} => staged = Pruned(prune.before, prune.given)
    /\ prune.phase \notin {"Idle", "Records"} =>
          \A heads \in HeadsOf : \A w \in records[heads] :
             w \in live /\ \A i \in DOMAIN heads : w \in prune.before.live[heads[i]]
=============================================================================
