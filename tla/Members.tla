------------------------------- MODULE Members -------------------------------
(***************************************************************************)
(* The walks over the identity rows of a frozen graph root: Resolve of     *)
(* src/identity.rs from a variable up to its representatives, Members of   *)
(* src/members.rs from representatives, or from the losers of a merge,     *)
(* down to all variables below, and Wake of src/wake.rs from those to the  *)
(* occurrences that have them as arguments.                                *)
(*                                                                         *)
(* A walk visits a variable in all worlds at once, and different worlds    *)
(* lead to different variables, even in opposite directions along one      *)
(* edge: the rows of all worlds together may form a cycle.  So every walk  *)
(* keeps a frontier of conditions still to be visited and remembers where  *)
(* it has been.                                                            *)
(*                                                                         *)
(* A behaviour is one job on one root.  The root is a value that nobody    *)
(* changes, so what runs beside the job cannot disturb it.                 *)
(***************************************************************************)
EXTENDS IdentityRows, SequencesExt

CONSTANTS
    Occurrence, \* occurrences of facts, numbers
    Ports,      \* per occurrence: the variables among its arguments
    Job         \* what may be run: records with
                \*    root           the frozen identity rows
                \*    live           per occurrence: the worlds it lives in
                \*    kind           "Members", with var and scope, or
                \*                   "Wake", with seeds, the delta of a merge

VARIABLES
    job,        \* what is run
    resolver,   \* Members.resolver
    members,    \* Members, or Wake.members
    wake,       \* Wake, unused for a Members job
    resolved,   \* history: what the resolver has found
    found,      \* history: what Members has found
    woken       \* history: what Wake has found

vars == <<job, resolver, members, wake, resolved, found, woken>>

-----------------------------------------------------------------------------
(* Cursors over a prefix of rows go in the order of their keys.            *)

Sorted(set) == SetToSortSeq(set, <)

Fragment(v, c) == [var |-> v, cond |-> c]

(* Partition over the parents of v: each row takes its part of what the    *)
(* rows before it left, and v itself, as a representative, the rest.       *)
ParentParts(v, scope) ==
    LET row == job.root.PARENT[v]
        part(p) == (scope \cap row[p]) \ UNION {row[q] : q \in {q \in Var : q < p}}
        rest == scope \ UNION {row[p] : p \in Var}
        names == Sorted({p \in Var : part(p) # {}})
        parts == [i \in DOMAIN names |-> Fragment(names[i], part(names[i]))]
    IN IF rest = {} THEN parts ELSE Append(parts, Fragment(v, rest))

Children(v) ==
    LET names == Sorted({u \in Var : job.root.CHILD[v][u] # {}})
    IN [i \in DOMAIN names |-> Fragment(names[i], job.root.CHILD[v][names[i]])]

(* Graph::incidence.                                                       *)
Incidence(v) ==
    LET names == Sorted({o \in Occurrence : v \in Ports[o] /\ job.live[o] # {}})
    IN [i \in DOMAIN names |-> [occ |-> names[i], cond |-> job.live[names[i]]]]

-----------------------------------------------------------------------------
(* The frontier of a walk: conditions to be visited, {} when absent, the   *)
(* queue of their variables, and the conditions that were visited.         *)

NoFrontier == [pending |-> [v \in Var |-> {}], queue |-> <<>>,
               visited |-> [v \in Var |-> {}]]

Queued(walk, v) == IF walk.pending[v] = {} THEN Append(walk.queue, v) ELSE walk.queue

Enqueued(walk, v, cond) ==
    [walk EXCEPT !.pending[v] = @ \cup cond, !.queue = Queued(walk, v)]

(* The head of the queue is taken with all that was pending for it.        *)
Taken(walk, v) == [walk EXCEPT !.queue = Tail(@), !.pending[v] = {}]

Novel(walk, v, cond) == cond \ walk.visited[v]

-----------------------------------------------------------------------------

ResolverOf(v, scope) ==
    [phase |-> "Uniform", var |-> v, scope |-> scope, parts |-> <<>>] @@ NoFrontier

NoResolver == [phase |-> "Done"]

MembersOf(phase) ==
    [phase |-> phase, var |-> 0, fresh |-> {}, children |-> <<>>] @@ NoFrontier

(* Fault: the loser's tree is walked in all worlds.                        *)
SubtreeEverywhere(seed) == Enqueued(MembersOf("Next"), seed.var, World)

(* Members::subtree: down from a loser, without following its new parent.  *)
Subtree(seed) == Enqueued(MembersOf("Next"), seed.var, seed.cond)

(* Members::new or Wake::from_delta, for the job.                           *)
MembersStart ==
    /\ IF job.kind = "Members"
       THEN /\ resolver = ResolverOf(job.var, job.scope)
            /\ members = MembersOf("Resolve")
            /\ wake = [phase |-> "Unused"]
       ELSE /\ resolver = NoResolver
            /\ members = Subtree(Head(job.seeds))
            /\ wake = [phase |-> "Members", seeds |-> Tail(job.seeds), cond |-> {},
                       cursor |-> <<>>, seen |-> [o \in Occurrence |-> {}]]
    /\ resolved = <<>>
    /\ found = <<>>
    /\ woken = <<>>

(* The walk of the members goes on unless an occurrence is being read.     *)
Walking == wake.phase \in {"Unused", "Members"}

-----------------------------------------------------------------------------
(* Resolve::tick.                                                          *)

ResolveIn(phase) ==
    /\ members.phase = "Resolve"
    /\ resolver.phase = phase

(* What the resolver finds is where the members start.                     *)
Emit(v, cond) ==
    /\ resolved' = Append(resolved, Fragment(v, cond))
    /\ members' = Enqueued(members, v, cond)

Hops(v) == Sorted({p \in Var : job.root.PARENT[v][p] # {}})

(* Fault: an edge that meets the scope is followed with all of it.         *)
Meets(edge, scope) == edge \cap scope # {}

Covers(edge, scope) == edge \in {World, scope}

(* As long as one edge covers the whole scope it is followed at once.      *)
Uniform ==
    /\ ResolveIn("Uniform")
    /\ LET hops == Hops(resolver.var)
           edge == job.root.PARENT[resolver.var][Head(hops)]
       IN IF hops = <<>>
          THEN /\ Emit(resolver.var, resolver.scope)
               /\ resolver' = [resolver EXCEPT !.phase = "Done"]
          ELSE /\ resolver' = IF Covers(edge, resolver.scope)
                              THEN [resolver EXCEPT !.var = Head(hops)]
                              ELSE [Enqueued(resolver, resolver.var, resolver.scope)
                                       EXCEPT !.phase = "Next"]
               /\ UNCHANGED <<members, resolved>>
    /\ UNCHANGED <<job, wake, found, woken>>

(* The next variable, where it was not visited yet.                        *)
ResolveNext ==
    /\ ResolveIn("Next")
    /\ resolver' =
          IF resolver.queue = <<>> THEN [resolver EXCEPT !.phase = "Done"]
          ELSE LET v == Head(resolver.queue)
                   fresh == Novel(resolver, v, resolver.pending[v])
               IN IF fresh = {} THEN Taken(resolver, v)
                  ELSE [Taken(resolver, v) EXCEPT
                          !.phase = "Walk", !.var = v, !.visited[v] = @ \cup fresh,
                          !.parts = ParentParts(v, fresh)]
    /\ UNCHANGED <<job, members, wake, resolved, found, woken>>

(* One parent of the variable; itself where it is a representative.        *)
ResolveWalk ==
    /\ ResolveIn("Walk")
    /\ IF resolver.parts = <<>>
       THEN /\ resolver' = [resolver EXCEPT !.phase = "Next"]
            /\ UNCHANGED <<members, resolved>>
       ELSE LET part == Head(resolver.parts)
                rest == [resolver EXCEPT !.parts = Tail(@)]
            IN IF part.var = resolver.var
               THEN /\ Emit(part.var, part.cond)
                    /\ resolver' = rest
               ELSE /\ resolver' = Enqueued(rest, part.var, part.cond)
                    /\ UNCHANGED <<members, resolved>>
    /\ UNCHANGED <<job, wake, found, woken>>

-----------------------------------------------------------------------------
(* Members::tick.                                                          *)

(* The representatives are known.                                          *)
ResolveDone ==
    /\ ResolveIn("Done")
    /\ members' = [members EXCEPT !.phase = "Next"]
    /\ UNCHANGED <<job, resolver, wake, resolved, found, woken>>

(* The next member, where it was not visited yet, is found.                *)
MemberNext ==
    /\ Walking
    /\ members.phase = "Next"
    /\ members.queue # <<>>
    /\ LET v == Head(members.queue)
           fresh == Novel(members, v, members.pending[v])
       IN IF fresh = {}
          THEN /\ members' = Taken(members, v)
               /\ UNCHANGED <<wake, found>>
          ELSE /\ members' = [Taken(members, v) EXCEPT
                                !.phase = "Scan", !.var = v, !.fresh = fresh,
                                !.visited[v] = @ \cup fresh, !.children = Children(v)]
               /\ found' = Append(found, Fragment(v, fresh))
               /\ wake' = IF job.kind = "Wake"
                          THEN [wake EXCEPT !.phase = "Scan", !.cond = fresh,
                                            !.cursor = Incidence(v)]
                          ELSE wake
    /\ UNCHANGED <<job, resolver, resolved, woken>>

(* Fault: a child counts once, for the condition left by its siblings.     *)
ScannedPartition(rest, cond) == [rest EXCEPT !.fresh = @ \ cond]

(* Children may overlap, so each meets the whole condition of the member.  *)
ScannedOn(rest, cond) == rest

MemberScan ==
    /\ Walking
    /\ members.phase = "Scan"
    /\ members' =
          IF members.children = <<>> THEN [members EXCEPT !.phase = "Next"]
          ELSE LET child == Head(members.children)
                   cond == members.fresh \cap child.cond
                   rest == ScannedOn([members EXCEPT !.children = Tail(@)], cond)
               IN IF cond = {} THEN rest ELSE Enqueued(rest, child.var, cond)
    /\ UNCHANGED <<job, resolver, wake, resolved, found, woken>>

MembersDone ==
    /\ Walking
    /\ members.phase = "Next"
    /\ members.queue = <<>>

(* A Members job ends, and so does a Wake without another seed.            *)
Finish ==
    /\ MembersDone
    /\ job.kind = "Wake" => wake.seeds = <<>>
    /\ members' = [members EXCEPT !.phase = "Done"]
    /\ wake' = [wake EXCEPT !.phase = "Done"]
    /\ UNCHANGED <<job, resolver, resolved, found, woken>>

-----------------------------------------------------------------------------
(* Wake::tick.                                                             *)

(* The subtree of the next loser.                                          *)
NextSeed ==
    /\ MembersDone
    /\ job.kind = "Wake" /\ wake.seeds # <<>>
    /\ members' = Subtree(Head(wake.seeds))
    /\ wake' = [wake EXCEPT !.seeds = Tail(@)]
    /\ UNCHANGED <<job, resolver, resolved, found, woken>>

Unseen(occ, cond) == cond \ wake.seen[occ]

(* One occurrence of the member is reported where it was not before.       *)
WakeScan ==
    /\ wake.phase = "Scan"
    /\ IF wake.cursor = <<>>
       THEN /\ wake' = [wake EXCEPT !.phase = "Members"]
            /\ UNCHANGED woken
       ELSE LET occ == Head(wake.cursor).occ
                fresh == Unseen(occ, wake.cond \cap Head(wake.cursor).cond)
            IN /\ wake' = [wake EXCEPT !.cursor = Tail(@), !.seen[occ] = @ \cup fresh]
               /\ woken' = IF fresh = {} THEN woken
                           ELSE Append(woken, [occ |-> occ, cond |-> fresh])
    /\ UNCHANGED <<job, resolver, members, resolved, found>>

Next ==
    \/ Uniform \/ ResolveNext \/ ResolveWalk
    \/ ResolveDone \/ MemberNext \/ MemberScan \/ Finish
    \/ NextSeed \/ WakeScan

-----------------------------------------------------------------------------

Done == members.phase = "Done"

(* A queue holds exactly the variables with something pending, each once:  *)
(* "queued variable" and "queued member" are there when they are taken.    *)
QueuesMatchPending ==
    \A walk \in {members} \cup (IF resolver = NoResolver THEN {} ELSE {resolver}) :
        /\ \A i, j \in DOMAIN walk.queue : walk.queue[i] = walk.queue[j] => i = j
        /\ \A v \in Var : walk.pending[v] # {} <=> \E i \in DOMAIN walk.queue : walk.queue[i] = v

Rep(w, v) == Root(ParentIn(job.root, w), v)

(* No world is found twice for a variable, "emitted fragments never        *)
(* overlap", nor an occurrence twice in a world, although members overlap  *)
(* in their occurrences and seeds in their members.                        *)
FragmentsNeverOverlap ==
    /\ \A i, j \in DOMAIN resolved : i # j => resolved[i].cond \cap resolved[j].cond = {}
    /\ job.kind = "Members" =>
          \A i, j \in DOMAIN found :
             i # j /\ found[i].var = found[j].var => found[i].cond \cap found[j].cond = {}
    /\ \A i, j \in DOMAIN woken :
          i # j /\ woken[i].occ = woken[j].occ => woken[i].cond \cap woken[j].cond = {}

(* The queues, the pending conditions and what was emitted agree between   *)
(* any two ticks of a walk.                                                *)
WalkConsistent == QueuesMatchPending /\ FragmentsNeverOverlap

(* The members of a variable are its class, world by world, by way of its  *)
(* representatives.                                                        *)
MembersAreTheClass ==
    Done /\ job.kind = "Members" =>
        \A w \in job.scope, v \in Var :
            /\ (\E i \in DOMAIN resolved : resolved[i].var = v /\ w \in resolved[i].cond)
                  <=> v = Rep(w, job.var)
            /\ (\E i \in DOMAIN found : found[i].var = v /\ w \in found[i].cond)
                  <=> Rep(w, v) = Rep(w, job.var)

(* A walk whose ticks are suspended anywhere ends with the class, each     *)
(* member once.                                                            *)
MembersFindTheClass == WalkConsistent /\ MembersAreTheClass

(* A wake reports exactly the occurrences that have an argument in a class *)
(* that lost its representative, in the worlds where it did and they live, *)
(* though it reads the root after the merge (the comment above from_delta).*)
WakeFindsMovedOccurrences ==
    Done /\ job.kind = "Wake" =>
        \A w \in World, o \in Occurrence :
            (\E i \in DOMAIN woken : woken[i].occ = o /\ w \in woken[i].cond)
               <=> /\ w \in job.live[o]
                   /\ \E v \in Ports[o] : Rep(w, v) # job.before[w][v]

(* What the walks of a merge report is exact, whatever the rows of the     *)
(* other worlds are and wherever a tick ends.                              *)
MembersAndWakesAreExact == MembersFindTheClass /\ WakeFindsMovedOccurrences
=============================================================================
