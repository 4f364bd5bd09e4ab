------------------------------ MODULE Coordinates ------------------------------
(***************************************************************************)
(* Compaction of choices (src/engine/compact.rs) and the coordinate epochs *)
(* that carry the conditions of older readers over it                      *)
(* (src/engine/coordinates.rs).                                            *)
(*                                                                         *)
(* A choice whose value follows from older choices in every world that is  *)
(* still active is forgotten: everything the engine works on is rewritten  *)
(* without it, and the substitution is published as the step from one      *)
(* epoch to the next.  A search or a completion certificate that read an   *)
(* older state keeps a lease on its epoch; what it found is carried        *)
(* forward step by step when it gets the mutation lane.                    *)
(*                                                                         *)
(* A condition is the set of assignments of the choices that satisfy it.   *)
(* Beside the conditions the model keeps what the program never has: the   *)
(* worlds themselves, each the set of choices taken in it, none forgotten, *)
(* and for every condition the worlds it stands for ("means").             *)
(***************************************************************************)
EXTENDS Naturals, FiniteSets, FiniteSetsExt, Sequences, SequencesExt, Functions

CONSTANTS
    MaxChoice,      \* bound: choices born
    Programs,       \* query: the bodies it posts; rules: heads and body;
                    \* bounds: compactions (passes) and snapshots (views)
    SegmentEpochs,  \* SEGMENT_EPOCHS
    None            \* an empty Option

Choice == 1 .. MaxChoice
World == SUBSET Choice
Taken == [x \in Choice |-> {w \in World : x \in w}]

VARIABLES
    active,      \* Engine.active
    births,      \* Engine.births: the support of each choice
    choices,     \* Arena.choices
    program,     \* Engine.code
    graph,       \* state.graph: by fact, [cond, means] where it is present
    history,     \* state.history: by rule, [cond, means] where it has fired
    tasks,       \* by id: queue and waiting, with the rows of pending_root
    ready,       \* Engine.ready
    observer,    \* Engine.observer
    snapshots,   \* Engine.snapshots, by id
    inspection,  \* the snapshot of an inspection, or None
    lane,        \* Engine.lane, or None
    compact,     \* Compact, or None
    current,     \* Coordinates.current
    oldest,      \* the first of Coordinates.readers
    segments,    \* Changes.segments
    composition, \* Changes.composition
    prefix,      \* Coordinates.prefix
    draining,    \* Coordinates.draining: its choices
    worlds,      \* the worlds that are active
    published,   \* every map ever published
    passes,      \* compactions so far
    views        \* snapshots so far

Owner(task) == <<"Task", task>>
Completion == <<"Completion">>
Collection == <<"Collection">>

engine == <<program, active, births, choices, graph, history, tasks, ready, observer>>
stored == <<snapshots, inspection, views>>
epochs == <<current, oldest, segments, composition, prefix, draining, published>>
vars == <<engine, stored, epochs, lane, compact, worlds, passes>>

-----------------------------------------------------------------------------
(* Conditions.                                                             *)

Never == {}
Always == World
IsTerminal(c) == c \in {Never, Always}

(* The choices the condition depends on.                                   *)
Mentions(c) ==
    {x \in Choice : \E w \in World : x \notin w /\ (w \in c) # (w \cup {x} \in c)}

(* Arena::substitute.                                                      *)
Substitute(c, images) ==
    LET seen(w) == {x \in Choice : IF x \in DOMAIN images THEN w \in images[x] ELSE x \in w}
    IN {w \in World : seen(w) \in c}

(* Arena::project_before: some choice of the others makes it true.         *)
ProjectBefore(c, cutoff) ==
    LET older(w) == {x \in w : x < cutoff}
    IN {w \in World : \E v \in c : older(v) = older(w)}

(* None is less than every choice, as an Option is.                        *)
Later(S) == IF S \subseteq {None} THEN None ELSE Max(S \ {None})
Above(after, S) == {x \in S : after = None \/ x > after}
LastChoice == Later(DOMAIN births \cup {None})

-----------------------------------------------------------------------------
(* Coordinates: the maps in segments of consecutive epochs.  The map of    *)
(* an epoch that is retired leaves a gap in its segment.                   *)

Span(start) == Len(segments[start])
Start(epoch) == Max({s \in DOMAIN segments : s <= epoch})
Held(epoch) == \E s \in DOMAIN segments : s <= epoch /\ epoch < s + Span(s)
                                            /\ segments[s][epoch - s + 1] # None
MapOf(epoch) == segments[Start(epoch)][epoch - Start(epoch) + 1]

(* Changes::insert.                                                        *)
Inserted(epoch, map) ==
    LET last == Max(DOMAIN segments)
    IN IF segments # <<>> /\ last + Span(last) = epoch /\ Span(last) < SegmentEpochs
       THEN [segments EXCEPT ![last] = Append(@, map)]
       ELSE segments @@ (epoch :> <<map>>)

(* Changes::remove: an empty segment goes.                                 *)
Removed(epoch) ==
    LET start == Start(epoch)
        gap == [segments[start] EXCEPT ![epoch - start + 1] = None]
    IN IF Range(gap) = {None} THEN Restrict(segments, DOMAIN segments \ {start})
       ELSE [segments EXCEPT ![start] = gap]

(* One cached composition serves while none of its maps is retired.        *)
Without(record, epoch) ==
    IF record # None /\ record.from <= epoch /\ epoch < record.to THEN None ELSE record

(* Changes::images: the next map, or the maps of the rest of the segment   *)
(* as one when each of them fixes one choice.  An earlier one wins.        *)
Composed(from, to) ==
    LET first(x) == Min({e \in from .. to - 1 : x \in DOMAIN MapOf(e)})
    IN [x \in UNION {DOMAIN MapOf(e) : e \in from .. to - 1} |-> MapOf(first(x))[x]]

Constant(map) == Cardinality(DOMAIN map) = 1 /\ \A x \in DOMAIN map : IsTerminal(map[x])

Images(from, target) ==
    LET to == Min({target, Start(from) + Span(Start(from))})
        cached == composition # None /\ composition.from = from /\ composition.to = to
        single == [to |-> from + 1, images |-> MapOf(from), composition |-> composition]
        joined == [from |-> from, to |-> to, images |-> Composed(from, to)]
    IN IF to <= from + 1 THEN single
       ELSE IF cached THEN [to |-> to, images |-> composition.images, composition |-> composition]
       ELSE IF \A e \in from .. to - 1 : Constant(MapOf(e))
       THEN [to |-> to, images |-> joined.images, composition |-> joined]
       ELSE single

(* Fault: what was carried last is taken for what is carried now.          *)
ReusableForAny(t) == prefix # None /\ prefix.from = t.next /\ prefix.to <= t.target

(* Coordinates::reuse.                                                     *)
Reusable(t) ==
    /\ prefix # None
    /\ prefix.from = t.next
    /\ prefix.to <= t.target
    /\ prefix.input = t.value

(* Coordinates::transport.                                                 *)
Transport(value, epoch) ==
    [value |-> value, next |-> epoch, target |-> current, job |-> None]

Arrived(t) == t.next = t.target

(* Coordinates::remember: of the last job.                                 *)
RememberedFor(t, value) ==
    [from |-> t.next, to |-> t.job.to, input |-> t.value, output |-> value]

(* Transport::tick: a job is a substitution under way.                     *)
Moved(t) ==
    LET value == Substitute(t.value, t.job.images)
        i == Images(t.next, t.target)
    IN IF t.job # None
       THEN [transport |-> [t EXCEPT !.value = value, !.next = t.job.to, !.job = None],
             prefix |-> RememberedFor(t, value),
             composition |-> composition]
       ELSE IF Reusable(t)
       THEN [transport |-> [t EXCEPT !.value = prefix.output, !.next = prefix.to],
             prefix |-> prefix, composition |-> composition]
       ELSE [transport |-> [t EXCEPT !.job = [to |-> i.to, images |-> i.images]],
             prefix |-> prefix, composition |-> i.composition]

(* Engine::transport_tick.                                                 *)
Carried(t) ==
    /\ ~Arrived(t)
    /\ prefix' = Moved(t).prefix
    /\ composition' = Moved(t).composition
    /\ UNCHANGED <<current, oldest, segments, draining, published>>

-----------------------------------------------------------------------------
(* What holds a lease: the current epoch, a search from when it is spawned *)
(* until it is done, a certificate, and a transport on its target.         *)
Epochs(r) == {r.epoch} \cup (IF r.transport = None THEN {} ELSE {r.transport.target})
Searches == {i \in DOMAIN tasks : tasks[i].kind = "Search"}
LeasedByCertificate == {current} \cup (IF ready = None THEN {} ELSE Epochs(ready))

Leased == LeasedByCertificate \cup UNION {Epochs(tasks[i]) : i \in Searches}

(* Coordinates::cleanup_tick: only the oldest epoch is retired, and its    *)
(* map is drained choice by choice before the next one.                    *)
Cleanup ==
    IF draining # {} THEN /\ draining' = draining \ {Min(draining)}
                          /\ UNCHANGED <<current, oldest, segments, composition, prefix, published>>
    ELSE /\ oldest \notin Leased
         /\ oldest' = oldest + 1
         /\ prefix' = Without(prefix, oldest)
         /\ composition' = Without(composition, oldest)
         /\ segments' = Removed(oldest)
         /\ draining' = DOMAIN MapOf(oldest)
         /\ UNCHANGED <<current, published>>

CleanupTick == Cleanup /\ UNCHANGED <<engine, stored, lane, compact, worlds, passes>>

-----------------------------------------------------------------------------
(* The engine between compactions.  Bodies and commits have the mutation   *)
(* lane while they work; one action is all a body does with it.            *)

Rules == DOMAIN program.rules
Facts == UNION {program.rules[r].heads : r \in Rules}
Nowhere == [cond |-> Never, means |-> {}]

(* A body and the instruction it has to do; a search that activates a      *)
(* fact, with the graph it reads and the rules it has yet to try.          *)
Body(do, scope, means) == [kind |-> "Body", do |-> do, scope |-> scope, means |-> means]
Search(fact, root, scope, means) ==
    [kind |-> "Search", scope |-> scope, means |-> means, root |-> root, epoch |-> current,
     rules |-> {r \in Rules : fact \in program.rules[r].heads},
     candidate |-> None, transport |-> None]

Init ==
    /\ program \in Programs
    /\ active = Always /\ births = <<>> /\ choices = 0
    /\ graph = [f \in Facts |-> Nowhere] /\ history = [r \in Rules |-> Nowhere]
    /\ tasks = [i \in DOMAIN program.query |-> Body(program.query[i], Always, {{}})]
    /\ ready = None /\ observer = None
    /\ snapshots = <<>> /\ inspection = None /\ views = 0
    /\ lane = None /\ compact = None /\ passes = 0
    /\ current = 0 /\ oldest = 0 /\ segments = <<>> /\ composition = None /\ prefix = None
    /\ draining = {} /\ published = <<>>
    /\ worlds = {{}}

Others(i) == Restrict(tasks, DOMAIN tasks \ {i})
Fresh == Min(1 .. Cardinality(DOMAIN tasks) + 1 \ DOMAIN tasks)

(* The support of one index key, in more worlds.                           *)
Also(row, cond, means) == [cond |-> row.cond \cup cond, means |-> row.means \cup means]

(* A body that acts: its scope is filtered by the active condition first.  *)
Scope(i) == tasks[i].scope \cap active
Means(i) == tasks[i].means \cap worlds
Acts(i, op) ==
    /\ lane = None
    /\ tasks[i].kind = "Body" /\ tasks[i].do.op = op
    /\ Scope(i) # Never

(* Instruction::True, a scope that is no longer active, or a search that   *)
(* has tried its rules.                                                    *)
Done(i) ==
    /\ IF tasks[i].kind = "Body" THEN tasks[i].do.op = "True" \/ Scope(i) = Never
                                 ELSE tasks[i].rules = {}
    /\ tasks' = Others(i)
    /\ UNCHANGED <<program, active, births, choices, graph, history, ready, observer, stored, epochs,
                   lane, compact, worlds, passes>>

(* Instruction::Or: every world of the scope becomes two.                  *)
Split(i) ==
    /\ Acts(i, "Or") /\ choices < MaxChoice
    /\ LET x == choices + 1
           scope == Scope(i)
           both(S) == S \cup {w \cup {x} : w \in S \cap Means(i)}
           told(r) == [r EXCEPT !.means = both(@)]
           index(rows) == [k \in DOMAIN rows |-> told(rows[k])]
           other(t) == IF t.kind = "Body" THEN told(t) ELSE [told(t) EXCEPT !.root = index(@)]
       IN /\ choices' = x
          /\ births' = births @@ (x :> scope)
          /\ worlds' = both(worlds)
          /\ tasks' = [j \in DOMAIN tasks |->
                          IF j = i THEN Body(tasks[i].do.right, scope \ Taken[x], Means(i))
                                   ELSE other(tasks[j])]
                        @@ (Fresh :> Body(tasks[i].do.left, scope \cap Taken[x],
                                          both(Means(i)) \ Means(i)))
          /\ graph' = index(graph)
          /\ history' = index(history)
          /\ ready' = IF ready = None THEN None ELSE told(ready)
    /\ UNCHANGED <<program, active, observer, stored, epochs, lane, compact, passes>>

Fail(i) ==
    /\ Acts(i, "Fail")
    /\ active' = active \ Scope(i)
    /\ worlds' = worlds \ Means(i)
    /\ tasks' = Others(i)
    /\ UNCHANGED <<program, births, choices, graph, history, ready, observer, stored, epochs, lane,
                   compact, passes>>

(* The fact is in the graph where the body is, and a search begins there.  *)
Post(i) ==
    /\ Acts(i, "Post")
    /\ LET fact == tasks[i].do.fact
           root == [graph EXCEPT ![fact] = Also(@, Scope(i), Means(i))]
       IN /\ graph' = root
          /\ tasks' = [tasks EXCEPT ![i] = Search(fact, root, Scope(i), Means(i))]
    /\ UNCHANGED <<program, active, births, choices, history, ready, observer, stored, epochs, lane,
                   compact, worlds, passes>>

-----------------------------------------------------------------------------
(* Searches read without the lane; a candidate takes it, is carried to the *)
(* current epoch and committed where it is still active.                   *)

(* The support of all heads in the graph the search reads.                 *)
Found(i, r) ==
    [rule |-> r,
     cond |-> {w \in World : \A f \in program.rules[r].heads : w \in tasks[i].root[f].cond}]

Candidate(i) ==
    /\ tasks[i].kind = "Search" /\ lane = None
    /\ \E r \in tasks[i].rules :
        LET found == Found(i, r)
        IN IF found.cond = Never
           THEN /\ tasks' = [tasks EXCEPT ![i].rules = @ \ {r}]
                /\ UNCHANGED lane
           ELSE /\ lane' = Owner(i)
                /\ tasks' = [tasks EXCEPT ![i].candidate = found,
                                          ![i].transport = Transport(found.cond, tasks[i].epoch)]
    /\ UNCHANGED <<program, active, births, choices, graph, history, ready, observer, stored, epochs,
                   compact, worlds, passes>>

Carry(i) ==
    /\ lane = Owner(i)
    /\ Carried(tasks[i].transport)
    /\ tasks' = [tasks EXCEPT ![i].transport = Moved(@).transport]
    /\ UNCHANGED <<program, active, births, choices, graph, history, ready, observer, stored, lane,
                   compact, worlds, passes>>

(* Commit::tick: where the rule has not fired yet it fires, and its body   *)
(* begins.                                                                 *)
Commit(i) ==
    /\ lane = Owner(i) /\ Arrived(tasks[i].transport)
    /\ lane' = None
    /\ LET r == tasks[i].candidate.rule
           support == (tasks[i].transport.value \cap active) \ history[r].cond
           means == {w \in worlds : \A f \in program.rules[r].heads : w \in tasks[i].root[f].means}
                        \ history[r].means
           rest == [tasks EXCEPT ![i].transport = None, ![i].candidate = None,
                                 ![i].rules = @ \ {r}]
       IN IF support = Never THEN tasks' = rest /\ UNCHANGED history
          ELSE /\ tasks' = rest @@ (Fresh :> Body(program.rules[r].body, support, means))
               /\ history' = [history EXCEPT ![r] = Also(@, support, means)]
    /\ UNCHANGED <<program, active, births, choices, graph, ready, observer, stored, epochs, compact,
                   worlds, passes>>

-----------------------------------------------------------------------------
(* The completion certificate: the worlds of the captured state that no    *)
(* pending row covers, filtered by what is active when it is published.    *)

(* Fault: a search, which only reads, is not taken for an obligation.      *)
BlockedByBodies == UNION {tasks[i].scope : i \in DOMAIN tasks \ Searches}

(* What the certificate is not for: the union of the pending rows.         *)
Blocked == UNION {tasks[i].scope : i \in DOMAIN tasks}

Certify ==
    /\ ready = None /\ observer = None
    /\ active \ Blocked # Never
    /\ ready' = [epoch |-> current, scope |-> active \ Blocked, transport |-> None,
                 means |-> worlds \ UNION {tasks[i].means : i \in DOMAIN tasks}]
    /\ UNCHANGED <<program, active, births, choices, graph, history, tasks, observer, stored, epochs,
                   lane, compact, worlds, passes>>

AcquireReady ==
    /\ ready # None /\ lane = None
    /\ lane' = Completion
    /\ ready' = [ready EXCEPT !.transport = Transport(ready.scope, ready.epoch)]
    /\ UNCHANGED <<program, active, births, choices, graph, history, tasks, observer, stored, epochs, compact,
                   worlds, passes>>

CarryReady ==
    /\ lane = Completion
    /\ Carried(ready.transport)
    /\ ready' = [ready EXCEPT !.transport = Moved(@).transport]
    /\ UNCHANGED <<program, active, births, choices, graph, history, tasks, observer, stored, lane, compact,
                   worlds, passes>>

View == [last |-> LastChoice, births |-> births]

Complete ==
    /\ lane = Completion /\ Arrived(ready.transport)
    /\ lane' = None /\ ready' = None
    /\ LET scope == ready.transport.value \cap active
           means == ready.means \cap worlds
       IN IF scope = Never THEN UNCHANGED <<active, observer, worlds>>
          ELSE /\ active' = active \ scope
               /\ observer' = [view |-> View, scope |-> scope]
               /\ worlds' = worlds \ means
    /\ UNCHANGED <<program, births, choices, graph, history, tasks, stored, epochs, compact, passes>>

Observed ==
    /\ observer # None /\ observer' = None
    /\ UNCHANGED <<program, active, births, choices, graph, history, tasks, ready, stored, epochs, lane, compact,
                   worlds, passes>>

-----------------------------------------------------------------------------
(* Views: snapshots, and an inspection with its own copy of one.  All are  *)
(* refused while there is a collector.                                     *)

CaptureSnapshot ==
    /\ views < program.views
    /\ views' = views + 1
    /\ snapshots' = snapshots @@ (views' :> View)
    /\ UNCHANGED <<engine, inspection, epochs, lane, compact, worlds, passes>>

ReleaseSnapshot(id) ==
    /\ snapshots' = Restrict(snapshots, DOMAIN snapshots \ {id})
    /\ UNCHANGED <<engine, inspection, views, epochs, lane, compact, worlds, passes>>

StartInspection(id) ==
    /\ inspection = None /\ inspection' = snapshots[id]
    /\ UNCHANGED <<engine, snapshots, views, epochs, lane, compact, worlds, passes>>

FinishInspection ==
    /\ inspection # None /\ inspection' = None
    /\ UNCHANGED <<engine, snapshots, views, epochs, lane, compact, worlds, passes>>

-----------------------------------------------------------------------------
(* Compaction.  It has the lane, and nothing else of the engine runs       *)
(* before it is done; only epochs are cleaned up between its steps.        *)

(* The cutoffs of the last snapshot, the observer and the inspection.      *)
Newest == IF snapshots = <<>> THEN None ELSE snapshots[Max(DOMAIN snapshots)].last
Observing == IF observer = None THEN None ELSE observer.view.last
Inspecting == IF inspection = None THEN None ELSE inspection.last

(* Compact::new and Phase::Inspections: choices up to the newest that a    *)
(* view may name stay as they are.  The last snapshot stands for all.      *)
Pin == Later({None, Observing, Newest, Inspecting})

StartCompact ==
    /\ lane = None /\ compact = None /\ passes < program.passes
    /\ (\E f \in Facts : graph[f].cond # Never) \/ births # <<>>
    /\ lane' = Collection /\ passes' = passes + 1
    /\ compact' = [phase |-> "Choices", pin |-> Pin, after |-> Pin, bindings |-> <<>>,
                   active |-> active]
    /\ UNCHANGED <<engine, stored, epochs, worlds>>

Born(x) ==
    IF births[x] = Always THEN compact.active
    ELSE Substitute(births[x], compact.bindings) \cap compact.active

(* Phases Global to Disjoint: the value that x has in every active world   *)
(* it was born in, as a condition on older choices, or None.               *)
Image(x) ==
    LET scope == compact.active \cap Taken[x]
        positive == Born(x) \cap Taken[x]
        negative == Born(x) \ Taken[x]
        older == ProjectBefore(positive, x)
    IN IF scope = compact.active THEN Always
       ELSE IF scope = Never \/ positive = Never THEN Never
       ELSE IF negative = Never THEN Always
       ELSE IF older \cap ProjectBefore(negative, x) = Never THEN older
       ELSE None

(* No active world had the choice.                                         *)
Unborn(x) ==
    /\ compact.active \cap Taken[x] \notin {Never, compact.active}
    /\ births[x] # Always
    /\ Born(x) = Never

Following(after) == Min(Above(after, DOMAIN births))

Examine ==
    /\ compact # None /\ compact.phase = "Choices"
    /\ compact.active # Never /\ Above(compact.after, DOMAIN births) # {}
    /\ LET x == Following(compact.after)
           examined == [compact EXCEPT !.after = x]
       IN IF Unborn(x)
          THEN /\ births' = Restrict(births, DOMAIN births \ {x})
               /\ compact' = examined
          ELSE /\ compact' = IF Image(x) = None THEN examined
                             ELSE [examined EXCEPT !.bindings = @ @@ (x :> Image(x)),
                                                   !.active = Substitute(@, x :> Image(x))]
               /\ UNCHANGED births
    /\ UNCHANGED <<program, active, choices, graph, history, tasks, ready, observer, stored, epochs, lane, worlds, passes>>

(* Phases Tasks and Parked: the scopes of tasks are rewritten in place.    *)
Rewrite ==
    /\ compact # None /\ compact.phase = "Choices"
    /\ compact.active = Never \/ Above(compact.after, DOMAIN births) = {}
    /\ compact' = [compact EXCEPT !.phase = "Births", !.after = None]
    /\ tasks' = [i \in DOMAIN tasks |-> [tasks[i] EXCEPT !.scope = Substitute(@, compact.bindings)]]
    /\ UNCHANGED <<program, active, births, choices, graph, history, ready, observer, stored, epochs, lane, worlds, passes>>

(* Phase::Births: forgotten choices and those that no active world has go. *)
KeepBirth ==
    /\ compact # None /\ compact.phase = "Births"
    /\ Above(compact.after, DOMAIN births) # {}
    /\ LET x == Following(compact.after)
           support == Substitute(births[x], compact.bindings) \cap compact.active
           forgotten == x \in DOMAIN compact.bindings
           pinned == compact.pin # None /\ x <= compact.pin
       IN /\ compact' = [compact EXCEPT !.after = x]
          /\ births' = IF ~forgotten /\ pinned THEN births
                       ELSE IF forgotten \/ support = Never
                       THEN Restrict(births, DOMAIN births \ {x})
                       ELSE [births EXCEPT ![x] = support]
    /\ UNCHANGED <<program, active, choices, graph, history, tasks, ready, observer, stored, epochs, lane, worlds, passes>>

(* Phases Graph, History and Pending build each index anew beside the      *)
(* published one.                                                          *)
Rewritten(index) ==
    [k \in DOMAIN index |-> [index[k] EXCEPT !.cond = Substitute(@, compact.bindings)]]

(* Coordinates::publish.                                                   *)
PublishEpoch(bindings) ==
    /\ segments' = Inserted(current, bindings)
    /\ published' = published @@ (current :> bindings)
    /\ current' = current + 1
    /\ UNCHANGED <<oldest, composition, prefix, draining>>

(* Phase::Publish; the lane is given back when the collection that follows *)
(* is done.                                                                *)
Publish ==
    /\ compact # None /\ compact.phase = "Births"
    /\ Above(compact.after, DOMAIN births) = {}
    /\ active' = compact.active
    /\ graph' = Rewritten(graph) /\ history' = Rewritten(history)
    /\ lane' = None /\ compact' = None
    /\ IF compact.bindings = <<>> THEN UNCHANGED epochs ELSE PublishEpoch(compact.bindings)
    /\ UNCHANGED <<program, births, choices, tasks, ready, observer, stored, worlds, passes>>

-----------------------------------------------------------------------------
Running ==
    \/ \E i \in DOMAIN tasks : \/ Done(i) \/ Split(i) \/ Fail(i) \/ Post(i)
                              \/ Candidate(i) \/ Carry(i) \/ Commit(i)
    \/ Certify \/ AcquireReady \/ CarryReady \/ Complete \/ Observed
    \/ CaptureSnapshot \/ FinishInspection
    \/ \E id \in DOMAIN snapshots : ReleaseSnapshot(id) \/ StartInspection(id)

Next ==
    \/ compact = None /\ (Running \/ StartCompact)
    \/ Examine \/ Rewrite \/ KeepBirth \/ Publish
    \/ CleanupTick

Spec == Init /\ [][Next]_vars

-----------------------------------------------------------------------------
(* Properties.                                                             *)

(* The condition is true in exactly those active worlds.                   *)
Denotes(cond, means) == cond \cap worlds = means \cap worlds

(* What a reader found, in its own epoch or carried as far as it is.       *)
Carries(r, found) == IF r.transport = None THEN found ELSE r.transport.value
Met(i) == {w \in worlds : \A f \in program.rules[tasks[i].candidate.rule].heads :
                                w \in tasks[i].root[f].means}

(* Whatever was forgotten meanwhile, the scope of a task, the support of a *)
(* fact or of a firing, what a search found in an older graph and what a   *)
(* certificate covers are true in the same active worlds as if no choice   *)
(* had been forgotten, at every tick of a transport: the substitutions of  *)
(* compact.rs and coordinates.rs do not change what a condition says.      *)
ConditionsDenote ==
    /\ worlds \subseteq active
    /\ \A f \in Facts : Denotes(graph[f].cond, graph[f].means)
    /\ \A r \in Rules : Denotes(history[r].cond, history[r].means)
    /\ \A i \in DOMAIN tasks : Denotes(tasks[i].scope, tasks[i].means)
    /\ \A i \in Searches : tasks[i].candidate # None =>
            Denotes(Carries(tasks[i], tasks[i].candidate.cond), Met(i))
    /\ ready # None => Denotes(Carries(ready, ready.scope), ready.means)

(* Between compactions the choices that are left tell the active worlds    *)
(* apart, the active condition has no world but these, and nothing the     *)
(* engine tests depends on a forgotten choice, what a transport delivers   *)
(* included: a test for FALSE or for equality gives the answer it would    *)
(* give had nothing been forgotten.                                        *)
Forgotten == UNION {DOMAIN published[e] : e \in DOMAIN published}
Left == DOMAIN births
Possible(v) == \A x \in v : v \in births[x]
Delivered ==
    LET here == {r \in {tasks[i] : i \in Searches} \cup ({ready} \ {None}) :
                    r.transport # None /\ Arrived(r.transport)}
    IN {r.transport.value : r \in here}
ChoicesTellWorldsApart ==
    compact = None =>
        /\ {w \cap Left : w \in worlds} = {v \in active : v \subseteq Left /\ Possible(v)}
        /\ \A w, v \in worlds : w \cap Left = v \cap Left => w = v
        /\ \A c \in {active} \cup {graph[f].cond : f \in Facts} \cup {history[r].cond : r \in Rules}
                    \cup {tasks[i].scope : i \in DOMAIN tasks} \cup {births[x] : x \in Left}
                    \cup Delivered :
                Mentions(c) \cap Forgotten = {}

(* Forgetting choices changes neither what a condition says nor what a     *)
(* comparison of two conditions answers.                                   *)
MeaningsAreKept == ConditionsDenote /\ ChoicesTellWorldsApart

(* A snapshot, an inspection's copy of one and the observer find every     *)
(* choice they may name as it was when they were taken.                    *)
Views == {snapshots[id] : id \in DOMAIN snapshots}
            \cup (IF inspection = None THEN {} ELSE {inspection})
            \cup (IF observer = None THEN {} ELSE {observer.view})
ViewsKeepTheirChoices ==
    \A view \in Views : \A x \in DOMAIN view.births :
        x \in Left /\ births[x] = view.births[x]

(* Whoever still has to be carried to the current epoch finds the map of   *)
(* every epoch on the way, as it was published: packing maps into          *)
(* segments, retiring the oldest and the two caches lose and mix up none   *)
(* ("leased coordinate segment", coordinates.rs:186).                      *)
Origins ==
    {tasks[i].epoch : i \in Searches} \cup (IF ready = None THEN {} ELSE {ready.epoch})
LeasedMapsAreThere ==
    \A e \in Origins : \A f \in e .. current - 1 : Held(f) /\ MapOf(f) = published[f]

(* Whoever looks back at an older state finds what it needs: the choices a *)
(* view may name, and the maps from the epoch of a suspended search or of  *)
(* a certificate.                                                          *)
OlderStatesAreReadable == ViewsKeepTheirChoices /\ LeasedMapsAreThere

(* A state that was left behind by a compaction means what it meant, and   *)
(* can be read, for as long as anybody looks back at it.                   *)
StatesKeepTheirMeaning == MeaningsAreKept /\ OlderStatesAreReadable

(* An answer is published only for worlds that no task still works in,     *)
(* however many compactions lie between the certificate's capture and its  *)
(* publication.                                                            *)
AnswersAreFinished ==
    [][\A a \in {observer'} \ {observer, None} :
            \A i \in DOMAIN tasks : a.scope \cap worlds \cap tasks[i].means = {}]_vars
=============================================================================
