------------------------------- MODULE Observing -------------------------------
(***************************************************************************)
(* Observe of src/observe.rs, with the index of src/observe/index.rs: from *)
(* the worlds of a completed graph to its answers.                         *)
(*                                                                         *)
(* An answer is a history: worlds that agree in every choice that was born *)
(* in them.  A choice divides only the worlds of its support; the others   *)
(* have no such choice and must not be told apart by it.  The observer     *)
(* goes down the births depth first and keeps only scopes still to be      *)
(* divided, never a list of answers.  Births and rows are looked up in a   *)
(* tree of supports, and a divided scope goes on where the search for its  *)
(* next birth stopped.                                                     *)
(***************************************************************************)
EXTENDS Naturals, Sequences, FiniteSets, SequencesExt

CONSTANT
    View        \* what may be observed: records with
                \*    rep       per world: the representative of each variable
                \*    births    the choices up to the last one the completion
                \*              knows: support, decision (worlds)
                \*    facts     occurrences: args, live (worlds)
                \*    variables of the query
                \*    scope     the worlds that are complete

VARIABLES
    view,       \* what is observed
    observer,   \* Observe: phase, births and rows (indexes), stack, scope,
                \*    pending, search, answer
    answers     \* history: the answers, each with the worlds it is for

observeVars == <<view, observer, answers>>

-----------------------------------------------------------------------------
(* Index: nodes with a support, leaves with a value; level holds the roots *)
(* of the trees built so far, next those of the level above.               *)

Leaves(supports) ==
    [nodes |-> [i \in DOMAIN supports |-> [support |-> supports[i], children |-> <<>>, value |-> i]],
     level |-> [i \in DOMAIN supports |-> i], next |-> <<>>]

IsBuilt(index) == Len(index.level) + Len(index.next) <= 1

(* Index::build: two trees become one; one that is left over moves up.     *)
Paired(index) ==
    LET l == index.level[1]
        r == index.level[2]
        node == [support |-> index.nodes[l].support \cup index.nodes[r].support,
                 children |-> <<l, r>>, value |-> 0]
    IN CASE index.level = <<>> -> [index EXCEPT !.level = index.next, !.next = <<>>]
         [] Len(index.level) = 1 -> [index EXCEPT !.level = <<>>, !.next = Append(@, l)]
         [] OTHER -> [nodes |-> Append(index.nodes, node),
                      level |-> SubSeq(index.level, 3, Len(index.level)),
                      next  |-> Append(index.next, Len(index.nodes) + 1)]

Top(index) == index.level \o index.next

(* Search: nodes still to be visited, each in a scope, the last one first. *)
SearchFrom(nodes, scope) == [i \in DOMAIN nodes |-> [node |-> nodes[i], scope |-> scope]]

Node(index, search) == index.nodes[Last(search).node]

Meet(index, search) == Last(search).scope \cap Node(index, search).support

(* Search::tick: a node out of scope is left out, children go before the   *)
(* rest.                                                                   *)
Searched(index, search) ==
    LET children == Node(index, search).children
    IN IF children = <<>> \/ Meet(index, search) = {} THEN Front(search)
       ELSE Front(search) \o SearchFrom(<<children[2], children[1]>>, Meet(index, search))

IsHit(index, search) == Node(index, search).children = <<>> /\ Meet(index, search) # {}

-----------------------------------------------------------------------------

NoAnswer == [scope |-> {}, variables |-> <<>>, facts |-> <<>>]

Supports(records) == [i \in DOMAIN records |-> records[i].support]
LiveRows(facts) == [i \in DOMAIN facts |-> facts[i].live]

(* Observe::new, and the indexing of births and rows.                      *)
StartObserve(v) ==
    [phase |-> IF v.scope = {} THEN "History" ELSE "BuildBirths",
     births |-> Leaves(Supports(v.births)), rows |-> Leaves(LiveRows(v.facts)),
     stack |-> IF v.scope = {} THEN <<>> ELSE <<[scope |-> v.scope, fresh |-> TRUE, pending |-> <<>>]>>,
     scope |-> {}, search |-> <<>>, birth |-> 0, answer |-> NoAnswer]

ObserveStart ==
    /\ observer = StartObserve(view)
    /\ answers = <<>>

In(phase) == observer.phase = phase

Build ==
    /\ observer' =
          CASE In("BuildBirths") /\ ~IsBuilt(observer.births) ->
                 [observer EXCEPT !.births = Paired(@)]
            [] In("BuildBirths") /\ IsBuilt(observer.births) ->
                 [observer EXCEPT !.phase = "BuildRows"]
            [] In("BuildRows") /\ ~IsBuilt(observer.rows) ->
                 [observer EXCEPT !.rows = Paired(@)]
            [] OTHER -> [observer EXCEPT !.phase = "History"]
    /\ observer.phase \in {"BuildBirths", "BuildRows"}
    /\ UNCHANGED <<view, answers>>

(* Search::resume: what was not visited yet, in the narrower scope.        *)
Resumed(frame) ==
    IF frame.fresh THEN SearchFrom(Top(observer.births), frame.scope)
    ELSE SearchFrom(frame.pending, frame.scope)

(* The next scope is taken up, or all of them are done.                    *)
NextHistory ==
    /\ In("History")
    /\ observer' =
          IF observer.stack = <<>> THEN [observer EXCEPT !.phase = "Done", !.scope = {}]
          ELSE [observer EXCEPT !.phase = "FindBirth", !.stack = Front(@),
                                !.scope = Last(observer.stack).scope,
                                !.search = Resumed(Last(observer.stack))]
    /\ UNCHANGED <<view, answers>>

FindBirth ==
    /\ In("FindBirth")
    /\ observer.search # <<>>
    /\ observer' =
          IF IsHit(observer.births, observer.search)
          THEN [observer EXCEPT !.phase = "Split", !.search = Front(@),
                                !.birth = Node(observer.births, observer.search).value]
          ELSE [observer EXCEPT !.search = Searched(observer.births, @)]
    /\ UNCHANGED <<view, answers>>

(* Fault: the node that was next is left out.                              *)
ContinuationAfterNext ==
    [i \in 1 .. Len(observer.search) - 1 |-> observer.search[i].node]

(* Search::continuation.                                                   *)
Continuation == [i \in DOMAIN observer.search |-> observer.search[i].node]

Frames(scopes) ==
    LET frame(scope) == [scope |-> scope, fresh |-> FALSE, pending |-> Continuation]
        kept == SelectSeq(scopes, LAMBDA scope : scope # {})
    IN [i \in DOMAIN kept |-> frame(kept[i])]

(* The right arm, the left arm, and the worlds where the choice was never  *)
(* born, which are taken up first.                                         *)
Divided(scope, birth) ==
    <<(scope \cap birth.support) \ birth.decision,
      scope \cap birth.support \cap birth.decision,
      scope \ birth.support>>

Split ==
    /\ In("Split")
    /\ observer' = [observer EXCEPT
          !.phase = "History", !.scope = {}, !.search = <<>>,
          !.stack = @ \o Frames(Divided(observer.scope, view.births[observer.birth]))]
    /\ UNCHANGED <<view, answers>>

-----------------------------------------------------------------------------
(* No birth is left to divide the scope: an answer begins.                 *)

Begin ==
    /\ In("FindBirth")
    /\ observer.search = <<>>
    /\ observer' = [observer EXCEPT !.phase = "Variables",
                                    !.answer = [NoAnswer EXCEPT !.scope = observer.scope]]
    /\ UNCHANGED <<view, answers>>

(* Resolve in the scope of the answer: the code asserts that there is one  *)
(* representative.                                                         *)
Representatives(v) == {view.rep[w][v] : w \in observer.scope}

EmitVariable ==
    /\ In("Variables")
    /\ Len(observer.answer.variables) < Len(view.variables)
    /\ observer' = [observer EXCEPT !.answer.variables =
                       Append(@, Representatives(view.variables[Len(@) + 1]))]
    /\ UNCHANGED <<view, answers>>

StartRows ==
    /\ In("Variables")
    /\ Len(observer.answer.variables) = Len(view.variables)
    /\ observer' = [observer EXCEPT !.phase = "Rows",
                                    !.search = SearchFrom(Top(observer.rows), observer.scope)]
    /\ UNCHANGED <<view, answers>>

(* A row that lives in the scope is told with the representatives at its   *)
(* ports.                                                                  *)
EmitFact ==
    /\ In("Rows")
    /\ observer.search # <<>>
    /\ LET occ == Node(observer.rows, observer.search).value
           fact == [occurrence |-> occ,
                    ports |-> [p \in DOMAIN view.facts[occ].args |->
                                  Representatives(view.facts[occ].args[p])]]
       IN observer' =
             IF IsHit(observer.rows, observer.search)
             THEN [observer EXCEPT !.search = Front(@), !.answer.facts = Append(@, fact)]
             ELSE [observer EXCEPT !.search = Searched(observer.rows, @)]
    /\ UNCHANGED <<view, answers>>

End ==
    /\ In("Rows")
    /\ observer.search = <<>>
    /\ answers' = Append(answers, observer.answer)
    /\ observer' = [observer EXCEPT !.phase = "History", !.scope = {}, !.answer = NoAnswer]
    /\ UNCHANGED view

(* Observe::discard_tick: what is left is given up, frame by frame.        *)
DiscardObserve ==
    /\ observer.phase # "Discard"
    /\ observer.phase # "Discarded"
    /\ observer' = [observer EXCEPT !.phase = "Discard", !.scope = {}, !.answer = NoAnswer]
    /\ UNCHANGED <<view, answers>>

DiscardFrame ==
    /\ In("Discard")
    /\ observer' =
          IF observer.stack # <<>> THEN [observer EXCEPT !.stack = Front(@)]
          ELSE [observer EXCEPT !.phase = "Discarded", !.births = Leaves(<<>>),
                                !.rows = Leaves(<<>>), !.search = <<>>]
    /\ UNCHANGED <<view, answers>>

ObserveTick ==
    \/ Build \/ NextHistory \/ FindBirth \/ Split
    \/ Begin \/ EmitVariable \/ StartRows \/ EmitFact \/ End \/ DiscardFrame

ObserveNext == ObserveTick \/ DiscardObserve

-----------------------------------------------------------------------------

(* Two worlds are one history when the same choices were born in them and  *)
(* went the same way.                                                      *)
SameHistory(w, u) ==
    \A i \in DOMAIN view.births :
        LET birth == view.births[i]
        IN /\ w \in birth.support <=> u \in birth.support
           /\ w \in birth.support => (w \in birth.decision <=> u \in birth.decision)

History(w) == {u \in view.scope : SameHistory(w, u)}

IsAnswer(answer, w) ==
    /\ answer.scope = History(w)
    /\ answer.variables = [i \in DOMAIN view.variables |-> {view.rep[w][view.variables[i]]}]
    /\ {fact.occurrence : fact \in Range(answer.facts)} =
          {o \in DOMAIN view.facts : w \in view.facts[o].live}
    /\ IsInjective([i \in DOMAIN answer.facts |-> answer.facts[i].occurrence])
    /\ \A fact \in Range(answer.facts) :
          fact.ports = [p \in DOMAIN view.facts[fact.occurrence].args |->
                           {view.rep[w][view.facts[fact.occurrence].args[p]]}]

(* An answer is what one history holds: its facts, each once, and for      *)
(* every variable the one representative; every history of the completed   *)
(* worlds is answered once.                                                *)
AnswersAreHistories ==
    /\ \A i \in DOMAIN answers : \E w \in view.scope : IsAnswer(answers[i], w)
    /\ \A i, j \in DOMAIN answers : i # j => answers[i].scope \cap answers[j].scope = {}
    /\ In("Done") => UNION {a.scope : a \in Range(answers)} = view.scope
=============================================================================
