------------------------------- MODULE Stepping -------------------------------
(***************************************************************************)
(* Logical stepping (src/engine/step.rs): one rule application at a time   *)
(* in the worlds that a list of decisions selects.                         *)
(*                                                                         *)
(* Engine::advance asks step_gate before every dispatch.  The gate holds   *)
(* the source back while it computes the selected scope and while it       *)
(* compares an application with it; in between it gives every other tick   *)
(* to the source and uses the rest for a probe, which looks for the case   *)
(* that no application can come any more: it freezes the pending root as   *)
(* the completion certificate does, and compares it with what is still     *)
(* active of the scope.                                                    *)
(*                                                                         *)
(* The source is what Certificate says of it in two sentences: children    *)
(* are born within the condition of their task, and `active' shrinks.      *)
(* SteppingProofs proves them of Certificate, whose other variables matter *)
(* to no step; so a behaviour here is one of the engine that runs freely   *)
(* and completes, or one in which steps are requested.                     *)
(* Left out: collections, which come before the gate and change nothing    *)
(* it reads.                                                               *)
(***************************************************************************)
EXTENDS Certificate, Sequences

CONSTANT
    Selections  \* lists of decisions a step may be requested for

ASSUME SelectionsDecideChoices ==
    Selections \subseteq
        Seq([support : Condition, decision : Condition, positive : BOOLEAN])

VARIABLES
    stepping,   \* steps are requested in this behaviour
    step,       \* Engine.rule_step
    canceled,   \* Engine.canceled()
    chosen,     \* history: the worlds the running step has selected
    hits        \* history: applications in chosen worlds since the request

stepVars == <<step, canceled, chosen, hits>>
allVars == <<vars, stepping, stepVars>>
sourceVars == <<active, pending, failed>>

(* What a step and its source have nothing to do with.                     *)
completionVars == <<lane, failing, captured, ready, delivering, published>>

-----------------------------------------------------------------------------
(* RuleStep.  job and probe.job are what the running job will return: its  *)
(* operands are values.  application, which becomes the event, is known by *)
(* its support, {} when there is none.                                     *)

ProbePhase == {"None", "Scan", "Active", "Overlap"}

NoProbe == [phase |-> "None", rows |-> [t \in Task |-> {}], blocked |-> {}, job |-> {}]

StepPhase == {"None", "Select", "Support", "Decision", "Run", "Overlap", "Shared",
              "Cleanup", "Done"}

NoStep == [phase |-> "None", selections |-> <<>>, scope |-> {}, decision |-> {}, job |-> {},
           application |-> {}, probe |-> NoProbe, turn |-> FALSE, resume |-> FALSE,
           done |-> TRUE, event |-> {}, shared |-> FALSE]

StepInit ==
    /\ Init
    /\ stepping \in BOOLEAN
    /\ step = NoStep
    /\ canceled = FALSE
    /\ chosen = {}
    /\ hits = 0

-----------------------------------------------------------------------------
(* The host's calls.                                                       *)

RequestStep ==
    /\ ~canceled
    /\ step.done
    /\ \E selections \in Selections :
          step' = [NoStep EXCEPT !.phase = "Select", !.selections = selections,
                                 !.scope = active, !.done = FALSE]
    /\ chosen' = {}
    /\ hits' = 0
    /\ UNCHANGED <<sourceVars, canceled>>

Resume ==
    /\ ~canceled
    /\ step # NoStep
    /\ step' = [step EXCEPT !.resume = TRUE, !.phase = "Cleanup", !.done = FALSE]
    /\ UNCHANGED <<sourceVars, canceled, chosen, hits>>

Cancel == ~canceled /\ canceled' = TRUE /\ UNCHANGED <<sourceVars, step, chosen, hits>>

-----------------------------------------------------------------------------
(* step_gate while the source is held back: one action per phase.          *)

GateIn(phase) == ~canceled /\ step.phase = phase /\ UNCHANGED <<sourceVars, canceled, hits>>

Decision == IF Head(step.selections).positive
            THEN Head(step.selections).decision
            ELSE World \ Head(step.selections).decision

(* The next decision holds where its choice exists and goes its way.       *)
Select ==
    /\ GateIn("Select")
    /\ IF step.selections # <<>>
       THEN /\ step' = [step EXCEPT !.phase = "Support", !.selections = Tail(@),
                                    !.decision = Decision,
                                    !.job = step.scope \cap Head(step.selections).support]
            /\ UNCHANGED chosen
       ELSE /\ step' = [step EXCEPT !.phase = IF step.scope = {} THEN "Cleanup" ELSE "Run"]
            /\ chosen' = step.scope

Support ==
    /\ GateIn("Support")
    /\ step' = [step EXCEPT !.phase = "Decision", !.job = @ \cap step.decision]
    /\ UNCHANGED chosen

Decide ==
    /\ GateIn("Decision")
    /\ step' = [step EXCEPT !.phase = "Select", !.scope = step.job, !.decision = {},
                            !.job = {}]
    /\ UNCHANGED chosen

(* An application outside the scope does not end the step.                 *)
Overlap ==
    /\ GateIn("Overlap")
    /\ step' = IF step.job = {}
               THEN [step EXCEPT !.phase = "Run", !.application = {}]
               ELSE [step EXCEPT !.phase = "Shared", !.event = step.application,
                                 !.job = step.application \ step.scope]
    /\ UNCHANGED chosen

Shared ==
    /\ GateIn("Shared")
    /\ step' = [step EXCEPT !.phase = "Cleanup", !.shared = (step.job # {}), !.job = {}]
    /\ UNCHANGED chosen

(* What is left is dropped, one selection per tick; a step that is not     *)
(* resumed stays, and stops the engine.                                    *)
CleanedUp(s) ==
    IF s.selections # <<>> THEN [s EXCEPT !.selections = Tail(@)]
    ELSE IF s.resume THEN NoStep
    ELSE [NoStep EXCEPT !.phase = "Done", !.event = s.event, !.shared = s.shared]

Cleanup == GateIn("Cleanup") /\ step' = CleanedUp(step) /\ UNCHANGED chosen

(* discard_step_tick, by whoever cancels.                                  *)
DiscardStep ==
    /\ canceled
    /\ step # NoStep
    /\ step' = CleanedUp([step EXCEPT !.resume = TRUE, !.phase = "Cleanup"])
    /\ UNCHANGED <<sourceVars, canceled, chosen, hits>>

-----------------------------------------------------------------------------
(* step_gate in phase Run: source and probe take turns.                    *)

(* Worlds leave `active'.  Whether they fail or are published makes no     *)
(* difference here: they count as failed.                                  *)
Shrinks ==
    /\ active' \in SUBSET active
    /\ failed' = failed \cup (active \ active')

(* A dispatch of task t, or of another service.                            *)
TaskTurn(t) == Live(t) /\ Admit(t) /\ Shrinks

Source == (\E t \in Task : TaskTurn(t)) \/ (UNCHANGED pending /\ Shrinks)

(* A rule is applied where its task works and nothing has failed.          *)
Application(t, support) ==
    /\ Live(t) /\ Admit(t)
    /\ UNCHANGED <<active, failed>>
    /\ support \in (SUBSET (pending[t] \cap active)) \ {{}}

(* Engine::step_application.                                               *)
Noted(support) ==
    [step EXCEPT !.turn = TRUE, !.phase = "Overlap", !.application = support,
                 !.job = support \cap step.scope]

Several(n) == IF n > 2 THEN 2 ELSE n

SourceTurn ==
    /\ ~canceled /\ step.phase = "Run" /\ ~step.turn
    /\ \/ /\ Source
          /\ step' = [step EXCEPT !.turn = TRUE]
          /\ UNCHANGED hits
       \/ \E t \in Task, support \in Condition :
             /\ Application(t, support)
             /\ step' = Noted(support)
             /\ hits' = Several(hits + (IF support \cap chosen # {} THEN 1 ELSE 0))
    /\ UNCHANGED <<canceled, chosen>>

(* Nobody steps: the gate lets everything through.                         *)
SourceFree ==
    /\ ~canceled /\ step = NoStep
    /\ Source
    /\ UNCHANGED stepVars

ProbeIn(phase) ==
    /\ GateIn("Run") /\ UNCHANGED chosen
    /\ step.turn
    /\ step.probe.phase = phase

Probing(probe) == step' = [step EXCEPT !.turn = FALSE, !.probe = probe]

(* The pending root is frozen.                                             *)
ProbeStart ==
    /\ ProbeIn("None")
    /\ Probing([NoProbe EXCEPT !.phase = "Scan", !.rows = pending])

(* Fault: the probe stops at the first row that is empty.                  *)
SomeRead == \E t \in Task : step.probe.rows[t] = {}

AllRead == \A t \in Task : step.probe.rows[t] = {}

(* One row is joined to `blocked'; after the last row, And(scope, active). *)
ProbeRow ==
    /\ ProbeIn("Scan")
    /\ \E t \in Task :
          /\ step.probe.rows[t] # {}
          /\ Probing([step.probe EXCEPT !.rows[t] = {}, !.blocked = @ \cup step.probe.rows[t]])

ProbeScanned ==
    /\ ProbeIn("Scan")
    /\ AllRead
    /\ Probing([step.probe EXCEPT !.phase = "Active", !.job = step.scope \cap active])

ProbeActive ==
    /\ ProbeIn("Active")
    /\ Probing([step.probe EXCEPT !.phase = "Overlap", !.job = @ \cap step.probe.blocked])

(* Fault: a probe that met a task goes on with the rows it has.            *)
SameProbe == [step.probe EXCEPT !.phase = "Scan"]

NextProbe == NoProbe

(* No task is left in the scope: the step ends without an application.     *)
(* Else the next probe freezes the rows anew.                              *)
ProbeOverlap ==
    /\ ProbeIn("Overlap")
    /\ step' = [step EXCEPT !.turn = FALSE, !.probe = NextProbe,
                            !.phase = IF step.probe.job = {} THEN "Cleanup" ELSE "Run"]

(* A job of the probe that is not done yet.                                *)
ProbePending ==
    /\ GateIn("Run") /\ UNCHANGED chosen
    /\ step.turn
    /\ step.probe.phase # "None"
    /\ Probing(step.probe)

-----------------------------------------------------------------------------

Probe == ProbeStart \/ ProbeRow \/ ProbeScanned \/ ProbeActive \/ ProbeOverlap

Gate == Select \/ Support \/ Decide \/ Overlap \/ Shared \/ Cleanup

StepAdvance == Gate \/ SourceTurn \/ SourceFree \/ Probe \/ ProbePending \/ DiscardStep

StepNext == StepAdvance \/ RequestStep \/ Resume \/ Cancel

AllNext ==
    \/ stepping /\ StepNext /\ UNCHANGED <<stepping, completionVars>>
    \/ ~stepping /\ Next /\ UNCHANGED <<stepping, stepVars>>

(* The host goes on to call advance, or to discard what it canceled; a job *)
(* of the probe is done after some of its ticks.                           *)
StepSpec ==
    /\ StepInit /\ [][AllNext]_allVars
    /\ WF_stepVars(stepping /\ StepAdvance) /\ SF_stepVars(stepping /\ Probe)

-----------------------------------------------------------------------------
(* Properties.                                                             *)

(* The step has come to its end by itself.                                 *)
Ended == step.phase \in {"Cleanup", "Done"} /\ ~step.resume

(* A step that ends without an event leaves no task in the worlds it       *)
(* selected and that are still active, however the tasks that the probe    *)
(* read one by one went on: no application was still to come.              *)
NothingToCome ==
    Ended /\ step.event = {} =>
        \A t \in Task : pending[t] \cap chosen \cap active = {}

(* A step lets at most one application happen in the worlds it selected,   *)
(* names it, and says whether it reached beyond them.                      *)
OneApplication ==
    /\ hits <= 1
    /\ Ended =>
          /\ hits = (IF step.event = {} THEN 0 ELSE 1)
          /\ step.event # {} => step.event \cap chosen # {}
          /\ step.shared = (step.event \ chosen # {})

StepsAreExact == NothingToCome /\ OneApplication

(* A step ends unless there is work left in its worlds: a sibling that     *)
(* runs for ever does not keep the probe from its end, nor do jobs.        *)
StepsEnd ==
    []<>(step.done \/ \E t \in Task : pending[t] \cap chosen \cap active # {})

=============================================================================
