---------------------------- MODULE SteppingProofs ----------------------------
(***************************************************************************)
(* Certificate's invariants hold for every set of worlds and tasks, and a  *)
(* step is exact for every set of worlds, tasks and selections.            *)
(*                                                                         *)
(* NoLateWork is not inductive: it needs CertificateSound, which follows   *)
(* the frozen rows from their capture to the answer.  The two parts of     *)
(* Accounted need OperandsCurrent, which says that the lane keeps `active' *)
(* unchanged between the start of a job that reads it and the step that    *)
(* assigns its result.  Invariant is their conjunction with the types.     *)
(*                                                                         *)
(* NothingToCome rests on ProbeSound, which follows the rows that a probe  *)
(* froze: a world that it has neither joined to `blocked' nor still to     *)
(* read has no task, because children are born within their parents.  The  *)
(* operands of the probe's two products only shrink under it.  Course says *)
(* what each phase of a step knows of the applications since the request.  *)
(*                                                                         *)
(* The last theorem justifies the source of Stepping: every step of        *)
(* Certificate bears tasks within a parent and lets `active' shrink.       *)
(***************************************************************************)
EXTENDS Stepping, TLAPS

(***************************************************************************)
(* The completion certificate.                                             *)
(***************************************************************************)

Invariant ==
    /\ TypeOK
    /\ OperandsCurrent
    /\ CertificateSound
    /\ NoLateWork
    /\ PublishedOnce
    /\ ActiveIsTheRest

(* The initial state satisfies every part.                                 *)
LEMMA InitInvariant == Init => Invariant
<1> SUFFICES ASSUME Init PROVE Invariant
    OBVIOUS
<1> USE OwnersDistinct
<1>1. TypeOK
    BY DEF Init, TypeOK, Condition, Owner, Ready, NoReady, Phase
<1>2. OperandsCurrent
    BY DEF Init, OperandsCurrent, NoReady
<1>3. CertificateSound
    BY DEF Init, CertificateSound, NoReady
<1>4. NoLateWork /\ PublishedOnce /\ ActiveIsTheRest
    BY DEF Init, NoLateWork, PublishedOnce, ActiveIsTheRest
<1>5. QED
    BY <1>1, <1>2, <1>3, <1>4 DEF Invariant

(* What a task step does to the rows: a task works only where a task       *)
(* already worked.  This is the first rule of the certificate.             *)
LEMMA BornWithin ==
    ASSUME NEW t \in Task, pending \in [Task -> Condition], Admit(t)
    PROVE  /\ pending' \in [Task -> Condition]
           /\ \A u \in Task : pending'[u] \subseteq pending[u] \cup pending[t]
           /\ \A u \in Task : u # t /\ pending[u] # {} => pending'[u] = pending[u]
BY DEF Admit, Condition, Live

(* A task step creates work only where the task worked, so it creates none *)
(* in a certified or a published world.                                    *)
LEMMA TaskStepInvariant ==
    ASSUME Invariant, NEW t \in Task, TaskStep(t)
    PROVE  Invariant'
<1> USE OwnersDistinct DEF Invariant
<1>1. Admit(t)
    BY DEF TaskStep
<1>2. pending \in [Task -> Condition]
    BY DEF TypeOK
<1>3. /\ pending' \in [Task -> Condition]
      /\ \A u \in Task : pending'[u] \subseteq pending[u] \cup pending[t]
      /\ \A u \in Task : u # t /\ pending[u] # {} => pending'[u] = pending[u]
    BY <1>1, <1>2, BornWithin
<1>4. TypeOK'
    BY <1>3 DEF TypeOK, TaskStep, LaneAfter, Grantable, Owner, Condition
<1>5. OperandsCurrent'
  <2>1. CASE lane' = lane /\ (lane = t => pending'[t] # {})
    BY <1>3, <2>1 DEF OperandsCurrent, TaskStep
  <2>2. CASE lane = t /\ lane' \in Grantable \ {t}
    <3>1. \A u \in Task : failing[u] = {}
      BY <2>2 DEF OperandsCurrent, TaskStep
    <3>2. lane' \in Task => pending'[lane'] # {}
      BY <2>2 DEF Grantable
    <3>3. ready.phase \notin {"Filter", "Publish"}
      BY <2>2 DEF OperandsCurrent
    <3>4. lane' = Completion => ready.phase = "Acquire"
      BY <2>2 DEF Grantable, TaskStep
    <3>5. QED
      BY <3>1, <3>2, <3>3, <3>4 DEF OperandsCurrent, TaskStep
  <2>3. QED
    BY <2>1, <2>2 DEF TaskStep, LaneAfter
<1>6. CertificateSound'
    BY <1>3 DEF CertificateSound, TaskStep
<1>7. NoLateWork'
    BY <1>3 DEF NoLateWork, TaskStep
<1>8. PublishedOnce' /\ ActiveIsTheRest'
    BY DEF PublishedOnce, ActiveIsTheRest, TaskStep
<1>9. QED
    BY <1>4, <1>5, <1>6, <1>7, <1>8

(* Taking the free lane cannot disturb a job: a running job owns it.       *)
LEMMA TaskAcquireInvariant ==
    ASSUME Invariant, NEW t \in Task, TaskAcquire(t)
    PROVE  Invariant'
<1> USE OwnersDistinct DEF Invariant, TaskAcquire
<1>1. TypeOK'
    BY DEF TypeOK, Owner
<1>2. OperandsCurrent'
    BY DEF OperandsCurrent, Live
<1>3. CertificateSound' /\ NoLateWork' /\ PublishedOnce' /\ ActiveIsTheRest'
    BY DEF CertificateSound, NoLateWork, PublishedOnce, ActiveIsTheRest
<1>4. QED
    BY <1>1, <1>2, <1>3

(* The job starts with the current `active', under the lane.               *)
LEMMA FailStartInvariant ==
    ASSUME Invariant, NEW t \in Task, FailStart(t)
    PROVE  Invariant'
<1> USE OwnersDistinct DEF Invariant, FailStart
<1>1. TypeOK'
    BY DEF TypeOK, Condition
<1>2. OperandsCurrent'
    BY DEF TypeOK, OperandsCurrent, Condition
<1>3. CertificateSound' /\ NoLateWork' /\ PublishedOnce' /\ ActiveIsTheRest'
    BY DEF CertificateSound, NoLateWork, PublishedOnce, ActiveIsTheRest
<1>4. QED
    BY <1>1, <1>2, <1>3

(* Nobody changed `active' since, so exactly the failing worlds leave it.  *)
LEMMA FailFinishInvariant ==
    ASSUME Invariant, NEW t \in Task, FailFinish(t)
    PROVE  Invariant'
<1> USE OwnersDistinct DEF Invariant
<1>1. /\ lane = t
      /\ active' = active \ failing[t]
      /\ failing[t] \subseteq active /\ failing[t] \subseteq pending[t]
      /\ ready.phase \notin {"Filter", "Publish"}
    BY DEF FailFinish, Remainder, OperandsCurrent
<1>2. /\ pending' \in [Task -> Condition]
      /\ \A u \in Task : pending'[u] \subseteq pending[u] \cup pending[t]
  <2>1. Admit(t) /\ pending \in [Task -> Condition]
    BY DEF FailFinish, TypeOK
  <2>2. QED
    BY <2>1, BornWithin
<1>3. TypeOK'
    BY <1>1, <1>2 DEF TypeOK, FailFinish, LaneAfter, Grantable, Condition, Owner
<1>4. OperandsCurrent'
    BY <1>1 DEF TypeOK, OperandsCurrent, FailFinish, LaneAfter, Grantable
<1>5. CertificateSound'
    BY <1>1, <1>2 DEF CertificateSound, FailFinish
<1>6. NoLateWork'
    BY <1>2 DEF NoLateWork, FailFinish
<1>7. PublishedOnce' /\ ActiveIsTheRest'
    BY <1>1 DEF TypeOK, PublishedOnce, ActiveIsTheRest, FailFinish, Condition
<1>8. QED
    BY <1>3, <1>4, <1>5, <1>6, <1>7

(* A certificate that owns no lane and publishes nothing leaves the other  *)
(* parts alone.                                                            *)
LEMMA ReadyOnly ==
    ASSUME NoLateWork, PublishedOnce, ActiveIsTheRest,
           UNCHANGED <<active, pending, failed, published>>
    PROVE  NoLateWork' /\ PublishedOnce' /\ ActiveIsTheRest'
BY DEF NoLateWork, PublishedOnce, ActiveIsTheRest

(* At the capture the rows are all the tasks there are.                    *)
LEMMA CaptureInvariant ==
    ASSUME Invariant, Capture
    PROVE  Invariant'
<1> USE OwnersDistinct DEF Invariant, Capture
<1>1. TypeOK'
    BY DEF TypeOK, Condition, Ready, Phase
<1>2. OperandsCurrent'
    BY DEF OperandsCurrent
<1>3. CertificateSound'
    BY DEF CertificateSound
<1>4. QED
    BY <1>1, <1>2, <1>3, ReadyOnly

(* A row moves from the frozen rows to the blocked part.                   *)
LEMMA ScanRowInvariant ==
    ASSUME Invariant, ScanRow
    PROVE  Invariant'
<1> USE OwnersDistinct DEF Invariant
<1>1. PICK t \in Task :
         ready' = IF ready.blocked \cup ready.rows[t] \in {World, ready.scope}
                  THEN NoReady
                  ELSE [ready EXCEPT !.rows[t] = {},
                                     !.blocked = ready.blocked \cup ready.rows[t]]
    BY DEF ScanRow, Dropped
<1>2. ready \in Ready /\ ready.phase = "Scan"
    BY DEF TypeOK, ScanRow
<1>3. TypeOK'
  <2>1. NoReady \in Ready
    BY DEF NoReady, Ready, Phase, Condition
  <2>2. ready' \in Ready /\ (ready'.phase = "None" => ready' = NoReady)
    BY <1>1, <1>2, <2>1 DEF Ready, Condition
  <2>3. QED
    BY <2>2 DEF TypeOK, ScanRow
<1>4. ready'.phase \in {"None", "Scan"}
    BY <1>1, <1>2 DEF NoReady, Ready
<1>5. OperandsCurrent'
    BY <1>2, <1>4 DEF OperandsCurrent, ScanRow
<1>6. CertificateSound'
    BY <1>1, <1>2, <1>4 DEF CertificateSound, ScanRow, NoReady, Ready
<1>7. QED
    BY <1>3, <1>5, <1>6, ReadyOnly DEF ScanRow

(* What remains is disjoint from the blocked part.                         *)
LEMMA DifferenceInvariant ==
    ASSUME Invariant, Difference
    PROVE  Invariant'
<1> USE OwnersDistinct DEF Invariant, Difference, Dropped, Scanned
<1>1. TypeOK'
    BY DEF TypeOK, Ready, Phase, NoReady, Condition
<1>2. OperandsCurrent'
    BY DEF TypeOK, OperandsCurrent, Ready, NoReady
<1>3. CertificateSound'
    BY DEF TypeOK, CertificateSound, Ready, NoReady
<1>4. QED
    BY <1>1, <1>2, <1>3, ReadyOnly

(* The certificate owns the lane from here on.                             *)
LEMMA ReadyAcquireInvariant ==
    ASSUME Invariant, ReadyAcquire
    PROVE  Invariant'
<1> USE OwnersDistinct DEF Invariant, ReadyAcquire
<1>1. TypeOK'
    BY DEF TypeOK, Ready, Phase, Owner
<1>2. OperandsCurrent'
    BY DEF TypeOK, OperandsCurrent, Ready
<1>3. CertificateSound'
    BY DEF TypeOK, CertificateSound, Ready
<1>4. QED
    BY <1>1, <1>2, <1>3, ReadyOnly

(* The failed worlds leave the scope; if none is left the lane goes on.    *)
LEMMA FilterInvariant ==
    ASSUME Invariant, Filter
    PROVE  Invariant'
<1> USE OwnersDistinct DEF Invariant, Dropped
<1> DEFINE scope == ready.scope \cap active
<1>1. /\ ready \in Ready /\ ready.phase = "Filter" /\ lane = Completion
      /\ \A t \in Task : failing[t] = {}
    BY DEF TypeOK, OperandsCurrent, Filter
<1>2. CASE scope = {}
  <2>1. ready' = NoReady /\ lane' \in Grantable /\ ready'.phase = "None"
    BY <1>2 DEF Filter, NoReady
  <2>2. TypeOK'
    BY <2>1 DEF TypeOK, Filter, NoReady, Ready, Phase, Condition, Grantable, Owner
  <2>3. OperandsCurrent'
    BY <1>1, <2>1 DEF OperandsCurrent, Filter, Grantable
  <2>4. CertificateSound'
    BY <2>1 DEF CertificateSound
  <2>5. QED
    BY <2>2, <2>3, <2>4, <1>2, ReadyOnly DEF Filter
<1>3. CASE scope # {}
  <2>1. /\ ready' = [ready EXCEPT !.phase = "Publish", !.scope = scope, !.base = active]
        /\ UNCHANGED <<pending, lane>>
    BY <1>3 DEF Filter
  <2>2. TypeOK'
    BY <1>1, <2>1 DEF TypeOK, Filter, Ready, Phase, Condition
  <2>3. OperandsCurrent'
    BY <1>1, <2>1 DEF OperandsCurrent, Filter, Ready
  <2>4. CertificateSound'
    BY <1>1, <2>1 DEF CertificateSound, Filter, Ready
  <2>5. QED
    BY <2>1, <2>2, <2>3, <2>4, ReadyOnly DEF Filter
<1>4. QED
    BY <1>2, <1>3

(* The published worlds were active until now, and no task is left in them.*)
LEMMA PublishInvariant ==
    ASSUME Invariant, Publish
    PROVE  Invariant'
<1> USE OwnersDistinct DEF Invariant
<1>1. /\ ready \in Ready /\ lane = Completion
      /\ \A t \in Task : failing[t] = {}
      /\ active' = active \ ready.scope
      /\ ready.scope \subseteq active
    BY DEF TypeOK, OperandsCurrent, Publish, Unpublished
<1>2. \A w \in ready.scope, t \in Task : w \notin pending[t]
    BY DEF CertificateSound, Publish
<1>3. ready' = NoReady /\ ready'.phase = "None" /\ lane' \in Grantable
    BY DEF Publish, NoReady
<1>4. TypeOK'
  <2>1. active' \in Condition /\ published' \in [World -> Nat]
    BY <1>1 DEF TypeOK, Publish, Condition
  <2>2. ready' \in Ready /\ lane' \in Owner \cup {Free}
    BY <1>3 DEF NoReady, Ready, Phase, Condition, Grantable, Owner
  <2>3. QED
    BY <1>3, <2>1, <2>2 DEF TypeOK, Publish
<1>5. OperandsCurrent'
    BY <1>1, <1>3 DEF OperandsCurrent, Publish, Grantable
<1>6. CertificateSound'
    BY <1>3 DEF CertificateSound
<1>7. NoLateWork'
    BY <1>2 DEF NoLateWork, Publish, TypeOK
<1>8. PublishedOnce'
    BY <1>1 DEF PublishedOnce, ActiveIsTheRest, Publish, TypeOK
<1>9. ActiveIsTheRest'
    BY <1>1 DEF ActiveIsTheRest, Publish, TypeOK, Condition
<1>10. QED
    BY <1>4, <1>5, <1>6, <1>7, <1>8, <1>9

(* Delivery touches neither worlds nor rows.                               *)
LEMMA DeliveredInvariant ==
    ASSUME Invariant, Delivered
    PROVE  Invariant'
<1> USE DEF Invariant, Delivered
<1>1. TypeOK' /\ OperandsCurrent' /\ CertificateSound'
    BY DEF TypeOK, OperandsCurrent, CertificateSound
<1>2. QED
    BY <1>1, ReadyOnly

(* Every step preserves the invariant.                                     *)
LEMMA NextInvariant ==
    ASSUME Invariant, [Next]_vars
    PROVE  Invariant'
<1>1. CASE \E t \in Task : TaskStep(t) \/ TaskAcquire(t) \/ FailStart(t) \/ FailFinish(t)
    BY <1>1, TaskStepInvariant, TaskAcquireInvariant, FailStartInvariant,
       FailFinishInvariant
<1>2. CASE CompletionStep
    BY <1>2, CaptureInvariant, ScanRowInvariant,
       DifferenceInvariant, ReadyAcquireInvariant, FilterInvariant,
       PublishInvariant
       DEF CompletionStep
<1>3. CASE Delivered
    BY <1>3, DeliveredInvariant
<1>4. CASE UNCHANGED vars
    BY <1>4 DEF vars, Invariant, TypeOK, OperandsCurrent, CertificateSound,
                NoLateWork, PublishedOnce, ActiveIsTheRest
<1>5. QED
    BY <1>1, <1>2, <1>3, <1>4 DEF Next

(* The strengthened invariant holds in every behaviour.                    *)
THEOREM InvariantHolds == Spec => []Invariant
<1>1. Init => Invariant
    BY InitInvariant
<1>2. Invariant /\ [Next]_vars => Invariant'
    BY NextInvariant
<1>3. QED
    BY <1>1, <1>2, PTL DEF Spec

(* Types: Engine::completion leaves nothing of a dropped certificate.      *)
THEOREM TypeCorrect == Spec => []TypeOK
BY InvariantHolds, PTL DEF Invariant

(* Jobs that assign `active' own the lane and read the current `active'.   *)
THEOREM LaneProtectsOperands == Spec => []OperandsCurrent
BY InvariantHolds, PTL DEF Invariant

(* The frozen pending root certifies quiet worlds until it is used.        *)
THEOREM FrozenRowsCertify == Spec => []CertificateSound
BY InvariantHolds, PTL DEF Invariant

(* No task ever works in a published world: answers are final.             *)
THEOREM AnswersAreFinal == Spec => []NoLateWork
BY InvariantHolds, PTL DEF Invariant

(* No world is published twice, or published and failed.                   *)
THEOREM PublishedAtMostOnce == Spec => []PublishedOnce
BY InvariantHolds, PTL DEF Invariant

(* Each world is active, failed or published once.                         *)
THEOREM NoWorldLost == Spec => []Accounted
BY InvariantHolds, PTL DEF Invariant, Accounted

(* No job revives a world: `active' only shrinks.                          *)
THEOREM ActiveOnlyShrinks == Spec => ActiveShrinks
<1>1. Invariant /\ [Next]_vars => [active' \subseteq active]_vars
  <2> SUFFICES ASSUME Invariant, [Next]_vars
               PROVE  active' \subseteq active
      OBVIOUS
  <2>1. ASSUME NEW t \in Task, FailFinish(t)
        PROVE  active' \subseteq active
    BY <2>1 DEF FailFinish, Remainder, Invariant, OperandsCurrent
  <2>2. CASE Publish
    BY <2>2 DEF Publish, Unpublished, Invariant, OperandsCurrent
  <2>3. QED
    BY <2>1, <2>2 DEF Next, vars, TaskStep, TaskAcquire, FailStart, CompletionStep,
       Capture, ScanRow, Difference, ReadyAcquire, Filter, Delivered
<1>2. QED
    BY <1>1, InvariantHolds, PTL DEF Spec, ActiveShrinks

(***************************************************************************)
(* A logical step.                                                         *)
(***************************************************************************)

Selection == [support : Condition, decision : Condition, positive : BOOLEAN]

ProbeState == [phase : ProbePhase, rows : [Task -> Condition], blocked : Condition,
               job : Condition]

StepState == [phase : StepPhase, selections : Seq(Selection), scope : Condition,
              decision : Condition, job : Condition, application : Condition,
              probe : ProbeState, turn : BOOLEAN, resume : BOOLEAN, done : BOOLEAN,
              event : Condition, shared : BOOLEAN]

StepTypes ==
    /\ active \in Condition
    /\ pending \in [Task -> Condition]
    /\ step \in StepState
    /\ chosen \in Condition
    /\ hits \in {0, 1}

(* What each phase knows; the probe is kept while an application is        *)
(* compared with the scope.                                                *)
Course ==
    /\ step.resume => step.phase = "Cleanup"
    /\ step.phase \in {"Select", "Support", "Decision"} =>
          /\ hits = 0 /\ step.event = {} /\ ~step.shared
          /\ step.probe = NoProbe
    /\ step.phase \in {"Run", "Overlap"} => step.scope = chosen /\ step.event = {} /\ ~step.shared
    /\ step.phase = "Run" => hits = 0
    /\ step.phase = "Overlap" =>
          /\ step.job = step.application \cap chosen
          /\ hits = (IF step.job = {} THEN 0 ELSE 1)
    /\ step.phase = "Shared" =>
          /\ hits = 1 /\ step.event \cap chosen # {}
          /\ step.job = step.event \ chosen

(* The certificate of the probe.                                           *)
ProbeSound ==
    step.phase \in {"Run", "Overlap"} /\ step.probe.phase # "None" =>
        /\ \A w \in World :
              w \notin step.probe.blocked /\ (\A t \in Task : w \notin step.probe.rows[t])
                  => \A t \in Task : w \notin pending[t]
        /\ step.probe.phase # "Scan" => \A t \in Task : step.probe.rows[t] = {}
        /\ step.probe.phase = "Active" => chosen \cap active \subseteq step.probe.job
        /\ step.probe.phase = "Overlap" =>
              chosen \cap active \cap step.probe.blocked \subseteq step.probe.job

StepInvariant == StepTypes /\ Course /\ ProbeSound /\ StepsAreExact

(* A behaviour without steps leaves them alone.                            *)
Unstepped == step = NoStep /\ hits = 0

AllInvariant == IF stepping THEN StepInvariant ELSE Unstepped

-----------------------------------------------------------------------------

(* NoStep is a state of the controller that knows nothing.                 *)
LEMMA NoStepTyped == NoStep \in StepState /\ NoProbe \in ProbeState
BY DEF NoStep, NoProbe, StepState, ProbeState, StepPhase, ProbePhase, Condition, Selection

(* The initial state satisfies the invariant.                              *)
LEMMA StepInitInvariant ==
    ASSUME StepInit
    PROVE  AllInvariant
<1>1. step = NoStep /\ hits = 0 /\ chosen = {} /\ step.phase = "None" /\ ~step.resume
    BY DEF StepInit, NoStep
<1>2. active \in Condition /\ pending \in [Task -> Condition]
    BY DEF StepInit, Init, Condition
<1>3. StepTypes
    BY <1>1, <1>2, NoStepTyped DEF StepTypes, Condition
<1>4. Course /\ ProbeSound /\ StepsAreExact
    BY <1>1 DEF Course, ProbeSound, StepsAreExact, NothingToCome, OneApplication, Ended
<1>5. QED
    BY <1>1, <1>3, <1>4 DEF AllInvariant, StepInvariant, Unstepped

-----------------------------------------------------------------------------
(* Each call and each phase of the gate preserves the invariant.           *)

LEMMA RequestKeeps ==
    ASSUME StepInvariant, RequestStep
    PROVE  StepInvariant'
<1>1. PICK selections \in Selections :
         step' = [NoStep EXCEPT !.phase = "Select", !.selections = selections,
                                !.scope = active, !.done = FALSE]
    BY DEF RequestStep
<1>2. chosen' = {} /\ hits' = 0 /\ active' = active /\ pending' = pending
    BY DEF RequestStep, sourceVars
<1>3. StepTypes'
  <2>1. selections \in Seq(Selection)
    BY SelectionsDecideChoices DEF Selection
  <2>2. step' \in StepState
    BY <1>1, <2>1, NoStepTyped DEF NoStep, StepState, StepPhase, StepInvariant, StepTypes
  <2>3. QED
    BY <1>2, <2>2 DEF StepInvariant, StepTypes, Condition
<1>4. QED
  BY <1>1, <1>2, <1>3
     DEF NoStep, StepInvariant, Course, ProbeSound, StepsAreExact, NothingToCome,
         OneApplication, Ended

LEMMA ResumeKeeps ==
    ASSUME StepInvariant, Resume
    PROVE  StepInvariant'
<1> USE DEF StepInvariant, StepTypes, Resume, sourceVars
<1>1. step' \in StepState /\ step'.phase = "Cleanup" /\ step'.resume
    BY DEF StepState, StepPhase
<1>2. QED
    BY <1>1 DEF Course, ProbeSound, StepsAreExact, NothingToCome, OneApplication, Ended

(* What is cleaned up keeps what it says, or has been resumed.             *)
LEMMA CleanedKeeps ==
    ASSUME StepInvariant, UNCHANGED <<active, pending, chosen, hits>>,
           NEW s \in StepState, s.phase = "Cleanup", step' = CleanedUp(s),
           ~s.resume => step = s
    PROVE  StepInvariant'
<1> USE DEF StepInvariant
<1>1. CASE s.selections # <<>>
  <2>1. /\ step' \in StepState /\ step'.phase = "Cleanup" /\ step'.resume = s.resume
        /\ step'.event = s.event /\ step'.shared = s.shared
    <3>1. Tail(s.selections) \in Seq(Selection)
      BY <1>1 DEF StepState
    <3>2. step' = [s EXCEPT !.selections = Tail(s.selections)]
      BY <1>1 DEF CleanedUp
    <3>3. QED
      BY <3>1, <3>2 DEF StepState
  <2>2. QED
    BY <2>1 DEF StepTypes, Course, ProbeSound, StepsAreExact, NothingToCome,
                OneApplication, Ended
<1>2. CASE s.selections = <<>> /\ s.resume
  <2>1. step' = NoStep /\ step'.phase = "None" /\ ~step'.resume
    BY <1>2 DEF CleanedUp, NoStep
  <2>2. QED
    BY <2>1, NoStepTyped
       DEF StepTypes, Course, ProbeSound, StepsAreExact, NothingToCome, OneApplication, Ended
<1>3. CASE s.selections = <<>> /\ ~s.resume
  <2>1. /\ step' \in StepState /\ step'.phase = "Done" /\ ~step'.resume
        /\ step'.event = step.event /\ step'.shared = step.shared
        /\ step.phase = "Cleanup" /\ ~step.resume
    BY <1>3, NoStepTyped DEF CleanedUp, NoStep, StepState, StepPhase
  <2>2. QED
    BY <2>1 DEF StepTypes, Course, ProbeSound, StepsAreExact, NothingToCome,
                OneApplication, Ended
<1>4. QED
  BY <1>1, <1>2, <1>3

LEMMA CleanupKeeps ==
    ASSUME StepInvariant, Cleanup
    PROVE  StepInvariant'
BY CleanedKeeps DEF Cleanup, GateIn, sourceVars, StepInvariant, StepTypes

LEMMA DiscardKeeps ==
    ASSUME StepInvariant, DiscardStep
    PROVE  StepInvariant'
<1> DEFINE s == [step EXCEPT !.resume = TRUE, !.phase = "Cleanup"]
<1>1. s \in StepState /\ s.phase = "Cleanup" /\ s.resume
    BY DEF StepInvariant, StepTypes, StepState, StepPhase
<1>2. step' = CleanedUp(s) /\ UNCHANGED <<active, pending, chosen, hits>>
    BY DEF DiscardStep, sourceVars
<1> HIDE DEF s
<1>3. QED
  BY <1>1, <1>2, CleanedKeeps

LEMMA SelectKeeps ==
    ASSUME StepInvariant, Select
    PROVE  StepInvariant'
<1> USE DEF StepInvariant
<1>1. /\ step \in StepState /\ step.phase = "Select" /\ ~step.resume
      /\ hits = 0 /\ step.event = {} /\ ~step.shared /\ step.probe = NoProbe
      /\ UNCHANGED <<active, pending, hits>>
    BY DEF Select, GateIn, StepTypes, Course, sourceVars
<1>2. CASE step.selections # <<>>
  <2>1. Head(step.selections) \in Selection /\ Tail(step.selections) \in Seq(Selection)
    BY <1>1, <1>2 DEF StepState
  <2>2. Decision \in Condition
    BY <2>1 DEF Decision, Selection, Condition
  <2>3. step' = [step EXCEPT !.phase = "Support", !.selections = Tail(@),
                             !.decision = Decision,
                             !.job = step.scope \cap Head(step.selections).support]
        /\ chosen' = chosen
    BY <1>2 DEF Select
  <2>4. /\ step' \in StepState /\ step'.phase = "Support" /\ ~step'.resume
        /\ step'.event = {} /\ ~step'.shared /\ step'.probe = NoProbe
    BY <1>1, <2>1, <2>2, <2>3 DEF StepState, StepPhase, Condition
  <2>5. StepTypes' /\ Course'
    BY <1>1, <2>3, <2>4 DEF StepTypes, Course
  <2>6. ProbeSound' /\ ~Ended'
    BY <2>4 DEF ProbeSound, Ended
  <2>7. StepsAreExact'
    BY <1>1, <2>6 DEF StepsAreExact, NothingToCome, OneApplication
  <2>8. QED
    BY <2>5, <2>6, <2>7
<1>3. CASE step.selections = <<>>
  <2>1. /\ step' = [step EXCEPT !.phase = IF step.scope = {} THEN "Cleanup" ELSE "Run"]
        /\ chosen' = step.scope
    BY <1>3 DEF Select
  <2>2. /\ step' \in StepState /\ step'.phase \in {"Cleanup", "Run"} /\ ~step'.resume
        /\ step'.event = {} /\ ~step'.shared /\ step'.probe = NoProbe
        /\ step'.scope = chosen' /\ chosen' \in Condition
        /\ step'.phase = "Cleanup" => chosen' = {}
    BY <1>1, <2>1 DEF StepState, StepPhase
  <2>3. step'.probe.phase = "None"
    BY <2>2 DEF NoProbe
  <2>4. StepTypes' /\ Course' /\ ProbeSound'
    BY <1>1, <2>2, <2>3 DEF StepTypes, Course, ProbeSound
  <2>5. NothingToCome'
    BY <2>2 DEF NothingToCome, Ended
  <2>6. OneApplication'
    <3>1. hits' <= 1
      BY <1>1
    <3>2. step'.shared = FALSE /\ (step'.event \ chosen' # {}) = FALSE
      BY <2>2 DEF StepState
    <3>3. QED
      BY <1>1, <2>2, <3>1, <3>2 DEF OneApplication
  <2>7. QED
    BY <2>4, <2>5, <2>6 DEF StepsAreExact
<1>4. QED
  BY <1>2, <1>3

LEMMA SupportKeeps ==
    ASSUME StepInvariant, Support \/ Decide
    PROVE  StepInvariant'
<1> USE DEF StepInvariant
<1>1. /\ step \in StepState /\ step.phase \in {"Support", "Decision"} /\ ~step.resume
      /\ hits = 0 /\ step.event = {} /\ ~step.shared /\ step.probe = NoProbe
      /\ UNCHANGED <<active, pending, hits, chosen>>
    BY DEF Support, Decide, GateIn, StepTypes, Course, sourceVars
<1>2. /\ step' \in StepState /\ step'.phase \in {"Decision", "Select"} /\ ~step'.resume
      /\ step'.event = {} /\ ~step'.shared /\ step'.probe = NoProbe
  <2>1. CASE Support
    BY <1>1, <2>1 DEF Support, StepState, StepPhase, Condition
  <2>2. CASE Decide
    BY <1>1, <2>2 DEF Decide, StepState, StepPhase, Condition
  <2>3. QED
    BY <2>1, <2>2
<1>3. QED
  BY <1>1, <1>2 DEF StepTypes, Course, ProbeSound, StepsAreExact, NothingToCome,
                    OneApplication, Ended

LEMMA OverlapKeeps ==
    ASSUME StepInvariant, Overlap
    PROVE  StepInvariant'
<1> USE DEF StepInvariant
<1>1. /\ step \in StepState /\ step.phase = "Overlap" /\ ~step.resume
      /\ step.scope = chosen /\ step.event = {} /\ ~step.shared
      /\ step.job = step.application \cap chosen
      /\ hits = (IF step.job = {} THEN 0 ELSE 1)
      /\ UNCHANGED <<active, pending, hits, chosen>>
    BY DEF Overlap, GateIn, StepTypes, Course, sourceVars
<1>2. CASE step.job = {}
  <2>1. /\ step' \in StepState /\ step'.phase = "Run" /\ ~step'.resume
        /\ step'.scope = chosen /\ step'.event = {} /\ ~step'.shared
        /\ step'.probe = step.probe
    BY <1>1, <1>2 DEF Overlap, StepState, StepPhase, Condition
  <2>2. QED
    BY <1>1, <1>2, <2>1 DEF StepTypes, Course, ProbeSound, StepsAreExact, NothingToCome,
                            OneApplication, Ended
<1>3. CASE step.job # {}
  <2>1. /\ step' \in StepState /\ step'.phase = "Shared" /\ ~step'.resume
        /\ step'.event = step.application /\ step'.job = step.application \ chosen
    BY <1>1, <1>3 DEF Overlap, StepState, StepPhase, Condition
  <2>2. QED
    BY <1>1, <1>3, <2>1 DEF StepTypes, Course, ProbeSound, StepsAreExact, NothingToCome,
                            OneApplication, Ended
<1>4. QED
  BY <1>2, <1>3

LEMMA SharedKeeps ==
    ASSUME StepInvariant, Shared
    PROVE  StepInvariant'
<1> USE DEF StepInvariant
<1>1. /\ step \in StepState /\ step.phase = "Shared" /\ ~step.resume
      /\ hits = 1 /\ step.event \cap chosen # {} /\ step.job = step.event \ chosen
      /\ UNCHANGED <<active, pending, hits, chosen>>
    BY DEF Shared, GateIn, StepTypes, Course, sourceVars
<1>2. /\ step' \in StepState /\ step'.phase = "Cleanup" /\ ~step'.resume
      /\ step'.event = step.event /\ step'.shared = (step.job # {})
    BY <1>1 DEF Shared, StepState, StepPhase, Condition
<1>3. QED
  BY <1>1, <1>2 DEF StepTypes, Course, ProbeSound, StepsAreExact, NothingToCome,
                    OneApplication, Ended

-----------------------------------------------------------------------------
(* The source goes on under a probe.                                       *)

(* Work only appears where there was some, and `active' only shrinks.      *)
LEMMA SourceWithin ==
    ASSUME pending \in [Task -> Condition], active \in Condition,
           Source \/ \E t \in Task, support \in Condition : Application(t, support)
    PROVE  /\ pending' \in [Task -> Condition] /\ active' \in Condition
           /\ active' \subseteq active
           /\ \A w \in World : (\A t \in Task : w \notin pending[t])
                                  => \A t \in Task : w \notin pending'[t]
<1>1. CASE UNCHANGED pending /\ Shrinks
    BY <1>1 DEF Shrinks, Condition
<1>2. ASSUME NEW t \in Task, Admit(t), active' \in SUBSET active
      PROVE  /\ pending' \in [Task -> Condition] /\ active' \in Condition
             /\ active' \subseteq active
             /\ \A w \in World : (\A u \in Task : w \notin pending[u])
                                    => \A u \in Task : w \notin pending'[u]
    BY <1>2, BornWithin DEF Condition
<1>3. QED
  BY <1>1, <1>2 DEF Source, TaskTurn, Application, Shrinks

LEMMA SourceTurnKeeps ==
    ASSUME StepInvariant, SourceTurn
    PROVE  StepInvariant'
<1> USE DEF StepInvariant
<1>1. /\ step \in StepState /\ step.phase = "Run" /\ ~step.resume
      /\ step.scope = chosen /\ step.event = {} /\ ~step.shared /\ hits = 0
      /\ chosen' = chosen /\ chosen \in Condition
    BY DEF SourceTurn, StepTypes, Course
<1>2. /\ pending' \in [Task -> Condition] /\ active' \in Condition
      /\ active' \subseteq active
      /\ \A w \in World : (\A t \in Task : w \notin pending[t])
                             => \A t \in Task : w \notin pending'[t]
    BY SourceWithin DEF SourceTurn, StepTypes
<1>3. ASSUME step' \in StepState, step'.phase \in {"Run", "Overlap"},
             step'.probe = step.probe
      PROVE  ProbeSound'
  <2>1. CASE step.probe.phase = "None"
    BY <2>1, <1>3 DEF ProbeSound
  <2>2. CASE step.probe.phase # "None"
    BY <2>2, <1>1, <1>2, <1>3 DEF ProbeSound
  <2>3. QED
    BY <2>1, <2>2
<1>4. CASE Source /\ step' = [step EXCEPT !.turn = TRUE] /\ UNCHANGED hits
  <2>1. /\ step' \in StepState /\ step'.phase = "Run" /\ ~step'.resume
        /\ step'.scope = chosen /\ step'.event = {} /\ ~step'.shared
        /\ step'.probe = step.probe
    BY <1>1, <1>4 DEF StepState
  <2>2. QED
    BY <1>1, <1>2, <1>3, <1>4, <2>1
       DEF StepTypes, Course, StepsAreExact, NothingToCome, OneApplication, Ended
<1>5. ASSUME NEW t \in Task, NEW support \in Condition,
             step' = Noted(support),
             hits' = Several(hits + (IF support \cap chosen # {} THEN 1 ELSE 0))
      PROVE  StepInvariant'
  <2>1. /\ step' \in StepState /\ step'.phase = "Overlap" /\ ~step'.resume
        /\ step'.scope = chosen /\ step'.event = {} /\ ~step'.shared
        /\ step'.probe = step.probe /\ step'.application = support
        /\ step'.job = support \cap chosen
    BY <1>1, <1>5 DEF Noted, StepState, StepPhase, Condition
  <2>2. hits' = IF support \cap chosen = {} THEN 0 ELSE 1
    BY <1>1, <1>5 DEF Several
  <2>3. QED
    BY <1>1, <1>2, <1>3, <2>1, <2>2
       DEF StepTypes, Course, StepsAreExact, NothingToCome, OneApplication, Ended
<1>6. QED
  BY <1>4, <1>5 DEF SourceTurn

LEMMA SourceFreeKeeps ==
    ASSUME StepInvariant, SourceFree
    PROVE  StepInvariant'
<1>1. step = NoStep /\ UNCHANGED <<step, chosen, hits>> /\ step'.phase = "None"
    BY DEF SourceFree, stepVars, NoStep
<1>2. pending' \in [Task -> Condition] /\ active' \in Condition
    BY SourceWithin DEF SourceFree, StepInvariant, StepTypes
<1>3. QED
  BY <1>1, <1>2 DEF StepInvariant, StepTypes, Course, ProbeSound, StepsAreExact,
                    NothingToCome, OneApplication, Ended

-----------------------------------------------------------------------------
(* The probe.                                                              *)

(* What a probe that goes on has to keep.                                  *)
LEMMA ProbingKeeps ==
    ASSUME StepInvariant, NEW p \in ProbeState, Probing(p), GateIn("Run"),
           UNCHANGED chosen,
           p.phase # "None" =>
              /\ \A w \in World :
                    w \notin p.blocked /\ (\A t \in Task : w \notin p.rows[t])
                        => \A t \in Task : w \notin pending[t]
              /\ p.phase # "Scan" => \A t \in Task : p.rows[t] = {}
              /\ p.phase = "Active" => chosen \cap active \subseteq p.job
              /\ p.phase = "Overlap" => chosen \cap active \cap p.blocked \subseteq p.job
    PROVE  StepInvariant'
<1> USE DEF StepInvariant
<1>1. /\ step \in StepState /\ step.phase = "Run" /\ ~step.resume
      /\ step.scope = chosen /\ step.event = {} /\ ~step.shared /\ hits = 0
      /\ UNCHANGED <<active, pending, chosen, hits>>
    BY DEF GateIn, StepTypes, Course, sourceVars
<1>2. /\ step' \in StepState /\ step'.phase = "Run" /\ ~step'.resume
      /\ step'.scope = chosen /\ step'.event = {} /\ ~step'.shared
      /\ step'.probe = p
    BY <1>1 DEF Probing, StepState
<1>3. ProbeSound'
    BY <1>1, <1>2 DEF ProbeSound
<1>4. QED
  BY <1>1, <1>2, <1>3
     DEF StepTypes, Course, StepsAreExact, NothingToCome, OneApplication, Ended

(* The frozen rows are those of all tasks.                                 *)
LEMMA ProbeStartKeeps ==
    ASSUME StepInvariant, ProbeStart
    PROVE  StepInvariant'
<1> DEFINE p == [NoProbe EXCEPT !.phase = "Scan", !.rows = pending]
<1>1. p \in ProbeState /\ p.phase = "Scan" /\ p.rows = pending
    BY NoStepTyped DEF StepInvariant, StepTypes, NoProbe, ProbeState, ProbePhase
<1>2. Probing(p) /\ GateIn("Run") /\ UNCHANGED chosen
    BY DEF ProbeStart, ProbeIn
<1> HIDE DEF p
<1>3. QED
  BY <1>1, <1>2, ProbingKeeps

(* A row that was read is blocked.                                         *)
LEMMA ProbeRowKeeps ==
    ASSUME StepInvariant, ProbeRow
    PROVE  StepInvariant'
<1>1. PICK t \in Task :
         Probing([step.probe EXCEPT !.rows[t] = {}, !.blocked = @ \cup step.probe.rows[t]])
    BY DEF ProbeRow
<1> DEFINE p == [step.probe EXCEPT !.rows[t] = {}, !.blocked = @ \cup step.probe.rows[t]]
<1>2. step.probe \in ProbeState /\ step.probe.phase = "Scan" /\ step.phase = "Run"
    BY DEF ProbeRow, ProbeIn, GateIn, StepInvariant, StepTypes, StepState
<1>3. /\ p \in ProbeState /\ p.phase = "Scan"
      /\ p.blocked = step.probe.blocked \cup step.probe.rows[t]
      /\ \A u \in Task : p.rows[u] = IF u = t THEN {} ELSE step.probe.rows[u]
    BY <1>2 DEF ProbeState, Condition
<1>4. \A w \in World :
         w \notin p.blocked /\ (\A u \in Task : w \notin p.rows[u])
             => \A u \in Task : w \notin pending[u]
    BY <1>2, <1>3 DEF StepInvariant, ProbeSound
<1>5. Probing(p) /\ GateIn("Run") /\ UNCHANGED chosen
    BY <1>1 DEF ProbeRow, ProbeIn
<1> HIDE DEF p
<1>6. QED
  BY <1>3, <1>4, <1>5, ProbingKeeps

(* All rows are blocked.                                                   *)
LEMMA ProbeScannedKeeps ==
    ASSUME StepInvariant, ProbeScanned
    PROVE  StepInvariant'
<1> DEFINE p == [step.probe EXCEPT !.phase = "Active", !.job = step.scope \cap active]
<1>1. /\ step.probe \in ProbeState /\ step.probe.phase = "Scan" /\ step.phase = "Run"
      /\ step.scope = chosen /\ step.scope \in Condition
    BY DEF ProbeScanned, ProbeIn, GateIn, StepInvariant, StepTypes, StepState, Course
<1>2. /\ p \in ProbeState /\ p.phase = "Active" /\ p.job = chosen \cap active
      /\ p.blocked = step.probe.blocked /\ p.rows = step.probe.rows
    BY <1>1 DEF ProbeState, ProbePhase, Condition
<1>3. \A w \in World :
         w \notin p.blocked /\ (\A u \in Task : w \notin p.rows[u])
             => \A u \in Task : w \notin pending[u]
    BY <1>1, <1>2 DEF StepInvariant, ProbeSound
<1>4. Probing(p) /\ GateIn("Run") /\ UNCHANGED chosen
    BY DEF ProbeScanned, ProbeIn
<1>5. \A t \in Task : p.rows[t] = {}
    BY <1>2 DEF ProbeScanned, AllRead
<1> HIDE DEF p
<1>6. QED
  BY <1>2, <1>3, <1>4, <1>5, ProbingKeeps

(* The operand was read when more was active.                              *)
LEMMA ProbeActiveKeeps ==
    ASSUME StepInvariant, ProbeActive
    PROVE  StepInvariant'
<1> DEFINE p == [step.probe EXCEPT !.phase = "Overlap", !.job = @ \cap step.probe.blocked]
<1>1. step.probe \in ProbeState /\ step.probe.phase = "Active" /\ step.phase = "Run"
    BY DEF ProbeActive, ProbeIn, GateIn, StepInvariant, StepTypes, StepState
<1>2. /\ p \in ProbeState /\ p.phase = "Overlap"
      /\ p.job = step.probe.job \cap step.probe.blocked
      /\ p.blocked = step.probe.blocked /\ p.rows = step.probe.rows
    BY <1>1 DEF ProbeState, ProbePhase, Condition
<1>3. /\ \A w \in World :
            w \notin p.blocked /\ (\A u \in Task : w \notin p.rows[u])
                => \A u \in Task : w \notin pending[u]
      /\ \A t \in Task : p.rows[t] = {}
      /\ chosen \cap active \cap p.blocked \subseteq p.job
    BY <1>1, <1>2 DEF StepInvariant, ProbeSound
<1>4. Probing(p) /\ GateIn("Run") /\ UNCHANGED chosen
    BY DEF ProbeActive, ProbeIn
<1> HIDE DEF p
<1>5. QED
  BY <1>2, <1>3, <1>4, ProbingKeeps

(* A job that is under way changes nothing.                                *)
LEMMA ProbePendingKeeps ==
    ASSUME StepInvariant, ProbePending
    PROVE  StepInvariant'
<1>1. step.probe \in ProbeState /\ step.phase = "Run"
    BY DEF ProbePending, GateIn, StepInvariant, StepTypes, StepState
<1>2. QED
  BY <1>1, ProbingKeeps DEF ProbePending, StepInvariant, ProbeSound

(* The step ends only when no task is left in its worlds.                  *)
LEMMA ProbeOverlapKeeps ==
    ASSUME StepInvariant, ProbeOverlap
    PROVE  StepInvariant'
<1> USE DEF StepInvariant
<1>1. /\ step \in StepState /\ step.phase = "Run" /\ ~step.resume
      /\ step.scope = chosen /\ step.event = {} /\ ~step.shared /\ hits = 0
      /\ step.probe.phase = "Overlap"
      /\ UNCHANGED <<active, pending, chosen, hits>>
    BY DEF ProbeOverlap, ProbeIn, GateIn, StepTypes, Course, sourceVars
<1>2. /\ step' \in StepState /\ ~step'.resume
      /\ step'.phase = IF step.probe.job = {} THEN "Cleanup" ELSE "Run"
      /\ step'.scope = chosen /\ step'.event = {} /\ ~step'.shared
      /\ step'.probe = NoProbe
    BY <1>1, NoStepTyped DEF ProbeOverlap, NextProbe, StepState, StepPhase
<1>3. step'.probe.phase = "None"
    BY <1>2 DEF NoProbe
<1>4. CASE step.probe.job # {}
    BY <1>1, <1>2, <1>3, <1>4
       DEF StepTypes, Course, ProbeSound, StepsAreExact, NothingToCome, OneApplication, Ended
<1>5. CASE step.probe.job = {}
  <2>1. \A t \in Task : pending[t] \cap chosen \cap active = {}
    <3> SUFFICES ASSUME NEW t \in Task, NEW w \in pending[t] \cap chosen \cap active
                 PROVE  FALSE
        OBVIOUS
    <3>1. w \in World
      BY DEF StepTypes, Condition
    <3>2. w \notin step.probe.blocked
      BY <1>1, <1>5 DEF ProbeSound
    <3>3. \A u \in Task : w \notin step.probe.rows[u]
      BY <1>1 DEF ProbeSound
    <3>4. QED
      BY <1>1, <3>1, <3>2, <3>3 DEF ProbeSound
  <2>2. step'.phase = "Cleanup" /\ \A t \in Task : pending'[t] \cap chosen' \cap active' = {}
    BY <1>1, <1>2, <1>5, <2>1
  <2>3. StepTypes' /\ Course' /\ ProbeSound'
    BY <1>1, <1>2, <2>2 DEF StepTypes, Course, ProbeSound
  <2>4. NothingToCome'
    BY <2>2 DEF NothingToCome
  <2>5. hits' = 0 /\ step'.event = {} /\ ~step'.shared /\ step' \in StepState
    BY <1>1, <1>2
  <2>6. OneApplication'
    <3>1. hits' <= 1
      BY <2>5
    <3>2. step'.shared = FALSE /\ (step'.event \ chosen' # {}) = FALSE
      BY <2>5 DEF StepState
    <3>3. QED
      BY <2>5, <3>1, <3>2 DEF OneApplication
  <2>7. QED
    BY <2>3, <2>4, <2>6 DEF StepsAreExact
<1>6. QED
  BY <1>4, <1>5

-----------------------------------------------------------------------------

(* Every step of a behaviour in which steps are requested.                 *)
LEMMA StepNextKeeps ==
    ASSUME StepInvariant, StepNext
    PROVE  StepInvariant'
<1>1. CASE Cancel
    BY <1>1 DEF Cancel, sourceVars, StepInvariant, StepTypes, Course, ProbeSound,
                StepsAreExact, NothingToCome, OneApplication, Ended
<1>2. QED
  BY <1>1, RequestKeeps, ResumeKeeps, SelectKeeps, SupportKeeps, OverlapKeeps, SharedKeeps,
     CleanupKeeps, DiscardKeeps, SourceTurnKeeps, SourceFreeKeeps, ProbeStartKeeps,
     ProbeRowKeeps, ProbeScannedKeeps, ProbeActiveKeeps, ProbeOverlapKeeps, ProbePendingKeeps
     DEF StepNext, StepAdvance, Gate, Probe

(* Every step of either kind of behaviour.                                 *)
LEMMA AllNextKeeps ==
    ASSUME AllInvariant, [AllNext]_allVars
    PROVE  AllInvariant'
<1>1. CASE stepping /\ StepNext /\ UNCHANGED <<stepping, completionVars>>
    BY <1>1, StepNextKeeps DEF AllInvariant
<1>2. CASE ~stepping /\ Next /\ UNCHANGED <<stepping, stepVars>>
    BY <1>2 DEF AllInvariant, Unstepped, stepVars
<1>3. CASE UNCHANGED allVars
    BY <1>3 DEF allVars, vars, stepVars, AllInvariant, Unstepped, StepInvariant, StepTypes,
                Course, ProbeSound, StepsAreExact, NothingToCome, OneApplication, Ended
<1>4. QED
  BY <1>1, <1>2, <1>3 DEF AllNext

(* The inductive invariant of stepping holds in every behaviour.           *)
THEOREM StepInvariantHolds == StepSpec => []AllInvariant
<1>1. StepInit => AllInvariant
    BY StepInitInvariant
<1>2. AllInvariant /\ [AllNext]_allVars => AllInvariant'
    BY AllNextKeeps
<1>3. QED
  BY <1>1, <1>2, PTL DEF StepSpec

(* A step lets just one application happen in the worlds it selected, or   *)
(* ends when none can come any more, whatever the source does meanwhile.   *)
THEOREM StepsExact == StepSpec => []StepsAreExact
<1>1. AllInvariant => StepsAreExact
    BY DEF AllInvariant, StepInvariant, Unstepped, NoStep, StepsAreExact, NothingToCome,
           OneApplication, Ended
<1>2. QED
  BY <1>1, StepInvariantHolds, PTL

-----------------------------------------------------------------------------

(* What the source of a step may do.                                       *)
SourceStep ==
    /\ (\E t \in Task : Live(t) /\ Admit(t)) \/ UNCHANGED pending
    /\ active' \in SUBSET active

(* The source of Stepping does what Certificate's tasks, certificates and  *)
(* deliveries do: children are born within a live parent, and `active'     *)
(* shrinks.                                                                *)
THEOREM CertificateIsASource == Spec => [][SourceStep]_vars
<1>1. Invariant /\ [Next]_vars /\ [active' \subseteq active]_vars => [SourceStep]_vars
  <2> SUFFICES ASSUME Invariant, Next, active' \subseteq active
               PROVE  (\E t \in Task : Live(t) /\ Admit(t)) \/ UNCHANGED pending
      BY DEF SourceStep, vars
  <2>1. ASSUME NEW t \in Task, TaskStep(t) \/ FailFinish(t)
        PROVE  Live(t) /\ Admit(t)
    BY <2>1 DEF TaskStep, FailFinish, Live, Invariant, OperandsCurrent
  <2>2. ASSUME NEW t \in Task, TaskAcquire(t) \/ FailStart(t)
        PROVE  UNCHANGED pending
    BY <2>2 DEF TaskAcquire, FailStart
  <2>3. CASE CompletionStep \/ Delivered
    BY <2>3 DEF CompletionStep, Capture, ScanRow, Difference, ReadyAcquire, Filter, Publish,
                Delivered
  <2>4. QED
    BY <2>1, <2>2, <2>3 DEF Next
<1>2. QED
  BY <1>1, InvariantHolds, ActiveOnlyShrinks, PTL DEF Spec, ActiveShrinks
==============================================================================
