------------------------------ MODULE Transform ------------------------------
(***************************************************************************)
(* Substitution of choices by conditions and existential projection over   *)
(* the youngest choices: Transform of src/condition.rs, as a function of   *)
(* the arena.  Unlike a Job it is not started again when the order of the  *)
(* choices changes; only the Job it runs meanwhile is.                     *)
(***************************************************************************)
EXTENDS Diagram

Done(a, t, result) == [arena |-> a, task |-> [t EXCEPT !.frames = Rest(t), !.last = result]]

(* The top frame is replaced by these.                                     *)
Pushed(a, t, frames) ==
    [arena |-> a, task |-> [t EXCEPT !.frames = Rest(t) \o frames, !.last = None]]

(* The top frame is replaced by one that awaits a Job.                     *)
Awaiting(a, t, frame, op, x, y) ==
    LET pushed == Pushed(a, t, <<frame>>)
    IN [pushed EXCEPT !.task.job = Start(a, op, x, y)]

Remembered(a, t, input, result) ==
    LET done == Done(a, t, result)
    IN [done EXCEPT !.task.memo = (input :> result) @@ @]

(* Arena::substitute and Arena::project_before.  images: by choice; cutoff *)
(* or None.                                                                *)
StartTransform(a, input, images, cutoff) ==
    LET unchanged == IF cutoff = None THEN images = <<>> ELSE cutoff > a.choices
        known == unchanged \/ IsTerminal(input)
    IN [kind |-> "Transform", images |-> images, cutoff |-> cutoff, memo |-> <<>>, job |-> None,
        frames |-> IF known THEN <<>> ELSE <<[do |-> "Evaluate", input |-> input]>>,
        last |-> IF known THEN input ELSE None]

TransformResult(t) ==
    IF t.frames = <<>> /\ t.memo = <<>> /\ t.images = <<>> /\ t.job = None THEN t.last ELSE None

EvaluateChoice(a, t, c) ==
    LET choice == Top(a, c)
        given == choice \in DOMAIN t.images
        literal == Made(a, choice, Never, Always)
        image == IF given THEN t.images[choice] ELSE literal.cond
        b == IF given THEN a ELSE literal.arena
    IN IF t.cutoff # None /\ choice >= t.cutoff
       THEN Pushed(a, t, << [do |-> "QuantifyLow", input |-> c, high |-> High(a, c)],
                            [do |-> "Evaluate", input |-> Low(a, c)] >>)
       ELSE IF IsTerminal(image)
       THEN Pushed(b, t, << [do |-> "Finish", input |-> c],
                            [do |-> "Evaluate",
                             input |-> IF image = Always THEN High(b, c) ELSE Low(b, c)] >>)
       ELSE Pushed(b, t, << [do |-> "Low", input |-> c, image |-> image, high |-> High(b, c)],
                            [do |-> "Evaluate", input |-> Low(b, c)] >>)

(* The order is asked when the frame runs, not when it was made.           *)
Before(a, choice, c) == IsTerminal(c) \/ Precedes(a, choice, Top(a, c))

IsLiteral(a, c) == IsTerminal(Low(a, c)) /\ IsTerminal(High(a, c))

(* Both cofactors of the input are known: the image selects between them.  *)
Select(a, t, f, high) ==
    LET image == f.image
        made == IF Low(a, image) = Never THEN Made(a, Top(a, image), f.low, high)
                                         ELSE Made(a, Top(a, image), high, f.low)
    IN IF f.low = high THEN Remembered(a, t, f.input, f.low)
       ELSE IF f.low = Never /\ high = Always THEN Remembered(a, t, f.input, image)
       ELSE IF f.low = Always /\ high = Never THEN Remembered(a, t, f.input, Not(image))
       ELSE IF IsLiteral(a, image) /\ Before(a, Top(a, image), f.low)
                                   /\ Before(a, Top(a, image), high)
       THEN Remembered(made.arena, t, f.input, made.cond)
       ELSE Awaiting(a, t, [do |-> "Product", input |-> f.input, image |-> image, high |-> high],
                     "And", Not(image), f.low)

TransformFrame(a, t, f) ==
    CASE f.do = "Evaluate" ->
            IF f.input \in DOMAIN t.memo THEN Done(a, t, t.memo[f.input])
            ELSE IF IsTerminal(f.input) THEN Done(a, t, f.input)
            ELSE EvaluateChoice(a, t, f.input)
      [] f.do = "Finish" -> Remembered(a, t, f.input, t.last)
      [] f.do = "QuantifyLow" ->
            Pushed(a, t, << [do |-> "QuantifyHigh", input |-> f.input, low |-> t.last],
                            [do |-> "Evaluate", input |-> f.high] >>)
      [] f.do = "QuantifyHigh" ->
            Awaiting(a, t, [do |-> "Finish", input |-> f.input], "Or", f.low, t.last)
      [] f.do = "Low" ->
            Pushed(a, t, << [do |-> "High", input |-> f.input, image |-> f.image, low |-> t.last],
                            [do |-> "Evaluate", input |-> f.high] >>)
      [] f.do = "High" -> Select(a, t, f, t.last)
      [] f.do = "Product" ->
            Awaiting(a, t, [do |-> "Union", input |-> f.input, left |-> t.last],
                     "And", f.image, f.high)
      [] f.do = "Union" ->
            Awaiting(a, t, [do |-> "Finish", input |-> f.input], "Or", f.left, t.last)

(* Transform::tick; the tables are given back in one tick.                 *)
TransformTick(a, t) ==
    LET job == JobTick(a, t.job)
        result == JobResult(job.task)
    IN IF TransformResult(t) # None THEN [arena |-> a, task |-> t]
       ELSE IF t.job # None
       THEN [arena |-> job.arena,
             task |-> IF result = None THEN [t EXCEPT !.job = job.task]
                      ELSE [t EXCEPT !.job = None, !.last = result]]
       ELSE IF t.frames = <<>>
       THEN [arena |-> a, task |-> [t EXCEPT !.memo = <<>>, !.images = <<>>]]
       ELSE TransformFrame(a, t, Last(t.frames))

(* Transform::roots.                                                       *)
TransformRoots(t) ==
    LET held(f) == {f[x] : x \in DOMAIN f \ {"do"}}
    IN UNION {{c, t.memo[c]} : c \in DOMAIN t.memo}
        \cup ({t.last} \ {None})
        \cup UNION {held(t.frames[i]) : i \in DOMAIN t.frames}
        \cup {t.images[x] : x \in DOMAIN t.images}
        \cup (IF t.job = None THEN {} ELSE JobRoots(t.job))
=============================================================================
