----------------------------- MODULE EngineProofs -----------------------------
(***************************************************************************)
(* What Engine.tla promises, for any prepared programs and any worlds.     *)
(*                                                                         *)
(* A search reads a graph that may be long out of date, waits for the lane *)
(* behind any number of others, and then checks its match again, head by   *)
(* head, on a state it has read once.  That this is enough needs           *)
(*    Structure   where the tasks are; one past its acquire owns the lane, *)
(*    LaneInv     the invariant of Lane, on the queue and the FIFO,        *)
(*    Knowledge   what a task knows of an older graph still holds of the   *)
(*                present one; and nobody but the owner of the lane        *)
(*                changes the state, so what a commit has checked of the   *)
(*                state it read (Committing) is true of the state it will  *)
(*                replace,                                                 *)
(*    Traces      what every application has left in the state.            *)
(* Every action of the engine keeps the first three: one lemma for each,   *)
(* from those on the ways a dispatch ends (RequeueKeeps, ReleasingKeeps,   *)
(* FinishKeeps, AcquireKeeps), which also show that it is a step of Lane.  *)
(* The fourth, and what is promised of applications, is then a matter of   *)
(* one action, CommitApplied.                                              *)
(*                                                                         *)
(* That the engine implements Certificate.tla, and that an answer is final,*)
(* needs Rows: each task's scope is its row of the pending root and what   *)
(* it has left to do lies within it (WorkRows), the certificate's phase    *)
(* says what it has frozen and whether it waits for the lane (ReadyRows),  *)
(* and the answers are those of published worlds (AnswerRows); with them   *)
(* goes the invariant of Certificate itself.  Each action keeps it and is  *)
(* a step of Certificate or a stutter: one lemma for each again.           *)
(***************************************************************************)
EXTENDS Engine, WellFoundedInduction, TLAPS

L == INSTANCE LaneProofs WITH
    Task <- TaskId,
    Scalar <- {Completion},
    waiting <- [i \in DOMAIN waiting |-> waiting[i].id],
    flag <- [s \in {Completion} |-> queued],
    runnable <- {queue[i].id : i \in DOMAIN queue}

(* The views of Certificate.tla.                                           *)
Failing == [t \in TaskId |-> FailJob(t, "cond")]
Captured == [t \in TaskId |-> FailJob(t, "act")]
Delivering == observer # None \/ output # None

(* SteppingProofs holds the proofs about Certificate; nothing is stepped.  *)
C == INSTANCE SteppingProofs WITH
    Task <- TaskId,
    failing <- Failing,
    captured <- Captured,
    ready <- ReadyView,
    delivering <- Delivering,
    Selections <- {},
    stepping <- FALSE,
    step <- {},
    canceled <- FALSE,
    chosen <- {},
    hits <- 0

-----------------------------------------------------------------------------
(* Sequences of records with an id.                                        *)

Elems(s) == {s[i] : i \in DOMAIN s}
Ids(s) == {s[i].id : i \in DOMAIN s}
IsSeq(s) == s \in Seq(Elems(s))
IdsDistinct(s) == \A i, j \in DOMAIN s : s[i].id = s[j].id => i = j
IdsOf(s) == [i \in DOMAIN s |-> s[i].id]

(* A sequence after another.                                               *)
LEMMA CatIs ==
    ASSUME NEW s, NEW t, IsSeq(s), IsSeq(t)
    PROVE  /\ IsSeq(s \o t)
           /\ Elems(s \o t) = Elems(s) \cup Elems(t)
           /\ Ids(s \o t) = Ids(s) \cup Ids(t)
           /\ IdsDistinct(s) /\ IdsDistinct(t) /\ Ids(s) \cap Ids(t) = {}
                 => IdsDistinct(s \o t)
<1> DEFINE S == Elems(s) \cup Elems(t)
           u == s \o t
<1>1. s \in Seq(S) /\ t \in Seq(S)
    BY DEF IsSeq
<1>2. /\ u \in Seq(S) /\ Len(u) = Len(s) + Len(t) /\ Len(s) \in Nat /\ Len(t) \in Nat
      /\ DOMAIN s = 1 .. Len(s) /\ DOMAIN t = 1 .. Len(t) /\ DOMAIN u = 1 .. Len(u)
    BY <1>1
<1>3. /\ \A i \in DOMAIN s : i \in DOMAIN u /\ u[i] = s[i]
      /\ \A i \in DOMAIN t : Len(s) + i \in DOMAIN u /\ u[Len(s) + i] = t[i]
    BY <1>1, <1>2
<1>4. \A i \in DOMAIN u : i \in DOMAIN s \/ (i - Len(s) \in DOMAIN t /\ i = Len(s) + (i - Len(s)))
    BY <1>2
<1> HIDE DEF u
<1>5. Elems(u) = S
    BY <1>3, <1>4 DEF Elems
<1>6. IsSeq(u)
    BY <1>2, <1>5 DEF IsSeq
<1>7. Ids(u) = Ids(s) \cup Ids(t)
    BY <1>3, <1>4 DEF Ids
<1>8. ASSUME IdsDistinct(s), IdsDistinct(t), Ids(s) \cap Ids(t) = {}
      PROVE  IdsDistinct(u)
  <2>1. ASSUME NEW i \in DOMAIN u, NEW j \in DOMAIN u, u[i].id = u[j].id
        PROVE  i = j
    <3>1. CASE i \in DOMAIN s /\ j \in DOMAIN s
      BY <1>3, <1>8, <2>1, <3>1 DEF IdsDistinct
    <3>2. CASE i \in DOMAIN s /\ j \notin DOMAIN s
      BY <1>3, <1>4, <1>8, <2>1, <3>2 DEF Ids
    <3>3. CASE i \notin DOMAIN s /\ j \in DOMAIN s
      BY <1>3, <1>4, <1>8, <2>1, <3>3 DEF Ids
    <3>4. CASE i \notin DOMAIN s /\ j \notin DOMAIN s
      <4>1. /\ t[i - Len(s)].id = t[j - Len(s)].id
            /\ i - Len(s) \in DOMAIN t /\ j - Len(s) \in DOMAIN t
        BY <1>3, <1>4, <2>1, <3>4
      <4>2. i - Len(s) = j - Len(s)
        BY <4>1, <1>8 DEF IdsDistinct
      <4>3. QED
        BY <4>2, <1>2
    <3>5. QED
      BY <3>1, <3>2, <3>3, <3>4
  <2>2. QED
    BY <2>1 DEF IdsDistinct
<1>9. QED
    BY <1>5, <1>6, <1>7, <1>8 DEF u

(* None and one.                                                           *)
LEMMA EmptyIs ==
    /\ IsSeq(<<>>) /\ Elems(<<>>) = {} /\ Ids(<<>>) = {} /\ IdsDistinct(<<>>)
    /\ \A s : IsSeq(s) => s \o <<>> = s
<1>1. IsSeq(<<>>) /\ Elems(<<>>) = {} /\ Ids(<<>>) = {} /\ IdsDistinct(<<>>)
    BY DEF IsSeq, Elems, Ids, IdsDistinct
<1>2. ASSUME NEW s, IsSeq(s) PROVE s \o <<>> = s
    BY <1>2 DEF IsSeq
<1>3. QED
    BY <1>1, <1>2

(* A sequence of one element.                                              *)
LEMMA OneIs ==
    ASSUME NEW x
    PROVE  IsSeq(<<x>>) /\ Elems(<<x>>) = {x} /\ Ids(<<x>>) = {x.id} /\ IdsDistinct(<<x>>)
BY DEF IsSeq, Elems, Ids, IdsDistinct

(* Append, as a concatenation.                                             *)
LEMMA AppendIs ==
    ASSUME NEW s, NEW x, IsSeq(s)
    PROVE  Append(s, x) = s \o <<x>>
<1>1. s \in Seq(Elems(s) \cup {x})
    BY DEF IsSeq
<1>2. QED
    BY <1>1

(* A sequence without its head.                                            *)
LEMMA TailIs ==
    ASSUME NEW s, IsSeq(s), s # <<>>
    PROVE  /\ IsSeq(Tail(s))
           /\ Elems(s) = {Head(s)} \cup Elems(Tail(s))
           /\ Ids(s) = {Head(s).id} \cup Ids(Tail(s))
           /\ IdsDistinct(s) => IdsDistinct(Tail(s)) /\ Head(s).id \notin Ids(Tail(s))
<1> DEFINE t == Tail(s)
<1>1. /\ s \in Seq(Elems(s)) /\ Len(s) \in Nat /\ Len(s) # 0 /\ Len(t) = Len(s) - 1
      /\ t \in Seq(Elems(s))
      /\ DOMAIN s = 1 .. Len(s) /\ DOMAIN t = 1 .. Len(t)
    BY DEF IsSeq
<1>2. \A i \in DOMAIN t : i + 1 \in DOMAIN s /\ t[i] = s[i + 1]
    BY <1>1
<1>3. 1 \in DOMAIN s /\ Head(s) = s[1]
    BY <1>1
<1>4. \A i \in DOMAIN s : i # 1 => i - 1 \in DOMAIN t /\ s[i] = t[i - 1]
    BY <1>1, <1>2
<1> HIDE DEF t
<1>5. Elems(s) = {Head(s)} \cup Elems(t) /\ Ids(s) = {Head(s).id} \cup Ids(t)
    BY <1>2, <1>3, <1>4 DEF Elems, Ids
<1>6. IsSeq(t)
  <2>1. \A i \in DOMAIN t : t[i] \in Elems(t)
    BY DEF Elems
  <2>2. t \in Seq(Elems(t))
    BY <1>1, <2>1
  <2>3. QED
    BY <2>2 DEF IsSeq
<1>7. ASSUME IdsDistinct(s) PROVE IdsDistinct(t) /\ Head(s).id \notin Ids(t)
  <2>1. IdsDistinct(t)
    BY <1>1, <1>2, <1>7 DEF IdsDistinct
  <2>2. \A i \in DOMAIN t : i + 1 # 1
    BY <1>1
  <2>3. Head(s).id \notin Ids(t)
    BY <1>2, <1>3, <2>2, <1>7 DEF IdsDistinct, Ids
  <2>4. QED
    BY <2>1, <2>3
<1>8. QED
    BY <1>5, <1>6, <1>7 DEF t

(* The ids of a sequence, as the sequence that Lane.tla has.               *)
LEMMA IdsOfIs ==
    ASSUME NEW s, IsSeq(s)
    PROVE  /\ IdsOf(s) \in Seq(Ids(s))
           /\ {IdsOf(s)[i] : i \in DOMAIN IdsOf(s)} = Ids(s)
           /\ IdsOf(s) = <<>> <=> s = <<>>
           /\ \A x : IdsOf(Append(s, x)) = Append(IdsOf(s), x.id)
           /\ s # <<>> => /\ IdsOf(Tail(s)) = Tail(IdsOf(s))
                          /\ Head(IdsOf(s)) = Head(s).id
           /\ (\A i, j \in DOMAIN IdsOf(s) : IdsOf(s)[i] = IdsOf(s)[j] => i = j)
                 <=> IdsDistinct(s)
<1>1. s \in Seq(Elems(s)) /\ DOMAIN s = 1 .. Len(s) /\ Len(s) \in Nat
    BY DEF IsSeq
<1>2. /\ DOMAIN IdsOf(s) = 1 .. Len(s)
      /\ \A i \in 1 .. Len(s) : IdsOf(s)[i] = s[i].id /\ s[i].id \in Ids(s)
    BY <1>1 DEF IdsOf, Ids
<1>3. IdsOf(s) \in Seq(Ids(s)) /\ Len(IdsOf(s)) = Len(s)
    BY <1>1, <1>2 DEF IdsOf
<1>4. {IdsOf(s)[i] : i \in DOMAIN IdsOf(s)} = Ids(s)
    BY <1>1, <1>2 DEF Ids
<1>5. IdsOf(s) = <<>> <=> s = <<>>
    BY <1>1, <1>3
<1>6. ASSUME NEW x PROVE IdsOf(Append(s, x)) = Append(IdsOf(s), x.id)
  <2> DEFINE t == Append(s, x)
             u == Append(IdsOf(s), x.id)
  <2>1. s \in Seq(Elems(s) \cup {x}) /\ IdsOf(s) \in Seq(Ids(s) \cup {x.id})
    BY <1>1, <1>3
  <2>2. /\ DOMAIN t = 1 .. Len(s) + 1 /\ DOMAIN u = 1 .. Len(s) + 1
        /\ t[Len(s) + 1] = x /\ u[Len(s) + 1] = x.id
        /\ \A i \in 1 .. Len(s) : t[i] = s[i] /\ u[i] = IdsOf(s)[i]
    BY <2>1, <1>3
  <2>3. u \in Seq(Ids(s) \cup {x.id})
    BY <2>1
  <2> HIDE DEF t, u
  <2>4. \A i \in 1 .. Len(s) + 1 : u[i] = t[i].id
    <3>1. \A i \in 1 .. Len(s) + 1 : i \in 1 .. Len(s) \/ i = Len(s) + 1
      BY <1>1
    <3>2. QED
      BY <2>2, <3>1, <1>2
  <2>5. u = [i \in 1 .. Len(s) + 1 |-> t[i].id]
    BY <2>2, <2>3, <2>4
  <2>6. QED
    BY <2>2, <2>5 DEF IdsOf, t, u
<1>7. ASSUME s # <<>>
      PROVE  IdsOf(Tail(s)) = Tail(IdsOf(s)) /\ Head(IdsOf(s)) = Head(s).id
  <2> DEFINE t == Tail(s)
             u == Tail(IdsOf(s))
  <2>1. /\ Len(s) # 0
        /\ DOMAIN t = 1 .. Len(s) - 1 /\ DOMAIN u = 1 .. Len(s) - 1
        /\ \A i \in 1 .. Len(s) - 1 : t[i] = s[i + 1] /\ u[i] = IdsOf(s)[i + 1]
        /\ u \in Seq(Ids(s))
    BY <1>1, <1>3, <1>7
  <2>2. Head(s) = s[1] /\ Head(IdsOf(s)) = IdsOf(s)[1] /\ 1 \in 1 .. Len(s)
    BY <1>1, <1>3, <2>1
  <2> HIDE DEF t, u
  <2>3. \A i \in 1 .. Len(s) - 1 : u[i] = t[i].id
    BY <1>1, <1>2, <2>1
  <2>4. u = [i \in 1 .. Len(s) - 1 |-> t[i].id]
    BY <2>1, <2>3
  <2>5. QED
    BY <1>2, <2>1, <2>2, <2>4 DEF IdsOf, t, u
<1>8. (\A i, j \in DOMAIN IdsOf(s) : IdsOf(s)[i] = IdsOf(s)[j] => i = j) <=> IdsDistinct(s)
    BY <1>1, <1>2 DEF IdsDistinct
<1>9. QED
    BY <1>3, <1>4, <1>5, <1>6, <1>7, <1>8

-----------------------------------------------------------------------------
(* Where the tasks are.                                                    *)

InitFields == {"kind", "id", "scope", "env"}
BodyFields == {"kind", "id", "scope", "ins", "env", "cond", "phase", "index", "end",
               "choice", "base", "act"}
ActivateFields == {"kind", "id", "scope", "graph", "occ", "cond", "triggers"}
SearchFields == {"kind", "id", "scope", "rule", "found", "candidate", "transport", "commit"}
WakeFields == {"kind", "id", "scope", "graph", "found"}
ReadyFields == {"phase", "rows", "row", "blocked", "scope", "act"}

(* A task has the fields of its kind, and an identity given before.        *)
Shaped(t) ==
    \/ t.kind = "Init" /\ DOMAIN t = InitFields
    \/ t.kind = "Body" /\ DOMAIN t = BodyFields
    \/ t.kind = "Activate" /\ DOMAIN t = ActivateFields
    \/ t.kind = "Search" /\ DOMAIN t = SearchFields /\ t.transport \in BOOLEAN
    \/ t.kind = "Wake" /\ DOMAIN t = WakeFields

Task(t) == Shaped(t) /\ t.id \in 1 .. next.task - 1

(* A task that is past its acquire owns the lane.                          *)
Owning(t) ==
    \/ t.kind = "Body" /\ t.phase \in {"Filter", "Apply", "Post", "Merge", "Fail", "Choice",
                                       "Left", "Right"}
    \/ t.kind = "Search" /\ (t.transport = TRUE \/ t.commit # None)

Structure ==
    /\ program \in Programs
    /\ IsSeq(queue) /\ IsSeq(waiting) /\ IdsDistinct(queue)
    /\ DOMAIN next = {"task", "var"} /\ next.task \in 2 .. MaxTask + 1
    /\ \A t \in Elems(queue) : Task(t) /\ (Owning(t) => lane = t.id)
    /\ \A t \in Elems(waiting) : t.id = Completion \/ (Task(t) /\ ~Owning(t))
    /\ DOMAIN ready = ReadyFields
    /\ ready.phase \in {"Transport", "Filter", "Publish"} => lane = Completion
    /\ queued \in BOOLEAN

LaneInv == L!Inv

(* What Lane's invariant says of the engine.                               *)
LEMMA LaneSays ==
    ASSUME Structure
    PROVE  LaneInv <=>
              /\ lane \in TaskId \cup {Completion, Free}
              /\ IdsDistinct(waiting) /\ Ids(waiting) \subseteq TaskId \cup {Completion}
              /\ Ids(queue) \subseteq TaskId
              /\ Ids(waiting) \cap Ids(queue) = {}
              /\ queued <=> Completion \in Ids(waiting)
              /\ lane = Free => waiting = <<>>
              /\ lane \notin Ids(waiting)
              /\ lane \in TaskId => lane \in Ids(queue)
<1> DEFINE W == IdsOf(waiting)
<1>1. /\ W \in Seq(Ids(waiting))
      /\ {W[i] : i \in DOMAIN W} = Ids(waiting)
      /\ W = <<>> <=> waiting = <<>>
      /\ (\A i, j \in DOMAIN W : W[i] = W[j] => i = j) <=> IdsDistinct(waiting)
    BY IdsOfIs DEF Structure
<1>2. W = [i \in DOMAIN waiting |-> waiting[i].id]
    BY DEF IdsOf
<1>3. Ids(queue) = {queue[i].id : i \in DOMAIN queue}
    BY DEF Ids
<1> HIDE DEF W
<1>4. W \in Seq(TaskId \cup {Completion}) <=> Ids(waiting) \subseteq TaskId \cup {Completion}
  <2>1. ASSUME W \in Seq(TaskId \cup {Completion})
        PROVE  Ids(waiting) \subseteq TaskId \cup {Completion}
    <3>1. \A i \in DOMAIN W : W[i] \in TaskId \cup {Completion}
      BY <2>1
    <3>2. QED
      BY <3>1, <1>1
  <2>2. ASSUME Ids(waiting) \subseteq TaskId \cup {Completion}
        PROVE  W \in Seq(TaskId \cup {Completion})
    BY <1>1, <2>2
  <2>3. QED
    BY <2>1, <2>2
<1>5. L!Waiters = Ids(waiting)
    BY <1>1, <1>2 DEF L!Waiters
<1>6. L!TypeOK <=> /\ lane \in TaskId \cup {Completion, Free}
                   /\ Ids(waiting) \subseteq TaskId \cup {Completion}
                   /\ Ids(queue) \subseteq TaskId
  <2>1. [s \in {Completion} |-> queued] \in [{Completion} -> BOOLEAN]
    BY DEF Structure
  <2>2. L!TypeOK <=> /\ lane \in TaskId \cup {Completion, Free}
                     /\ W \in Seq(TaskId \cup {Completion})
                     /\ Ids(queue) \in SUBSET TaskId
    BY <1>2, <1>3, <2>1 DEF L!TypeOK, L!Owner
  <2>3. QED
    BY <1>4, <2>2
<1>7. L!OneEntry <=> /\ IdsDistinct(waiting)
                     /\ Ids(waiting) \cap Ids(queue) = {}
                     /\ queued <=> Completion \in Ids(waiting)
  <2>1. \A s \in {Completion} : [r \in {Completion} |-> queued][s] = queued
    OBVIOUS
  <2>2. L!OneEntry <=> /\ \A i, j \in DOMAIN W : W[i] = W[j] => i = j
                       /\ Ids(waiting) \cap Ids(queue) = {}
                       /\ \A s \in {Completion} : queued <=> s \in Ids(waiting)
    BY <1>2, <1>3, <1>5, <2>1 DEF L!OneEntry
  <2>3. QED
    BY <1>1, <2>2
<1>8. L!OwnerRuns <=> /\ lane = Free => waiting = <<>>
                      /\ lane \notin Ids(waiting)
                      /\ lane \in TaskId => lane \in Ids(queue)
    BY <1>1, <1>2, <1>3, <1>5 DEF L!OwnerRuns
<1>9. QED
    BY <1>6, <1>7, <1>8 DEF LaneInv, L!Inv

LaneStep == [L!Next]_L!vars

(* At most one child is spawned at a time, with the next identity.         *)
NextKids(kids) == kids = <<>> \/ \E k : kids = <<k>> /\ k.id = next.task

(* Identities given are tasks; what fits gets one that is.                 *)
LEMMA TaskIds ==
    ASSUME Structure
    PROVE  /\ next.task \in Nat
           /\ 1 .. next.task - 1 \subseteq TaskId
           /\ Completion \notin TaskId /\ Free \notin TaskId /\ Completion # Free
           /\ \A kids : NextKids(kids) /\ Fits(kids) /\ kids # <<>>
                 => next.task \in TaskId /\ next.task < MaxTask + 1
<1>1. /\ MaxTask \in Nat /\ program.tasks \in 1 .. MaxTask /\ next.task \in 2 .. MaxTask + 1
    BY EngineBounds DEF Structure
<1>2. ASSUME NEW kids, NextKids(kids), Fits(kids), kids # <<>>
      PROVE  next.task \in TaskId /\ next.task < MaxTask + 1
  <2>1. Len(kids) = 1
    BY <1>2 DEF NextKids
  <2>2. next.task + 1 <= program.tasks + 1
    BY <1>2, <2>1 DEF Fits
  <2>3. QED
    BY <1>1, <2>2 DEF TaskId
<1>3. QED
    BY <1>1, <1>2, EngineOwnersDistinct DEF TaskId

(* The task at the front of the queue.                                     *)
LEMMA FrontIs ==
    ASSUME Structure, LaneInv, queue # <<>>
    PROVE  /\ current \in Elems(queue) /\ Task(current) /\ current.id \in TaskId
           /\ Owning(current) => lane = current.id
           /\ current.id \notin Ids(Tail(queue)) \cup Ids(waiting)
           /\ IsSeq(Tail(queue)) /\ IdsDistinct(Tail(queue))
           /\ Elems(queue) = {current} \cup Elems(Tail(queue))
           /\ Ids(queue) = {current.id} \cup Ids(Tail(queue))
           /\ Ids(queue) \cap Ids(waiting) = {}
           /\ next.task \in TaskId => next.task \notin Ids(queue) \cup Ids(waiting)
           /\ \A t \in Elems(Tail(queue)) :
                 Task(t) /\ t.id # current.id /\ t.id \in TaskId /\ (Owning(t) => lane = t.id)
<1>1. /\ IsSeq(Tail(queue)) /\ IdsDistinct(Tail(queue)) /\ current.id \notin Ids(Tail(queue))
      /\ Elems(queue) = {current} \cup Elems(Tail(queue))
      /\ Ids(queue) = {current.id} \cup Ids(Tail(queue))
    BY TailIs DEF Structure, current
<1>2. \A t \in Elems(queue) : t.id \in 1 .. next.task - 1 /\ t.id \in TaskId
    BY TaskIds DEF Structure, Task
<1>3. \A s : Ids(s) = {t.id : t \in Elems(s)}
    BY DEF Ids, Elems
<1>4. \A t \in Elems(waiting) : t.id = Completion \/ t.id \in 1 .. next.task - 1
    BY DEF Structure, Task
<1>5. next.task \notin 1 .. next.task - 1
    BY EngineBounds DEF Structure
<1>6. next.task \in TaskId => next.task \notin Ids(queue) \cup Ids(waiting)
  <2>1. \A x \in Ids(queue) : x \in 1 .. next.task - 1
    BY <1>2, <1>3
  <2>2. \A x \in Ids(waiting) : x = Completion \/ x \in 1 .. next.task - 1
    BY <1>3, <1>4
  <2>3. QED
    BY <1>5, <2>1, <2>2, TaskIds
<1>7. Ids(waiting) \cap Ids(queue) = {} /\ Ids(waiting) \subseteq TaskId \cup {Completion}
    BY LaneSays
<1>8. Completion \notin TaskId /\ Completion \notin 1 .. next.task - 1
    BY TaskIds
<1>9. \A t \in Elems(Tail(queue)) : t.id \in Ids(Tail(queue))
    BY <1>3
<1>10. QED
    BY <1>1, <1>2, <1>6, <1>7, <1>9 DEF Structure

(* What Lane.tla sees of a state.                                          *)
LEMMA LaneSees ==
    ASSUME Structure
    PROVE  /\ L!Waiters = Ids(waiting)
           /\ [i \in DOMAIN waiting |-> waiting[i].id] = IdsOf(waiting)
           /\ {queue[i].id : i \in DOMAIN queue} = Ids(queue)
           /\ {queue'[i].id : i \in DOMAIN queue'} = Ids(queue')
           /\ [i \in DOMAIN waiting' |-> waiting'[i].id] = IdsOf(waiting')
<1>1. {IdsOf(waiting)[i] : i \in DOMAIN IdsOf(waiting)} = Ids(waiting)
    BY IdsOfIs DEF Structure
<1>2. QED
    BY <1>1 DEF L!Waiters, IdsOf, Ids

(* release_lane puts the resumed task between what it is given.            *)
LEMMA ReleaseIs ==
    ASSUME Structure, LaneInv, NEW before, NEW after, NEW kept \in SUBSET Ids(queue),
           IsSeq(before), IsSeq(after), IdsDistinct(before), IdsDistinct(after),
           Ids(before) \cap Ids(after) = {},
           (Ids(before) \cup Ids(after)) \cap Ids(waiting) = {},
           Ids(before) \cup Ids(after) \subseteq TaskId,
           kept \subseteq Ids(before) \cup Ids(after),
           (Ids(before) \cup Ids(after)) \cap Ids(queue) \subseteq kept,
           ReleaseLane(before, after)
    PROVE  /\ IsSeq(queue') /\ IdsDistinct(queue') /\ IsSeq(waiting') /\ queued' \in BOOLEAN
           /\ Elems(before) \cup Elems(after) \subseteq Elems(queue')
           /\ \A t \in Elems(queue') : \/ t \in Elems(before) \cup Elems(after)
                                       \/ t \in Elems(waiting) /\ t.id # Completion
           /\ Elems(waiting') \subseteq Elems(waiting)
           /\ lane' = Free \/ lane' \in Ids(waiting)
           /\ queued' => queued
           /\ L!ReleaseLane(kept)
<1> USE LaneSees, TaskIds
<1>1. /\ IsSeq(waiting) /\ IdsDistinct(waiting) /\ Ids(waiting) \subseteq TaskId \cup {Completion}
      /\ queued \in BOOLEAN
    BY LaneSays DEF Structure
<1>2. CASE waiting = <<>>
  <2>1. lane' = Free /\ queue' = before \o after /\ waiting' = waiting /\ queued' = queued
    BY <1>2 DEF ReleaseLane
  <2>2. /\ IsSeq(queue') /\ Elems(queue') = Elems(before) \cup Elems(after)
        /\ Ids(queue') = Ids(before) \cup Ids(after) /\ IdsDistinct(queue')
    BY <2>1, CatIs
  <2>3. IdsOf(waiting) = <<>>
    BY <1>1, <1>2, IdsOfIs
  <2>4. Ids(waiting) = {}
    BY <1>2, EmptyIs
  <2>5. L!Keep(kept)
    BY <2>2, <2>4 DEF L!Keep
  <2>6. L!ReleaseLane(kept)
    BY <2>1, <2>3, <2>5 DEF L!ReleaseLane
  <2>7. QED
    BY <1>1, <2>1, <2>2, <2>6
<1>3. CASE waiting # <<>>
  <2> DEFINE entry == Head(waiting)
             mid == IF entry.id = Completion THEN <<>> ELSE <<entry>>
             front == before \o mid
  <2>1. /\ lane' = entry.id /\ waiting' = Tail(waiting)
        /\ queued' = (queued /\ entry.id # Completion)
        /\ queue' = front \o after
    BY <1>3 DEF ReleaseLane
  <2>2. /\ IsSeq(waiting') /\ Elems(waiting) = {entry} \cup Elems(waiting')
        /\ Ids(waiting) = {entry.id} \cup Ids(waiting')
    BY <1>1, <1>3, <2>1, TailIs
  <2>3. /\ IsSeq(mid) /\ IdsDistinct(mid)
        /\ Elems(mid) = IF entry.id = Completion THEN {} ELSE {entry}
        /\ Ids(mid) = {entry.id} \ {Completion}
    <3>1. CASE entry.id = Completion
      <4>1. mid = <<>>
        BY <3>1
      <4>2. QED
        BY ONLY <3>1, <4>1, EmptyIs
    <3>2. CASE entry.id # Completion
      <4>1. mid = <<entry>>
        BY <3>2
      <4>2. QED
        BY ONLY <3>2, <4>1, OneIs
    <3>3. QED
      BY <3>1, <3>2
  <2> HIDE DEF mid
  <2>4. /\ IsSeq(front) /\ IdsDistinct(front)
        /\ Elems(front) = Elems(before) \cup Elems(mid)
        /\ Ids(front) = Ids(before) \cup Ids(mid)
    BY <2>2, <2>3, CatIs
  <2> HIDE DEF front
  <2>5. /\ IsSeq(queue') /\ IdsDistinct(queue')
        /\ Elems(queue') = Elems(front) \cup Elems(after)
        /\ Ids(queue') = Ids(front) \cup Ids(after)
    BY <2>1, <2>2, <2>3, <2>4, CatIs
  <2>6. /\ IdsOf(waiting) # <<>>
        /\ Head(IdsOf(waiting)) = entry.id
        /\ Tail(IdsOf(waiting)) = IdsOf(waiting')
    BY <1>1, <1>3, <2>1, IdsOfIs
  <2> HIDE DEF entry
  <2>7. L!Resumed(entry.id) = Ids(mid)
    BY <1>1, <2>2, <2>3 DEF L!Resumed
  <2>8. L!Keep(kept \cup L!Resumed(entry.id))
    <3>1. Ids(queue') = Ids(before) \cup Ids(after) \cup Ids(mid)
      BY <2>4, <2>5
    <3>2. Ids(mid) \subseteq TaskId
      BY <1>1, <2>2, <2>3
    <3>3. QED
      BY <2>7, <3>1, <3>2 DEF L!Keep
  <2>9. [s \in {Completion} |-> queued'] =
           [s \in {Completion} |-> [r \in {Completion} |-> queued][s] /\ s # entry.id]
    BY <2>1
  <2>10. L!ReleaseLane(kept)
    <3> DEFINE W == [i \in DOMAIN waiting |-> waiting[i].id]
               V == [i \in DOMAIN waiting' |-> waiting'[i].id]
    <3>1. W # <<>> /\ Head(W) = entry.id /\ V = Tail(W)
      BY <2>6, LaneSees
    <3>2. L!Resumed(entry.id) = L!Resumed(Head(W))
      BY <3>1
    <3>5. lane' = Head(W) /\ L!Keep(kept \cup L!Resumed(Head(W)))
      BY <2>1, <2>8, <3>1, <3>2 DEF L!Keep
    <3>3. [s \in {Completion} |-> queued'] =
             [s \in {Completion} |-> [r \in {Completion} |-> queued][s] /\ s # Head(W)]
      BY <2>9, <3>1
    <3>4. QED
      BY ONLY <3>1, <3>5, <3>3 DEF L!ReleaseLane
  <2>11. Elems(queue') = Elems(before) \cup Elems(after) \cup Elems(mid)
    BY <2>4, <2>5
  <2>12. \A t \in Elems(mid) : t \in Elems(waiting) /\ t.id # Completion
    BY <2>2, <2>3
  <2>13. lane' \in Ids(waiting) /\ Elems(waiting') \subseteq Elems(waiting)
    BY <2>1, <2>2
  <2>14. queued' \in BOOLEAN /\ (queued' => queued)
    BY <1>1, <2>1
  <2>15. QED
    BY <2>2, <2>5, <2>10, <2>11, <2>12, <2>13, <2>14
<1>4. QED
    BY <1>2, <1>3

(* A dispatch: the task at the front is replaced by the tasks `new', is    *)
(* parked, or gone; others are as they were or come from the FIFO.         *)
Dispatched(new) ==
    /\ IsSeq(queue') /\ IdsDistinct(queue') /\ IsSeq(waiting') /\ queued' \in BOOLEAN
    /\ new \subseteq Elems(queue')
    /\ \A t \in Elems(queue') :
          \/ t \in new
          \/ t \in Elems(Tail(queue)) /\ (Owning(t) => lane' = t.id)
          \/ t \in Elems(waiting) /\ t.id # Completion
    /\ \A t \in Elems(waiting') : t \in Elems(waiting) \/ (t = current /\ lane # t.id)
    /\ lane' = lane \/ lane \in {current.id, Free}
    /\ LaneStep

(* The elements and identities of at most one child.                       *)
LEMMA ChildIs ==
    ASSUME Structure, LaneInv, queue # <<>>, NEW kids, NextKids(kids),
           kids = <<>> \/ Fits(kids)
    PROVE  /\ IsSeq(kids) /\ IdsDistinct(kids)
           /\ Ids(kids) \subseteq TaskId \cap {next.task}
           /\ Ids(kids) \cap (Ids(queue) \cup Ids(waiting)) = {}
           /\ IsSeq(Tail(queue) \o kids) /\ IdsDistinct(Tail(queue) \o kids)
           /\ Elems(Tail(queue) \o kids) = Elems(Tail(queue)) \cup Elems(kids)
           /\ Ids(Tail(queue) \o kids) = Ids(Tail(queue)) \cup Ids(kids)
<1>1. /\ IsSeq(kids) /\ IdsDistinct(kids) /\ Ids(kids) \subseteq {next.task}
      /\ kids = <<>> => Ids(kids) = {}
    BY EmptyIs, OneIs DEF NextKids
<1>2. kids # <<>> => next.task \in TaskId
    BY TaskIds
<1>3. Ids(kids) \cap (Ids(queue) \cup Ids(waiting)) = {}
    BY <1>1, <1>2, FrontIs
<1>4. Ids(kids) \cap Ids(Tail(queue)) = {} /\ IsSeq(Tail(queue)) /\ IdsDistinct(Tail(queue))
    BY <1>3, FrontIs
<1>5. QED
    BY <1>1, <1>2, <1>3, <1>4, CatIs

(* It goes on, with a child.                                               *)
LEMMA RequeueIs ==
    ASSUME Structure, LaneInv, queue # <<>>, NEW kids, NEW task, NextKids(kids),
           kids = <<>> \/ Fits(kids), task.id = current.id,
           queue' = Tail(queue) \o kids \o <<task>>, UNCHANGED laneVars
    PROVE  Dispatched(Elems(kids) \cup {task})
<1> DEFINE front == Tail(queue) \o kids
<1>1. /\ IsSeq(front) /\ IdsDistinct(front)
      /\ Elems(front) = Elems(Tail(queue)) \cup Elems(kids)
      /\ Ids(front) = Ids(Tail(queue)) \cup Ids(kids)
      /\ Ids(kids) \subseteq TaskId
      /\ Ids(kids) \cap (Ids(queue) \cup Ids(waiting)) = {}
    BY ChildIs
<1>2. queue' = front \o <<task>>
    OBVIOUS
<1> HIDE DEF front
<1>3. /\ current.id \notin Ids(Tail(queue)) /\ Ids(queue) = {current.id} \cup Ids(Tail(queue))
      /\ current.id \in Ids(queue) /\ current.id \in TaskId
      /\ \A t \in Elems(Tail(queue)) : Owning(t) => lane = t.id
    BY FrontIs
<1>4. task.id \notin Ids(front)
    BY <1>1, <1>3
<1>5. IsSeq(<<task>>) /\ Elems(<<task>>) = {task} /\ Ids(<<task>>) = {task.id} /\ IdsDistinct(<<task>>)
    BY OneIs
<1>10. Ids(front) \cap Ids(<<task>>) = {}
    BY <1>4, <1>5
<1>6. /\ IsSeq(queue') /\ IdsDistinct(queue')
      /\ Elems(queue') = Elems(front) \cup {task}
      /\ Ids(queue') = Ids(front) \cup {task.id}
    BY ONLY <1>1, <1>2, <1>10, <1>5, CatIs
<1>7. /\ lane' = lane /\ waiting' = waiting /\ queued' = queued
      /\ IsSeq(waiting') /\ queued' \in BOOLEAN
    BY DEF laneVars, Structure
<1>8. LaneStep
  <2>1. Ids(queue') = Ids(queue) \cup Ids(kids)
    BY <1>1, <1>3, <1>6
  <2>2. L!Keep(Ids(queue))
    BY <1>1, <2>1, LaneSees DEF L!Keep
  <2>3. L!Spawn
    BY <1>3, <1>7, <2>2, LaneSees DEF L!Spawn, L!Keep
  <2>4. QED
    BY <2>3 DEF LaneStep, L!Next
<1>9. QED
    BY <1>1, <1>3, <1>6, <1>7, <1>8 DEF Dispatched

(* Its own work is done, and it gives the lane away.                       *)
LEMMA RequeueReleasingIs ==
    ASSUME Structure, LaneInv, queue # <<>>, NEW kids, NEW task, NextKids(kids),
           task.id = current.id, lane = current.id,
           RequeueReleasing(task, kids)
    PROVE  Dispatched(Elems(kids) \cup {task})
<1> DEFINE front == Tail(queue) \o kids
<1>1. Fits(kids) /\ ReleaseLane(front, <<task>>)
    BY DEF RequeueReleasing, Admit
<1>2. /\ IsSeq(front) /\ IdsDistinct(front)
      /\ Elems(front) = Elems(Tail(queue)) \cup Elems(kids)
      /\ Ids(front) = Ids(Tail(queue)) \cup Ids(kids)
      /\ Ids(kids) \subseteq TaskId
      /\ Ids(kids) \cap (Ids(queue) \cup Ids(waiting)) = {}
    BY <1>1, ChildIs
<1> HIDE DEF front
<1>3. /\ current.id \notin Ids(Tail(queue)) /\ Ids(queue) = {current.id} \cup Ids(Tail(queue))
      /\ current.id \in Ids(queue) /\ current.id \in TaskId
      /\ Ids(queue) \cap Ids(waiting) = {}
      /\ \A t \in Elems(Tail(queue)) : t.id # current.id /\ (Owning(t) => lane = t.id)
    BY FrontIs
<1>4. IsSeq(<<task>>) /\ Elems(<<task>>) = {task} /\ Ids(<<task>>) = {task.id} /\ IdsDistinct(<<task>>)
    BY OneIs
<1>5. Ids(queue) \subseteq TaskId
    BY LaneSays
<1>6. Ids(front) \cup Ids(<<task>>) = Ids(queue) \cup Ids(kids) /\ Ids(front) \cap Ids(<<task>>) = {}
    BY <1>2, <1>3, <1>4
<1>7. PICK kept, before :
         kept = Ids(queue) /\ before = front
    OBVIOUS
<1>11. /\ IsSeq(queue') /\ IdsDistinct(queue') /\ IsSeq(waiting') /\ queued' \in BOOLEAN
       /\ Elems(before) \cup Elems(<<task>>) \subseteq Elems(queue')
       /\ \A t \in Elems(queue') : \/ t \in Elems(before) \cup Elems(<<task>>)
                                   \/ t \in Elems(waiting) /\ t.id # Completion
       /\ Elems(waiting') \subseteq Elems(waiting)
       /\ queued' => queued
       /\ L!ReleaseLane(kept)
  <2>1. kept \in SUBSET Ids(queue) /\ kept \subseteq Ids(before) \cup Ids(<<task>>)
    BY <1>6, <1>7
  <2>2. /\ (Ids(before) \cup Ids(<<task>>)) \cap Ids(waiting) = {}
        /\ Ids(before) \cup Ids(<<task>>) \subseteq TaskId
        /\ (Ids(before) \cup Ids(<<task>>)) \cap Ids(queue) \subseteq kept
    BY <1>2, <1>3, <1>5, <1>6, <1>7
  <2>3. /\ IsSeq(before) /\ IdsDistinct(before) /\ Ids(before) \cap Ids(<<task>>) = {}
        /\ ReleaseLane(before, <<task>>)
    BY <1>1, <1>2, <1>6, <1>7
  <2>6. QED
    BY ONLY Structure, LaneInv, <1>4, <2>1, <2>2, <2>3, ReleaseIs
<1>8. L!Release
    BY <1>3, <1>7, <1>11, LaneSees DEF L!Release, L!ReleaseLane, L!Keep
<1>9. LaneStep
    BY <1>8 DEF LaneStep, L!Next
<1>10. QED
    BY <1>2, <1>3, <1>4, <1>7, <1>9, <1>11 DEF Dispatched

(* It is done.                                                             *)
LEMMA FinishIs ==
    ASSUME Structure, LaneInv, queue # <<>>, NEW kids, NextKids(kids), Finish(kids)
    PROVE  Dispatched(Elems(kids))
<1> DEFINE front == Tail(queue) \o kids
<1>1. Fits(kids)
    BY DEF Finish, Admit
<1>2. /\ IsSeq(front) /\ IdsDistinct(front)
      /\ Elems(front) = Elems(Tail(queue)) \cup Elems(kids)
      /\ Ids(front) = Ids(Tail(queue)) \cup Ids(kids)
      /\ Ids(kids) \subseteq TaskId
      /\ Ids(kids) \cap (Ids(queue) \cup Ids(waiting)) = {}
    BY <1>1, ChildIs
<1>3. /\ lane = current.id => ReleaseLane(front, <<>>)
      /\ lane # current.id => queue' = front /\ UNCHANGED laneVars
    BY DEF Finish
<1> HIDE DEF front
<1>4. /\ current.id \notin Ids(Tail(queue)) /\ Ids(queue) = {current.id} \cup Ids(Tail(queue))
      /\ current.id \in Ids(queue) /\ current.id \in TaskId
      /\ Ids(queue) \cap Ids(waiting) = {}
      /\ \A t \in Elems(Tail(queue)) : t.id # current.id /\ (Owning(t) => lane = t.id)
    BY FrontIs
<1>5. Ids(queue) \subseteq TaskId
    BY LaneSays
<1>6. Ids(front) = (Ids(queue) \ {current.id}) \cup Ids(kids)
    BY <1>2, <1>4
<1>7. CASE lane = current.id
  <2>1. IsSeq(<<>>) /\ Elems(<<>>) = {} /\ Ids(<<>>) = {} /\ IdsDistinct(<<>>)
    BY EmptyIs
  <2>2. PICK kept, before :
           kept = Ids(queue) \ {current.id} /\ before = front
    OBVIOUS
  <2>3. PICK id \in TaskId : id = current.id
    BY <1>4
  <2>7. /\ IsSeq(queue') /\ IdsDistinct(queue') /\ IsSeq(waiting') /\ queued' \in BOOLEAN
        /\ Elems(before) \cup Elems(<<>>) \subseteq Elems(queue')
        /\ \A t \in Elems(queue') : \/ t \in Elems(before) \cup Elems(<<>>)
                                    \/ t \in Elems(waiting) /\ t.id # Completion
        /\ Elems(waiting') \subseteq Elems(waiting)
        /\ queued' => queued
        /\ L!ReleaseLane(kept)
    <3>1. kept \in SUBSET Ids(queue) /\ kept \subseteq Ids(before) \cup Ids(<<>>)
      BY <1>6, <2>2
    <3>2. /\ (Ids(before) \cup Ids(<<>>)) \cap Ids(waiting) = {}
          /\ Ids(before) \cup Ids(<<>>) \subseteq TaskId
          /\ (Ids(before) \cup Ids(<<>>)) \cap Ids(queue) \subseteq kept
      BY <1>2, <1>4, <1>5, <1>6, <2>1, <2>2
    <3>3. /\ IsSeq(before) /\ IdsDistinct(before) /\ Ids(before) \cap Ids(<<>>) = {}
          /\ ReleaseLane(before, <<>>)
      BY <1>2, <1>3, <1>7, <2>1, <2>2
    <3>4. QED
      BY ONLY Structure, LaneInv, <2>1, <3>1, <3>2, <3>3, ReleaseIs
  <2>8. kept = Ids(queue) \ {id}
    BY <2>2, <2>3
  <2>6. L!Finish(id)
    BY <1>4, <1>7, <2>7, <2>8, <2>3, LaneSees DEF L!Finish, L!ReleaseLane, L!Keep
  <2>4. LaneStep
    BY <2>6 DEF LaneStep, L!Next
  <2>5. QED
    BY <1>2, <1>4, <1>7, <2>1, <2>2, <2>7, <2>4 DEF Dispatched
<1>8. CASE lane # current.id
  <2>1. /\ lane' = lane /\ waiting' = waiting /\ queued' = queued /\ queue' = front
        /\ IsSeq(waiting') /\ queued' \in BOOLEAN
    BY <1>3, <1>8 DEF laneVars, Structure
  <2>2. L!Keep(Ids(queue) \ {current.id})
    BY <1>2, <1>5, <1>6, <2>1, LaneSees DEF L!Keep
  <2>3. PICK id \in TaskId : id = current.id
    BY <1>4
  <2>6. L!Finish(id)
    BY <1>4, <1>8, <2>1, <2>2, <2>3, LaneSees DEF L!Finish, L!Keep
  <2>4. LaneStep
    BY <2>6 DEF LaneStep, L!Next
  <2>5. QED
    BY <1>2, <1>4, <2>1, <2>4 DEF Dispatched
<1>9. QED
    BY <1>7, <1>8

(* It asks for the lane: it goes on as `task', or is parked.               *)
LEMMA AcquireIs ==
    ASSUME Structure, LaneInv, queue # <<>>, NEW task, task.id = current.id,
           AcquireAndRequeue(task)
    PROVE  \/ Dispatched({task}) /\ lane' = current.id /\ MayAcquire(current.id)
           \/ Dispatched({}) /\ lane' = lane
<1>1. /\ current.id \notin Ids(Tail(queue)) /\ Ids(queue) = {current.id} \cup Ids(Tail(queue))
      /\ current.id \in Ids(queue) /\ current.id \in TaskId
      /\ IsSeq(Tail(queue)) /\ IdsDistinct(Tail(queue))
      /\ Ids(queue) \cap Ids(waiting) = {}
      /\ \A t \in Elems(Tail(queue)) :
            t.id # current.id /\ t.id \in TaskId /\ (Owning(t) => lane = t.id)
    BY FrontIs
<1>2. /\ IsSeq(waiting) /\ queued \in BOOLEAN /\ Completion \notin TaskId /\ Free \notin TaskId
    BY TaskIds DEF Structure
<1>3. CASE MayAcquire(current.id)
  <2>1. /\ lane' = current.id /\ queue' = Append(Tail(queue), task)
        /\ waiting' = waiting /\ queued' = queued
    BY <1>3 DEF AcquireAndRequeue
  <2>2. queue' = Tail(queue) \o <<task>>
    BY <1>1, <2>1, AppendIs
  <2>3. IsSeq(<<task>>) /\ Elems(<<task>>) = {task} /\ Ids(<<task>>) = {task.id} /\ IdsDistinct(<<task>>)
    BY OneIs
  <2>4. /\ IsSeq(queue') /\ IdsDistinct(queue')
        /\ Elems(queue') = Elems(Tail(queue)) \cup {task}
        /\ Ids(queue') = Ids(Tail(queue)) \cup {task.id}
    BY <1>1, <2>2, <2>3, CatIs
  <2>5. Ids(queue') = Ids(queue)
    BY <1>1, <2>4
  <2>6. LaneStep
    <3>1. CASE lane = current.id
      BY <2>1, <2>5, <3>1, LaneSees DEF LaneStep, L!vars
    <3>2. CASE lane # current.id
      <4>1. lane = Free /\ waiting = <<>>
        BY <1>3, <3>2 DEF MayAcquire
      <4>2. L!Uncontended
        BY <4>1, IdsOfIs, EmptyIs, LaneSees DEF L!Uncontended
      <4>3. L!TaskTake(current.id)
        BY <1>1, <2>1, <2>5, <4>2, LaneSees DEF L!TaskTake
      <4>4. QED
        BY <1>1, <4>3 DEF LaneStep, L!Next
    <3>3. QED
      BY <3>1, <3>2
  <2>7. \A t \in Elems(Tail(queue)) : ~Owning(t)
    BY <1>1, <1>2, <1>3 DEF MayAcquire
  <2>9. lane \in {current.id, Free}
    BY <1>3 DEF MayAcquire
  <2>8. Dispatched({task})
    BY <1>2, <2>1, <2>4, <2>6, <2>7, <2>9 DEF Dispatched
  <2>10. QED
    BY <1>3, <2>1, <2>8
<1>4. CASE ~MayAcquire(current.id)
  <2>1. /\ waiting' = Append(waiting, current) /\ queue' = Tail(queue)
        /\ lane' = lane /\ queued' = queued
    BY <1>4 DEF AcquireAndRequeue
  <2>2. waiting' = waiting \o <<current>>
    BY <1>2, <2>1, AppendIs
  <2>3. IsSeq(<<current>>) /\ Elems(<<current>>) = {current}
    BY OneIs
  <2>4. IsSeq(waiting') /\ Elems(waiting') = Elems(waiting) \cup {current}
    BY <1>2, <2>2, <2>3, CatIs
  <2>5. IdsOf(waiting') = Append(IdsOf(waiting), current.id)
    BY <1>2, <2>1, IdsOfIs
  <2>6. lane # current.id /\ ~(lane = Free /\ waiting = <<>>)
    BY <1>4 DEF MayAcquire
  <2>7. IdsOf(waiting) = <<>> <=> waiting = <<>>
    BY <1>2, IdsOfIs
  <2>8. Ids(queue') = Ids(queue) \ {current.id}
    BY <1>1, <2>1
  <2>13. PICK id \in TaskId : id = current.id
    BY <1>1
  <2>9. L!TaskPark(id)
    BY <1>1, <2>1, <2>5, <2>6, <2>7, <2>8, <2>13, LaneSees DEF L!TaskPark, L!Uncontended
  <2>10. LaneStep
    BY <2>9 DEF LaneStep, L!Next
  <2>11. Dispatched({})
    BY <1>1, <1>2, <2>1, <2>4, <2>6, <2>10 DEF Dispatched
  <2>12. QED
    BY <2>1, <2>11
<1>5. QED
    BY <1>3, <1>4

-----------------------------------------------------------------------------
(* What the tasks know.                                                    *)

Facts == state.graph.facts

(* A tuple of occurrences for the heads of a rule.                         *)
Tuple(r, occs) ==
    /\ r \in RuleId
    /\ occs \in [DOMAIN Heads(r) -> DOMAIN Facts]
    /\ \A h \in DOMAIN Heads(r) : Facts[occs[h]].rel = Heads(r)[h].rel

(* An older graph: what it says of its occurrences still holds, but for    *)
(* the worlds they live in and the classes of their arguments.             *)
Older(g) ==
    /\ DOMAIN g.facts \subseteq DOMAIN Facts
    /\ \A o \in DOMAIN g.facts : g.facts[o].rel = Facts[o].rel

(* A body is at a place of its instruction.                                *)
BodyPlace(t) ==
    LET op == Code[t.ins].op
        items == Code[t.ins].items
    IN /\ t.ins \in DOMAIN Code
       /\ t.phase = "Expand" => op = "And" /\ t.index \in Nat \ {0}
       /\ t.phase = "Arguments" => op = "Post" /\ t.index \in Nat
       /\ t.phase \in {"Acquire", "Filter", "Apply"} => op \in {"Post", "Equal", "Fail", "Or"}
       /\ t.phase = "Post" => op = "Post"
       /\ t.phase = "Merge" => op = "Equal"
       /\ t.phase \in {"Choice", "Left", "Right"} => op = "Or"
       /\ op = "Or" =>
             \/ t.index = 1 /\ t.end = 0
             \/ /\ t.index \in Nat \ {0} /\ t.end \in 1 .. Len(items) + 1
                /\ t.index + 1 < t.end
       /\ op # "Or" /\ t.phase = "Dispatch" => t.index = 1
       /\ t.phase \in {"Left", "Right"} => t.end # 0

(* What a task knows for as long as it lives: it may wait meanwhile.       *)
Static(t) ==
    /\ t.kind = "Body" => BodyPlace(t)
    /\ t.kind = "Activate" =>
          /\ Older(t.graph) /\ t.occ \in DOMAIN t.graph.facts
          /\ \A x \in t.triggers : /\ x[1] \in RuleId /\ x[2] \in DOMAIN Heads(x[1])
                                   /\ Heads(x[1])[x[2]].rel = t.graph.facts[t.occ].rel
    /\ t.kind = "Wake" =>
          Older(t.graph) /\ \A f \in t.found : f.occ \in DOMAIN t.graph.facts
    /\ t.kind = "Search" =>
          /\ \A m \in t.found : Tuple(t.rule, m.occs)
          /\ t.candidate # None => Tuple(t.rule, t.candidate.occs)
          /\ t.transport = TRUE => t.candidate # None
          /\ t.commit # None => t.candidate = None /\ Tuple(t.rule, t.commit.occs)

(* The rule applies to the occurrences in a world, the history aside.      *)
Fitting(r, occs, w) ==
    /\ Distinct(occs)
    /\ \A h \in DOMAIN occs : w \in Facts[occs[h]].live
    /\ \A s \in 1 .. Rules[r].bound : \A p, q \in Ports(r, s) :
          Same(state.graph, Facts[occs[p[1]]].args[p[2]], Facts[occs[q[1]]].args[q[2]], w)

(* Facts become fewer worlds, nothing else.                                *)
Shrunk(old, new) ==
    /\ DOMAIN new = DOMAIN old
    /\ \A o \in DOMAIN old :
          /\ new[o].rel = old[o].rel /\ new[o].args = old[o].args
          /\ new[o].live \subseteq old[o].live
          /\ DOMAIN new[o] = {"rel", "args", "live"}

CommitFields == {"phase", "base", "staged", "occs", "env", "cond", "act", "head"}

(* A commit in progress: what it has checked of the state, which nobody    *)
(* else changes, and what it has staged.                                   *)
Committing(r, k) ==
    LET staged == k.staged.graph.facts
        Removed(n) == \A h \in Rules[r].kept + 1 .. n :
                         \A w \in k.cond : w \notin staged[k.occs[h]].live
        Known(history) == \A w \in k.cond : <<r, k.occs, w>> \in history
        New == \A w \in k.cond : <<r, k.occs, w>> \notin state.history
    IN /\ DOMAIN k = CommitFields
       /\ k.phase \in {"Start", "Head", "History", "Record", "Consume", "Fresh"}
       /\ k.base = state /\ k.act = active
       /\ DOMAIN k.staged = {"graph", "history"} /\ DOMAIN k.staged.graph = {"facts", "rep"}
       /\ state.history \subseteq k.staged.history
       /\ staged \in Seq(Elems(staged)) /\ Shrunk(Facts, staged)
       /\ k.phase # "Start" => k.cond \subseteq active
       /\ k.phase \in {"Start", "Head", "Consume"} => k.head \in Nat \ {0}
       /\ k.phase = "Start" => k.head = 1
       /\ k.phase = "Head" =>
             \A h \in 1 .. k.head - 1 :
                /\ \A w \in k.cond : w \in FitsHead(state.graph, r, h, k.occs[h], k.env)
                /\ \A i \in 1 .. h - 1 : k.occs[i] # k.occs[h]
       /\ k.phase \in {"History", "Record", "Consume", "Fresh"} =>
             \A w \in k.cond : Fitting(r, k.occs, w)
       /\ k.phase = "Record" => Pure(r) /\ New
       /\ k.phase = "Consume" => ~Pure(r) /\ k.head > Rules[r].kept /\ Removed(k.head - 1)
       /\ k.phase = "Fresh" => /\ Removed(Len(k.occs))
                               /\ Pure(r) => New /\ Known(k.staged.history)

(* What the owner of the lane knows.                                       *)
Held(t) ==
    /\ t.kind = "Body" =>
          /\ t.phase \in {"Post", "Merge"} => t.base = state.graph
          /\ t.phase \in {"Filter", "Fail"} => t.act = active
    /\ t.kind = "Search" => (t.commit # None => Committing(t.rule, t.commit))

Tasks == Elems(queue) \cup {t \in Elems(waiting) : t.id # Completion}

(* The occurrences are those of atoms of the program.                      *)
Graphs ==
    /\ DOMAIN state = {"graph", "history"} /\ DOMAIN state.graph = {"facts", "rep"}
    /\ Facts \in Seq(Elems(Facts))
    /\ \A o \in DOMAIN Facts :
          /\ DOMAIN Facts[o] = {"rel", "args", "live"}
          /\ \E a \in Atoms(program) : a.rel = Facts[o].rel /\ DOMAIN a.args = DOMAIN Facts[o].args

(* Whatever was applied left its traces in the state.                      *)
Traced(a) ==
    /\ Tuple(a.rule, a.occs)
    /\ \A h \in Rules[a.rule].kept + 1 .. Len(a.occs) :
          \A w \in a.cond : w \notin Facts[a.occs[h]].live
    /\ Pure(a.rule) => \A w \in a.cond : <<a.rule, a.occs, w>> \in state.history

Knowledge ==
    /\ Graphs
    /\ active \subseteq World
    /\ ready.phase \in {"Filter", "Publish"} => ready.act = active
    /\ \A t \in Tasks : Static(t) /\ (Owning(t) => Held(t))

Traces ==
    /\ applied \in Seq(Elems(applied))
    /\ \A i \in DOMAIN applied : Traced(applied[i])

IInv == Structure /\ LaneInv /\ Knowledge /\ Traces /\ AppliedOnce

(* The state of a later moment.                                            *)
Grows ==
    /\ program' = program
    /\ DOMAIN Facts \subseteq DOMAIN Facts'
    /\ \A o \in DOMAIN Facts : Facts'[o].rel = Facts[o].rel /\ Facts'[o].live \subseteq Facts[o].live
    /\ state.history \subseteq state'.history

(* A tuple has an occurrence for each head of its rule.                    *)
LEMMA TupleIs ==
    ASSUME program \in Programs, NEW r, NEW occs, Tuple(r, occs)
    PROVE  /\ r \in RuleId /\ Heads(r) \in Seq(Atoms(program))
           /\ DOMAIN occs = DOMAIN Heads(r) /\ DOMAIN occs = 1 .. Len(occs)
           /\ Len(occs) = Len(Heads(r)) /\ Len(occs) \in Nat
           /\ Rules[r].kept \in 0 .. Len(occs) /\ Rules[r].body \in DOMAIN Code
           /\ \A h \in DOMAIN occs : occs[h] \in DOMAIN Facts
<1>1. /\ r \in RuleId /\ Heads(r) \in Seq(Atoms(program))
      /\ Rules[r].kept \in 0 .. Len(Heads(r)) /\ Rules[r].body \in DOMAIN Code
    BY ProgramsArePrepared DEF Tuple, RuleId, Heads, Rules, Code
<1>2. /\ occs \in [1 .. Len(Heads(r)) -> DOMAIN Facts] /\ Len(Heads(r)) \in Nat
      /\ DOMAIN Heads(r) = 1 .. Len(Heads(r))
    BY <1>1 DEF Tuple
<1>3. occs \in Seq(DOMAIN Facts) /\ Len(occs) = Len(Heads(r))
    BY <1>2
<1>4. QED
    BY <1>1, <1>2, <1>3

(* Occurrences keep their relations, so a tuple stays one.                 *)
LEMMA TupleStays ==
    ASSUME Grows, NEW r, NEW occs, Tuple(r, occs)
    PROVE  Tuple(r, occs)'
<1>1. RuleId' = RuleId /\ \A q : Heads(q)' = Heads(q)
    BY DEF Grows, Heads, RuleId, Rules
<1>2. QED
    BY <1>1 DEF Tuple, Grows

(* What a task knows of older graphs stays true of later states.           *)
LEMMA StaticStays ==
    ASSUME Grows, NEW t, Static(t)
    PROVE  Static(t)'
<1>1. /\ \A r, h : Heads(r)' = Heads(r)
      /\ RuleId' = RuleId /\ Code' = Code
    BY DEF Grows, Heads, RuleId, Rules, Code
<1>2. ASSUME NEW r, NEW occs, Tuple(r, occs) PROVE Tuple(r, occs)'
    BY <1>2, TupleStays
<1>3. ASSUME NEW g, Older(g) PROVE Older(g)'
    BY <1>3 DEF Older, Grows
<1>4. t.kind = "Body" => BodyPlace(t)'
    BY <1>1 DEF Static, BodyPlace
<1>5. t.kind = "Activate" =>
          /\ Older(t.graph)' /\ t.occ \in DOMAIN t.graph.facts
          /\ \A x \in t.triggers : /\ x[1] \in RuleId' /\ x[2] \in DOMAIN Heads(x[1])'
                                   /\ Heads(x[1])'[x[2]].rel = t.graph.facts[t.occ].rel
    BY <1>1, <1>3 DEF Static
<1>6. t.kind = "Wake" =>
          Older(t.graph)' /\ \A f \in t.found : f.occ \in DOMAIN t.graph.facts
    BY <1>3 DEF Static
<1>7. t.kind = "Search" =>
          /\ \A m \in t.found : Tuple(t.rule, m.occs)'
          /\ t.candidate # None => Tuple(t.rule, t.candidate.occs)'
          /\ t.transport = TRUE => t.candidate # None
          /\ t.commit # None => t.candidate = None /\ Tuple(t.rule, t.commit.occs)'
    BY <1>2 DEF Static
<1>8. QED
    BY <1>4, <1>5, <1>6, <1>7 DEF Static

(* Facts live in fewer worlds and the history grows: traces stay.          *)
LEMMA TracedStays ==
    ASSUME program \in Programs, Grows, NEW a, Traced(a)
    PROVE  Traced(a)'
<1>1. /\ Rules' = Rules /\ RuleId' = RuleId /\ Heads(a.rule)' = Heads(a.rule)
      /\ Pure(a.rule)' <=> Pure(a.rule)
    BY DEF Grows, Heads, RuleId, Rules, Pure
<1>2. Tuple(a.rule, a.occs) /\ Tuple(a.rule, a.occs)'
    BY TupleStays DEF Traced
<1>3. /\ DOMAIN a.occs = 1 .. Len(a.occs) /\ Len(a.occs) \in Nat
      /\ Rules[a.rule].kept \in 0 .. Len(a.occs)
      /\ \A h \in DOMAIN a.occs : a.occs[h] \in DOMAIN Facts
    BY <1>2, TupleIs
<1>4. ASSUME NEW w \in a.cond, NEW h \in Rules[a.rule].kept + 1 .. Len(a.occs)
      PROVE  w \notin Facts'[a.occs[h]].live
    <2>1. h \in DOMAIN a.occs
      BY <1>3
    <2>2. w \notin Facts[a.occs[h]].live
      BY DEF Traced
    <2>3. QED
      BY <1>3, <2>1, <2>2 DEF Grows
<1>5. ASSUME NEW w \in a.cond, Pure(a.rule) PROVE <<a.rule, a.occs, w>> \in state'.history
    BY <1>5 DEF Traced, Grows
<1>6. QED
    BY <1>1, <1>2, <1>4, <1>5 DEF Traced

(* The state and `active' are as they were.                                *)
LEMMA HeldStays ==
    ASSUME UNCHANGED <<program, state, active>>, NEW t, Held(t)
    PROVE  Held(t)'
<1>1. /\ Rules' = Rules /\ Facts' = Facts
      /\ \A r : Heads(r)' = Heads(r) /\ (Pure(r)' <=> Pure(r))
      /\ \A r, s : Ports(r, s)' = Ports(r, s)
    BY DEF Heads, Rules, Pure, Facts, Ports
<1>2. \A r, occs, w : Fitting(r, occs, w) => Fitting(r, occs, w)'
    BY <1>1 DEF Fitting
<1>3. \A g, r, h, o, bound : FitsHead(g, r, h, o, bound)' = FitsHead(g, r, h, o, bound)
    BY <1>1 DEF FitsHead
<1>4. ASSUME NEW r, NEW k, Committing(r, k) PROVE Committing(r, k)'
    BY <1>1, <1>2, <1>3, <1>4 DEF Committing
<1>5. QED
    BY <1>4 DEF Held

(* The same state is a later one.                                          *)
LEMMA QuietGrows ==
    ASSUME UNCHANGED <<program, state>>
    PROVE  Grows /\ (Graphs => Graphs')
<1>1. Facts' = Facts
    BY DEF Facts
<1>2. QED
    BY <1>1 DEF Grows, Graphs

-----------------------------------------------------------------------------
(* A dispatch keeps what the tasks know, if its own tasks do.              *)

(* A task in its next state.                                               *)
Sound(t) == Task(t)' /\ Static(t)' /\ (Owning(t) => lane' = t.id /\ Held(t)')

NextGrows == DOMAIN next' = {"task", "var"} /\ next'.task \in next.task .. MaxTask + 1

(* Identities given before stay given.                                     *)
LEMMA TaskStays ==
    ASSUME Structure, NextGrows, NEW t, Task(t)
    PROVE  Task(t)'
<1>1. next.task \in Nat /\ next'.task \in Nat /\ next.task <= next'.task
    BY EngineBounds DEF Structure, NextGrows
<1>2. QED
    BY <1>1 DEF Task, Shaped

(* If the dispatched task and its children are sound, so is everything:    *)
(* who else knows something of the state or of `active' owns the lane, and *)
(* then they do not change.                                                *)
LEMMA DispatchKeeps ==
    ASSUME Structure, LaneInv, Knowledge, queue # <<>>, ready' = ready, program' = program,
           NextGrows, Grows, Graphs', NEW new, Dispatched(new), \A t \in new : Sound(t),
           \/ state' = state /\ active' = active
           \/ lane = current.id /\ active' \subseteq World
    PROVE  Structure' /\ Knowledge'
<1>1. /\ \A t \in Elems(Tail(queue)) :
            /\ Task(t) /\ t.id # current.id /\ t.id \in TaskId /\ (Owning(t) => lane = t.id)
            /\ t \in Elems(queue)
      /\ current \in Elems(queue) /\ current.id \in TaskId /\ Task(current)
      /\ Owning(current) => lane = current.id
    BY FrontIs
<1>2. /\ \A t \in Elems(waiting) : t.id = Completion \/ (Task(t) /\ ~Owning(t))
      /\ \A t \in Elems(queue) : Static(t) /\ (Owning(t) => Held(t))
      /\ \A t \in Elems(waiting) : t.id # Completion => Static(t)
    BY DEF Structure, Knowledge, Tasks
<1>3. ASSUME NEW t \in Elems(queue') PROVE Sound(t)
  <2>1. CASE t \in new
    BY <2>1
  <2>2. CASE t \in Elems(Tail(queue)) /\ (Owning(t) => lane' = t.id)
    <3>1. Task(t)' /\ Static(t)'
      BY <1>1, <1>2, <2>2, TaskStays, StaticStays
    <3>2. ASSUME Owning(t) PROVE Held(t)'
      <4>1. lane # current.id /\ Held(t)
        BY <1>1, <1>2, <2>2, <3>2
      <4>2. QED
        BY <4>1, HeldStays
    <3>3. QED
      BY <2>2, <3>1, <3>2 DEF Sound
  <2>3. CASE t \in Elems(waiting) /\ t.id # Completion
    <3>1. Task(t)' /\ Static(t)' /\ ~Owning(t)
      BY <1>2, <2>3, TaskStays, StaticStays
    <3>2. QED
      BY <3>1 DEF Sound
  <2>4. QED
    BY <2>1, <2>2, <2>3 DEF Dispatched
<1>4. ASSUME NEW t \in Elems(waiting')
      PROVE  t.id = Completion \/ (Task(t)' /\ Static(t)' /\ ~Owning(t))
  <2>1. t \in Elems(waiting) \/ (t = current /\ lane # t.id)
    BY DEF Dispatched
  <2>2. t.id = Completion \/ (Task(t) /\ Static(t) /\ ~Owning(t))
    BY <1>1, <1>2, <2>1
  <2>3. QED
    BY <2>2, TaskStays, StaticStays
<1>5. ready.phase \in {"Transport", "Filter", "Publish"} => lane = Completion /\ lane' = Completion
    BY <1>1, TaskIds DEF Structure, Dispatched
<1>6. next'.task \in 2 .. MaxTask + 1
    BY EngineBounds DEF NextGrows, Structure
<1>7. Structure'
    BY <1>3, <1>4, <1>5, <1>6 DEF Structure, Dispatched, NextGrows, Sound
<1>8. ready.phase \in {"Filter", "Publish"} => ready'.act = active'
    BY <1>1, <1>5, TaskIds DEF Knowledge
<1>9. active' \subseteq World
    BY DEF Knowledge
<1>10. \A t \in Tasks' : Static(t)' /\ (Owning(t) => Held(t)')
    BY <1>3, <1>4 DEF Tasks, Sound
<1>11. QED
    BY <1>7, <1>8, <1>9, <1>10 DEF Knowledge

(* The case of a step that changes neither the state nor `active'.         *)
Quiet == UNCHANGED <<program, state, active, ready>>

(* A step of the owner of the lane may.                                    *)
Context ==
    /\ ready' = ready /\ program' = program /\ Grows /\ Graphs'
    /\ \/ state' = state /\ active' = active
       \/ lane = current.id /\ active' \subseteq World

Here == Structure /\ LaneInv /\ Knowledge
Kept == Structure' /\ LaneStep /\ Knowledge'

(* What every task knows stays true when nothing it knows of changes.      *)
LEMMA QuietIs ==
    ASSUME Here, Quiet
    PROVE  /\ Context
           /\ \A t : Static(t) => Static(t)'
           /\ \A t : Held(t) => Held(t)'
<1>1. Grows /\ Graphs'
    BY QuietGrows DEF Here, Knowledge, Quiet
<1>2. Context
    BY <1>1 DEF Quiet, Context
<1>3. ASSUME NEW t, Static(t) PROVE Static(t)'
    BY <1>1, <1>3, StaticStays
<1>4. ASSUME NEW t, Held(t) PROVE Held(t)'
    BY <1>4, HeldStays DEF Quiet
<1>5. QED
    BY <1>2, <1>3, <1>4

(* Tasks are served while the queue is not empty.                          *)
LEMMA TaskService == Service = "task" => queue # <<>>
BY DEF Service

(* What is known of the dispatched task.                                   *)
LEMMA CurrentIs ==
    ASSUME Here, queue # <<>>
    PROVE  /\ Shaped(current) /\ Task(current) /\ Static(current)
           /\ Owning(current) => lane = current.id /\ Held(current)
           /\ Structure /\ LaneInv /\ Knowledge
<1>1. current \in Tasks
    BY FrontIs DEF Here, Tasks
<1>2. QED
    BY <1>1, FrontIs DEF Here, Knowledge, Task

(* The tasks that are spawned.                                             *)
Fresh(k) == k.id = next.task /\ Shaped(k) /\ Static(k)' /\ ~Owning(k)
KidsOk(kids) == kids = <<>> \/ \E k : kids = <<k>> /\ Fresh(k)

(* A spawned task has the next identity; in no world nothing is spawned.   *)
LEMMA SpawnIs ==
    ASSUME NEW kids, NEW task, NEW scope, kids = Spawned(scope, task),
           Shaped(task), Static(task)', ~Owning(task)
    PROVE  KidsOk(kids)
<1>5. PICK k : k = [task EXCEPT !.id = next.task, !.scope = scope]
    OBVIOUS
<1>1. /\ DOMAIN k = DOMAIN task
      /\ {"id", "scope", "kind"} \subseteq DOMAIN task
      /\ k.id = next.task
    BY <1>5 DEF Shaped, InitFields, BodyFields, ActivateFields, SearchFields, WakeFields
<1>2. Fresh(k)
  <2>1. CASE task.kind = "Body" /\ DOMAIN task = BodyFields
    <3>1. /\ k.kind = task.kind /\ k.phase = task.phase /\ k.ins = task.ins
          /\ k.index = task.index /\ k.end = task.end
      BY <2>1, <1>5 DEF BodyFields
    <3>2. BodyPlace(task)'
      BY <2>1 DEF Static
    <3>3. BodyPlace(k)'
      BY <3>1, <3>2 DEF BodyPlace
    <3>4. QED
      BY <1>1, <2>1, <3>1, <3>3 DEF Fresh, Shaped, Static, Owning
  <2>2. CASE task.kind = "Activate" /\ DOMAIN task = ActivateFields
    <3>1. /\ k.kind = task.kind /\ k.graph = task.graph /\ k.occ = task.occ
          /\ k.triggers = task.triggers
      BY <2>2, <1>5 DEF ActivateFields
    <3>2. QED
      BY <1>1, <2>2, <3>1 DEF Fresh, Shaped, Static, Owning
  <2>3. CASE task.kind = "Wake" /\ DOMAIN task = WakeFields
    <3>1. /\ k.kind = task.kind /\ k.graph = task.graph /\ k.found = task.found
      BY <2>3, <1>5 DEF WakeFields
    <3>2. QED
      BY <1>1, <2>3, <3>1 DEF Fresh, Shaped, Static, Owning
  <2>4. CASE task.kind = "Search" /\ DOMAIN task = SearchFields /\ task.transport \in BOOLEAN
    <3>1. /\ k.kind = task.kind /\ k.rule = task.rule /\ k.found = task.found
          /\ k.candidate = task.candidate /\ k.transport = task.transport
          /\ k.commit = task.commit
      BY <2>4, <1>5 DEF SearchFields
    <3>2. QED
      BY <1>1, <2>4, <3>1 DEF Fresh, Shaped, Static, Owning
  <2>5. CASE task.kind = "Init" /\ DOMAIN task = InitFields
    <3>1. k.kind = task.kind
      BY <2>5, <1>5 DEF InitFields
    <3>2. QED
      BY <1>1, <2>5, <3>1 DEF Fresh, Shaped, Static, Owning
  <2>6. QED
    BY <2>1, <2>2, <2>3, <2>4, <2>5 DEF Shaped
<1>3. kids = <<>> \/ kids = <<k>>
    BY <1>5 DEF Spawned
<1>4. QED
    BY <1>2, <1>3 DEF KidsOk

(* At most one sound child, as the lemmas on the queue have it.            *)
LEMMA KidsAre ==
    ASSUME Here, NEW kids, KidsOk(kids), Fits(kids),
           next' = [next EXCEPT !.task = @ + Len(kids)]
    PROVE  NextGrows /\ NextKids(kids) /\ \A k \in Elems(kids) : Sound(k)
<1>1. /\ Structure /\ DOMAIN next = {"task", "var"}
      /\ next.task \in 2 .. MaxTask + 1 /\ MaxTask \in Nat
    BY EngineBounds DEF Here, Structure
<1>2. NextKids(kids)
    BY DEF KidsOk, NextKids, Fresh
<1>3. CASE kids = <<>>
  <2>1. next'.task = next.task /\ DOMAIN next' = {"task", "var"}
    BY <1>1, <1>3
  <2>2. Elems(kids) = {}
    BY <1>3, EmptyIs
  <2>3. NextGrows
    BY <1>1, <2>1 DEF NextGrows
  <2>4. QED
    BY <1>2, <2>2, <2>3
<1>4. CASE kids # <<>>
  <2>1. PICK k : kids = <<k>> /\ Fresh(k)
    BY <1>4 DEF KidsOk
  <2>2. next'.task = next.task + 1 /\ DOMAIN next' = {"task", "var"}
    BY <1>1, <2>1
  <2>3. next.task < MaxTask + 1
    BY <1>1, <1>2, <1>4, TaskIds
  <2>4. NextGrows
    BY <1>1, <2>2, <2>3 DEF NextGrows
  <2>5. Task(k)'
    BY <1>1, <2>1, <2>2 DEF Task, Fresh, Shaped
  <2>6. Sound(k) /\ Elems(kids) = {k}
    BY <2>1, <2>5, OneIs DEF Sound, Fresh
  <2>7. QED
    BY <1>2, <2>4, <2>6
<1>5. QED
    BY <1>3, <1>4

(* The current task in its next state: it has kept its identity.           *)
LEMMA OnIs ==
    ASSUME Here, queue # <<>>, NextGrows, NEW task, task.id = current.id, Shaped(task), Static(task)',
           Owning(task) => lane' = current.id /\ Held(task)'
    PROVE  Sound(task)
<1>1. Task(current) /\ Structure
    BY CurrentIs
<1>2. Task(task)
    BY <1>1 DEF Task
<1>3. QED
    BY <1>1, <1>2, TaskStays DEF Sound

(* A dispatch that ends in Requeue keeps the invariant if the task that    *)
(* goes back is sound and keeps its right to the lane.                     *)
LEMMA RequeueKeeps ==
    ASSUME Here, queue # <<>>, Quiet, NEW task, NEW kids, KidsOk(kids), Requeue(task, kids),
           task.id = current.id, Shaped(task), Static(task),
           Owning(task) => lane = current.id /\ Held(task)
    PROVE  Kept
<1>1. Fits(kids) /\ next' = [next EXCEPT !.task = @ + Len(kids)]
    BY DEF Requeue, Admit
<1>2. /\ queue' = Tail(queue) \o kids \o <<task>> /\ UNCHANGED laneVars
      /\ lane' = lane
    BY DEF Requeue, laneVars
<1>3. Context /\ Static(task)' /\ (Owning(task) => lane' = current.id /\ Held(task)')
    BY <1>2, QuietIs
<1>4. NextGrows /\ NextKids(kids) /\ \A k \in Elems(kids) : Sound(k)
    BY <1>1, KidsAre
<1>5. Sound(task)
    BY <1>3, <1>4, OnIs
<1>6. Structure /\ LaneInv /\ Knowledge
    BY DEF Here
<1>7. Dispatched(Elems(kids) \cup {task})
    BY <1>1, <1>2, <1>4, <1>6, RequeueIs
<1>8. PICK new : new = Elems(kids) \cup {task}
    OBVIOUS
<1>9. Dispatched(new) /\ \A t \in new : Sound(t)
    BY <1>4, <1>5, <1>7, <1>8
<1>10. Structure' /\ Knowledge'
    BY <1>3, <1>4, <1>6, <1>9, DispatchKeeps DEF Context
<1>11. QED
    BY <1>7, <1>10 DEF Kept, Dispatched

(* The same for one that releases the lane: the task may own it no more.   *)
LEMMA ReleasingKeeps ==
    ASSUME Here, queue # <<>>, Context, NEW task, NEW kids, KidsOk(kids),
           RequeueReleasing(task, kids), lane = current.id,
           task.id = current.id, Shaped(task), Static(task)', ~Owning(task)
    PROVE  Kept
<1>1. Fits(kids) /\ next' = [next EXCEPT !.task = @ + Len(kids)]
    BY DEF RequeueReleasing, Admit
<1>4. NextGrows /\ NextKids(kids) /\ \A k \in Elems(kids) : Sound(k)
    BY <1>1, KidsAre
<1>5. Sound(task)
    BY <1>4, OnIs
<1>6. Structure /\ LaneInv /\ Knowledge
    BY DEF Here
<1>7. Dispatched(Elems(kids) \cup {task})
    BY <1>1, <1>4, <1>6, RequeueReleasingIs
<1>8. PICK new : new = Elems(kids) \cup {task}
    OBVIOUS
<1>9. Dispatched(new) /\ \A t \in new : Sound(t)
    BY <1>4, <1>5, <1>7, <1>8
<1>10. Structure' /\ Knowledge'
    BY <1>4, <1>6, <1>9, DispatchKeeps DEF Context
<1>11. QED
    BY <1>7, <1>10 DEF Kept, Dispatched

(* A task that is done leaves nothing behind but its children.             *)
LEMMA FinishKeeps ==
    ASSUME Here, queue # <<>>, Context, NEW kids, KidsOk(kids), Finish(kids)
    PROVE  Kept
<1>1. Fits(kids) /\ next' = [next EXCEPT !.task = @ + Len(kids)]
    BY DEF Finish, Admit
<1>4. NextGrows /\ NextKids(kids) /\ \A k \in Elems(kids) : Sound(k)
    BY <1>1, KidsAre
<1>6. Structure /\ LaneInv /\ Knowledge
    BY DEF Here
<1>7. Dispatched(Elems(kids))
    BY <1>1, <1>4, <1>6, FinishIs
<1>10. Structure' /\ Knowledge'
    BY <1>4, <1>6, <1>7, DispatchKeeps DEF Context
<1>11. QED
    BY <1>7, <1>10 DEF Kept, Dispatched

(* A task that acquires goes on as its owner, or waits as it was.          *)
LEMMA AcquireKeeps ==
    ASSUME Here, queue # <<>>, Quiet, NEW task, AcquireAndRequeue(task),
           task.id = current.id, Shaped(task), Static(task), Held(task)
    PROVE  Kept
<1>1. Context /\ Static(task)' /\ Held(task)'
    BY QuietIs
<1>2. NextGrows
    BY EngineBounds DEF AcquireAndRequeue, NextGrows, Here, Structure
<1>3. Structure /\ LaneInv /\ Knowledge
    BY DEF Here
<1>4. CASE Dispatched({task}) /\ lane' = current.id
  <2>1. Sound(task)
    BY <1>1, <1>2, <1>4, OnIs
  <2>2. Structure' /\ Knowledge'
    BY <1>1, <1>2, <1>3, <1>4, <2>1, DispatchKeeps DEF Context
  <2>3. QED
    BY <1>4, <2>2 DEF Kept, Dispatched
<1>5. CASE Dispatched({})
  <2>1. Structure' /\ Knowledge'
    BY <1>1, <1>2, <1>3, <1>5, DispatchKeeps DEF Context
  <2>2. QED
    BY <1>5, <2>1 DEF Kept, Dispatched
<1>6. QED
    BY <1>3, <1>4, <1>5, AcquireIs

-----------------------------------------------------------------------------
(* The actions of the tasks that change neither the state nor `active'.    *)

(* A task that only goes on with its own work is quiet.                    *)
LEMMA OwnIs ==
    ASSUME NEW kind, Own(kind), program' = program
    PROVE  Quiet /\ queue # <<>> /\ current.kind = kind
BY TaskService DEF Own, Dispatch, others, Quiet, current

(* The same for a body.                                                    *)
LEMMA BodyOwnIs ==
    ASSUME NEW phase, BodyOwn(phase), program' = program
    PROVE  Quiet /\ queue # <<>> /\ current.kind = "Body" /\ current.phase = phase
BY TaskService DEF BodyOwn, BodyIn, Dispatch, others, Quiet, current, b

(* Instructions refer to instructions of the program.                      *)
LEMMA CodeIs ==
    ASSUME program \in Programs
    PROVE  /\ Query \in DOMAIN Code
           /\ \A i \in DOMAIN Code :
                 /\ Code[i].op \in {"True", "Fail", "Post", "Equal", "And", "Or"}
                 /\ Code[i].op \in {"And", "Or"} =>
                       /\ Code[i].items \in Seq(DOMAIN Code)
                       /\ \A j \in 1 .. Len(Code[i].items) : Code[i].items[j] \in DOMAIN Code
                       /\ Len(Code[i].items) \in Nat
                 /\ Code[i].op = "Or" => Len(Code[i].items) # 0
<1>1. /\ Query \in DOMAIN Code
      /\ \A i \in DOMAIN Code :
            /\ Code[i].op \in {"True", "Fail", "Post", "Equal", "And", "Or"}
            /\ Code[i].op \in {"And", "Or"} => Code[i].items \in Seq(DOMAIN Code)
            /\ Code[i].op = "Or" => Code[i].items # <<>>
    BY ProgramsArePrepared DEF Query, Code
<1>2. \A q \in Seq(DOMAIN Code) : /\ \A j \in 1 .. Len(q) : q[j] \in DOMAIN Code
                                 /\ Len(q) \in Nat
                                 /\ q # <<>> => Len(q) # 0
    OBVIOUS
<1>3. QED
    BY <1>1, <1>2

(* The body of an instruction of the program is a sound child.             *)
LEMMA BodyChildIs ==
    ASSUME program \in Programs, program' = program,
           NEW kids, NEW ins, NEW env, NEW cond, NEW scope,
           ins \in DOMAIN Code, kids = Spawned(scope, Body(ins, env, cond))
    PROVE  KidsOk(kids)
<1>1. PICK task : task = Body(ins, env, cond)
    OBVIOUS
<1>2. /\ task.kind = "Body" /\ DOMAIN task = BodyFields /\ task.phase = "Dispatch"
      /\ task.index = 1 /\ task.end = 0 /\ task.ins = ins
    BY <1>1 DEF Body, BodyFields
<1>3. Shaped(task) /\ ~Owning(task)
    BY <1>2 DEF Shaped, Owning
<1>4. Code' = Code
    BY DEF Code
<1>5. Static(task)'
    BY <1>2, <1>4 DEF Static, BodyPlace
<1>6. kids = Spawned(scope, task)
    BY <1>1
<1>7. QED
    BY <1>3, <1>5, <1>6, SpawnIs

(* No child at all is fine.                                                *)
LEMMA NoKids == KidsOk(<<>>) /\ Len(<<>>) = 0
BY DEF KidsOk

(* A body that goes on with a sound task, having what it needs of the      *)
(* lane.                                                                   *)
LEMMA BodyGoes ==
    ASSUME Here, Quiet, queue # <<>>, current.kind = "Body", NEW task, NEW kids, KidsOk(kids),
           Requeue(task, kids), DOMAIN task = BodyFields, task.kind = "Body",
           task.id = current.id, BodyPlace(task),
           Owning(task) => Owning(current) /\ Held(task)
    PROVE  Kept
<1>1. Shaped(task) /\ Static(task)
    BY DEF Shaped, Static
<1>2. Owning(current) => lane = current.id
    BY CurrentIs
<1>3. QED
    BY <1>1, <1>2, RequeueKeeps

(* What is known of a dispatched body.                                     *)
LEMMA BodyIs ==
    ASSUME Here, queue # <<>>, current.kind = "Body"
    PROVE  /\ DOMAIN current = BodyFields /\ BodyPlace(current) /\ program \in Programs
           /\ Owning(current) => lane = current.id /\ Held(current)
BY CurrentIs DEF Shaped, Static, Structure, Here

(* One more variable.                                                      *)
LEMMA VariableKeeps ==
    ASSUME Here, queue # <<>>, Quiet, NEW task,
           queue' = Append(Tail(queue), task), next' = [next EXCEPT !.var = @ + 1],
           UNCHANGED laneVars, task.id = current.id, Shaped(task), Static(task),
           Owning(task) => lane = current.id /\ Held(task)
    PROVE  Kept
<1>1. Structure /\ LaneInv /\ Knowledge
    BY DEF Here
<1>2. Context /\ Static(task)' /\ (Owning(task) => lane' = current.id /\ Held(task)')
    BY QuietIs DEF laneVars
<1>3. NextGrows
    BY <1>1, EngineBounds DEF NextGrows, Structure
<1>4. Sound(task)
    BY <1>2, <1>3, OnIs
<1>5. IsSeq(Tail(queue))
    BY <1>1, FrontIs
<1>6. queue' = Tail(queue) \o <<>> \o <<task>>
    BY <1>5, AppendIs, EmptyIs
<1>7. NextKids(<<>>) /\ Elems(<<>>) = {}
    BY EmptyIs DEF NextKids
<1>8. Dispatched(Elems(<<>>) \cup {task})
    BY <1>1, <1>6, <1>7, RequeueIs
<1>9. Dispatched({task})
    BY <1>7, <1>8
<1>10. Structure' /\ Knowledge'
    BY <1>1, <1>2, <1>3, <1>4, <1>9, DispatchKeeps DEF Context
<1>11. QED
    BY <1>9, <1>10 DEF Kept, Dispatched

(* The query: its variables one by one, then its body.                     *)
LEMMA InitTickKeeps ==
    ASSUME Here, program' = program, InitTick
    PROVE  Kept
<1>1. Quiet /\ queue # <<>> /\ current.kind = "Init"
    BY OwnIs DEF InitTick
<1>2. /\ DOMAIN current = InitFields /\ program \in Programs
      /\ ~Owning(current) /\ Static(current)
    BY <1>1, CurrentIs DEF Shaped, Structure, Owning
<1>3. CASE Len(current.env) < QueryVars
  <2>1. PICK task : task = [current EXCEPT !.env = Append(@, next.var)]
    OBVIOUS
  <2>2. /\ queue' = Append(Tail(queue), task) /\ next' = [next EXCEPT !.var = @ + 1]
        /\ UNCHANGED laneVars
    BY <1>3, <2>1 DEF InitTick
  <2>3. task.id = current.id /\ task.kind = "Init" /\ DOMAIN task = InitFields
    BY <1>1, <1>2, <2>1 DEF InitFields
  <2>4. Shaped(task) /\ Static(task) /\ ~Owning(task)
    BY <2>3 DEF Shaped, Static, Owning
  <2>5. QED
    BY <1>1, <2>2, <2>3, <2>4, VariableKeeps
<1>4. CASE ~(Len(current.env) < QueryVars)
  <2>1. PICK kids : kids = Spawned(current.scope, Body(Query, current.env, current.scope))
    OBVIOUS
  <2>2. Finish(kids)
    BY <1>4, <2>1 DEF InitTick
  <2>3. KidsOk(kids)
    BY <1>2, <2>1, CodeIs, BodyChildIs
  <2>4. Context
    BY <1>1, QuietIs
  <2>5. QED
    BY <1>1, <2>2, <2>3, <2>4, FinishKeeps
<1>5. QED
    BY <1>3, <1>4

(* It is done, and nothing comes of it.                                    *)
LEMMA DoneKeeps ==
    ASSUME Here, Quiet, queue # <<>>, Finish(<<>>)
    PROVE  Kept
<1>1. PICK kids : kids = <<>>
    OBVIOUS
<1>2. Finish(kids) /\ KidsOk(kids) /\ Context
    BY <1>1, NoKids, QuietIs
<1>3. QED
    BY <1>2, FinishKeeps

(* A body without worlds is done.                                          *)
LEMMA BodyEmptyKeeps ==
    ASSUME Here, program' = program, BodyEmpty
    PROVE  Kept
<1>1. Quiet /\ queue # <<>> /\ Finish(<<>>)
    BY OwnIs DEF BodyEmpty
<1>2. QED
    BY <1>1, DoneKeeps

(* A body is dispatched to the phase of its instruction.                   *)
LEMMA BodyDispatchKeeps ==
    ASSUME Here, program' = program, BodyDispatch
    PROVE  Kept
<1>1. Quiet /\ queue # <<>> /\ current.kind = "Body" /\ current.phase = "Dispatch"
    BY BodyOwnIs DEF BodyDispatch
<1>2. DOMAIN current = BodyFields /\ BodyPlace(current) /\ program \in Programs
    BY <1>1, BodyIs
<1>3. CASE Ins.op = "True"
    BY <1>1, <1>3, DoneKeeps DEF BodyDispatch
<1>4. CASE Ins.op # "True"
  <2> DEFINE phase == CASE Ins.op = "And" -> "Expand" [] Ins.op = "Post" -> "Arguments"
                        [] OTHER -> "Acquire"
  <2>1. PICK task, kids : task = [current EXCEPT !.phase = phase] /\ kids = <<>>
    OBVIOUS
  <2>2. Requeue(task, kids)
    BY <1>4, <2>1 DEF BodyDispatch, b
  <2>3. /\ DOMAIN task = BodyFields /\ task.kind = "Body" /\ task.id = current.id
        /\ task.phase = phase /\ task.ins = current.ins
        /\ task.index = current.index /\ task.end = current.end
    BY <1>1, <1>2, <2>1 DEF BodyFields
  <2>4. \/ phase = "Expand" /\ Ins.op = "And"
        \/ phase = "Arguments" /\ Ins.op = "Post"
        \/ phase = "Acquire" /\ Ins.op \notin {"And", "Post"}
    OBVIOUS
  <2> HIDE DEF phase
  <2>5. Ins.op \in {"Fail", "Post", "Equal", "And", "Or"}
    BY <1>2, <1>4, CodeIs DEF BodyPlace, Ins, b
  <2>6. BodyPlace(task)
    BY <1>1, <1>2, <2>3, <2>4, <2>5 DEF BodyPlace, Ins, b
  <2>7. ~Owning(task)
    BY <2>3, <2>4 DEF Owning
  <2>8. QED
    BY <1>1, <2>1, <2>2, <2>3, <2>6, <2>7, NoKids, BodyGoes
<1>5. QED
    BY <1>3, <1>4

(* A post reads its arguments.                                             *)
LEMMA BodyArgumentsKeeps ==
    ASSUME Here, program' = program, BodyArguments
    PROVE  Kept
<1>1. Quiet /\ queue # <<>> /\ current.kind = "Body" /\ current.phase = "Arguments"
    BY BodyOwnIs DEF BodyArguments
<1>2. DOMAIN current = BodyFields /\ BodyPlace(current)
    BY <1>1, BodyIs
<1>3. PICK task, kids : /\ kids = <<>>
                        /\ \/ task = [current EXCEPT !.phase = "Acquire"]
                           \/ task = [current EXCEPT !.index = @ + 1]
                        /\ Requeue(task, kids)
    BY DEF BodyArguments, b
<1>4. /\ DOMAIN task = BodyFields /\ task.kind = "Body" /\ task.id = current.id
      /\ task.ins = current.ins /\ task.end = current.end
      /\ \/ task.phase = "Acquire" /\ task.index = current.index
         \/ task.phase = "Arguments" /\ task.index = current.index + 1
    BY <1>1, <1>2, <1>3 DEF BodyFields
<1>5. BodyPlace(task) /\ ~Owning(task)
    BY <1>1, <1>2, <1>4 DEF BodyPlace, Owning
<1>6. QED
    BY <1>1, <1>3, <1>4, <1>5, NoKids, BodyGoes

(* A conjunction spawns its conjuncts.                                     *)
LEMMA BodyExpandKeeps ==
    ASSUME Here, program' = program, BodyExpand
    PROVE  Kept
<1>1. Quiet /\ queue # <<>> /\ current.kind = "Body" /\ current.phase = "Expand"
    BY BodyOwnIs DEF BodyExpand
<1>2. DOMAIN current = BodyFields /\ BodyPlace(current) /\ program \in Programs
    BY <1>1, BodyIs
<1>3. CASE current.index > Len(Ins.items)
    BY <1>1, <1>3, DoneKeeps DEF BodyExpand, b
<1>4. CASE ~(current.index > Len(Ins.items))
  <2>1. PICK task, kids :
           /\ task = [current EXCEPT !.index = @ + 1]
           /\ kids = Spawned(current.cond,
                             Body(Ins.items[current.index], current.env, current.cond))
    OBVIOUS
  <2>2. Requeue(task, kids)
    BY <1>4, <2>1 DEF BodyExpand, b
  <2>3. /\ DOMAIN task = BodyFields /\ task.kind = "Body" /\ task.id = current.id
        /\ task.phase = "Expand" /\ task.ins = current.ins
        /\ task.index = current.index + 1 /\ task.end = current.end
    BY <1>1, <1>2, <2>1 DEF BodyFields
  <2>4. Ins.items[current.index] \in DOMAIN Code
    BY <1>1, <1>2, <1>4, CodeIs DEF BodyPlace, Ins, b
  <2>5. KidsOk(kids)
    BY <1>2, <2>1, <2>4, BodyChildIs
  <2>6. BodyPlace(task) /\ ~Owning(task)
    BY <1>1, <1>2, <2>3 DEF BodyPlace, Owning
  <2>7. QED
    BY <1>1, <2>2, <2>3, <2>5, <2>6, BodyGoes
<1>5. QED
    BY <1>3, <1>4

(* A body takes the lane or waits for it.                                  *)
LEMMA BodyAcquireKeeps ==
    ASSUME Here, program' = program, BodyAcquire
    PROVE  Kept
<1>1. Quiet /\ queue # <<>> /\ current.kind = "Body" /\ current.phase = "Acquire"
    BY BodyOwnIs DEF BodyAcquire
<1>2. DOMAIN current = BodyFields /\ BodyPlace(current)
    BY <1>1, BodyIs
<1>3. PICK task : /\ \/ task = [current EXCEPT !.phase = "Apply", !.cond = @ \cap active]
                     \/ task = [current EXCEPT !.phase = "Filter", !.act = active]
                  /\ AcquireAndRequeue(task)
    BY DEF BodyAcquire, b
<1>4. /\ DOMAIN task = BodyFields /\ task.kind = "Body" /\ task.id = current.id
      /\ task.ins = current.ins /\ task.end = current.end /\ task.index = current.index
      /\ task.phase = "Apply" \/ (task.phase = "Filter" /\ task.act = active)
    BY <1>1, <1>2, <1>3 DEF BodyFields
<1>5. BodyPlace(task)
    BY <1>1, <1>2, <1>4 DEF BodyPlace
<1>6. Shaped(task) /\ Static(task) /\ Held(task)
    BY <1>4, <1>5 DEF Shaped, Static, Held
<1>7. QED
    BY <1>1, <1>3, <1>4, <1>6, AcquireKeeps

(* The owner filters its scope by `active'.                                *)
LEMMA BodyFilterKeeps ==
    ASSUME Here, program' = program, BodyFilter
    PROVE  Kept
<1>1. Quiet /\ queue # <<>> /\ current.kind = "Body" /\ current.phase = "Filter"
    BY BodyOwnIs DEF BodyFilter
<1>2. DOMAIN current = BodyFields /\ BodyPlace(current)
    BY <1>1, BodyIs
<1>3. PICK task, kids : /\ kids = <<>>
                        /\ task = [current EXCEPT !.phase = "Apply", !.cond = @ \cap current.act]
                        /\ Requeue(task, kids)
    BY DEF BodyFilter, b
<1>4. /\ DOMAIN task = BodyFields /\ task.kind = "Body" /\ task.id = current.id
      /\ task.ins = current.ins /\ task.end = current.end /\ task.index = current.index
      /\ task.phase = "Apply"
    BY <1>1, <1>2, <1>3 DEF BodyFields
<1>5. BodyPlace(task) /\ Owning(current) /\ Held(task)
    BY <1>1, <1>2, <1>4 DEF BodyPlace, Owning, Held
<1>6. QED
    BY <1>1, <1>3, <1>4, <1>5, NoKids, BodyGoes

(* The owner captures the graph, or `active', for its job.                 *)
LEMMA BodyApplyKeeps ==
    ASSUME Here, program' = program, BodyApply
    PROVE  Kept
<1>1. Quiet /\ queue # <<>> /\ current.kind = "Body" /\ current.phase = "Apply"
    BY BodyOwnIs DEF BodyApply
<1>2. DOMAIN current = BodyFields /\ BodyPlace(current)
    BY <1>1, BodyIs
<1>3. Ins.op \in {"Post", "Equal", "Fail", "Or"}
    BY <1>1, <1>2 DEF BodyPlace, Ins, b
<1> DEFINE phase == CASE Ins.op = "Post" -> "Post" [] Ins.op = "Equal" -> "Merge"
                      [] Ins.op = "Fail" -> "Fail" [] Ins.op = "Or" -> "Choice"
           base == IF Ins.op \in {"Post", "Equal"} THEN state.graph ELSE None
           act == IF Ins.op = "Fail" THEN active ELSE {}
<1>4. PICK task, kids :
         kids = <<>> /\ task = [current EXCEPT !.phase = phase, !.base = base, !.act = act]
    OBVIOUS
<1>5. Requeue(task, kids)
    BY <1>4 DEF BodyApply, b
<1>6. /\ DOMAIN task = BodyFields /\ task.kind = "Body" /\ task.id = current.id
      /\ task.ins = current.ins /\ task.end = current.end /\ task.index = current.index
      /\ task.phase = phase /\ task.base = base /\ task.act = act
    BY <1>1, <1>2, <1>4 DEF BodyFields
<1>7. \/ Ins.op = "Post" /\ phase = "Post" /\ base = state.graph
      \/ Ins.op = "Equal" /\ phase = "Merge" /\ base = state.graph
      \/ Ins.op = "Fail" /\ phase = "Fail" /\ act = active
      \/ Ins.op = "Or" /\ phase = "Choice"
    BY <1>3
<1> HIDE DEF phase, base, act
<1>8. BodyPlace(task)
    BY <1>1, <1>2, <1>6, <1>7 DEF BodyPlace, Ins, b
<1>9. Owning(current) /\ Held(task)
    BY <1>1, <1>6, <1>7 DEF Owning, Held
<1>10. QED
    BY <1>1, <1>4, <1>5, <1>6, <1>8, <1>9, NoKids, BodyGoes

(* A part of a disjunction.                                                *)
LEMMA RangeChildIs ==
    ASSUME program \in Programs, program' = program,
           NEW kids, NEW t, NEW start, NEW end, NEW cond, NEW scope,
           t.ins \in DOMAIN Code, Code[t.ins].op = "Or",
           start \in Nat \ {0}, end \in 1 .. Len(Code[t.ins].items) + 1, start < end,
           kids = Spawned(scope, BodyRange(t, start, end, cond))
    PROVE  KidsOk(kids)
<1>1. /\ Len(Code[t.ins].items) \in Nat
      /\ \A j \in 1 .. Len(Code[t.ins].items) : Code[t.ins].items[j] \in DOMAIN Code
    BY CodeIs
<1>2. CASE end - start = 1
  <2>1. Code[t.ins].items[start] \in DOMAIN Code
    BY <1>1, <1>2
  <2>2. kids = Spawned(scope, Body(Code[t.ins].items[start], t.env, cond))
    BY <1>2 DEF BodyRange
  <2>3. QED
    BY <2>1, <2>2, BodyChildIs
<1>3. CASE end - start # 1
  <2>1. PICK task : task = [Body(t.ins, t.env, cond) EXCEPT !.index = start, !.end = end]
    OBVIOUS
  <2>2. /\ task.kind = "Body" /\ DOMAIN task = BodyFields /\ task.phase = "Dispatch"
        /\ task.index = start /\ task.end = end /\ task.ins = t.ins
    BY <2>1 DEF Body, BodyFields
  <2>3. Shaped(task) /\ ~Owning(task)
    BY <2>2 DEF Shaped, Owning
  <2>4. Code' = Code
    BY DEF Code
  <2>5. start + 1 < end
    BY <1>1, <1>3
  <2>6. Static(task)'
    BY <2>2, <2>4, <2>5 DEF Static, BodyPlace
  <2>7. kids = Spawned(scope, task)
    BY <1>3, <2>1 DEF BodyRange
  <2>8. QED
    BY <2>3, <2>6, <2>7, SpawnIs
<1>4. QED
    BY <1>2, <1>3

(* A disjunction with one arm left, or with a new choice.                  *)
LEMMA BodyChoiceKeeps ==
    ASSUME Here, program' = program, BodyChoice
    PROVE  Kept
<1>1. Quiet /\ queue # <<>> /\ current.kind = "Body" /\ current.phase = "Choice"
    BY TaskService DEF BodyChoice, BodyIn, Dispatch, Quiet, b, current
<1>2. DOMAIN current = BodyFields /\ BodyPlace(current) /\ program \in Programs
    BY <1>1, BodyIs
<1> DEFINE end == IF current.end = 0 THEN Len(Ins.items) + 1 ELSE current.end
<1>3. /\ Ins = Code[current.ins] /\ Ins.op = "Or" /\ current.ins \in DOMAIN Code
      /\ Len(Ins.items) \in Nat \ {0}
      /\ \A j \in 1 .. Len(Ins.items) : Ins.items[j] \in DOMAIN Code
    BY <1>1, <1>2, CodeIs DEF BodyPlace, Ins, b
<1>4. /\ current.index \in Nat \ {0} /\ end \in 1 .. Len(Ins.items) + 1
      /\ current.index < end
    BY <1>1, <1>2, <1>3 DEF BodyPlace
<1>5. /\ current.index + 1 = end =>
            Finish(Spawned(current.cond, Body(Ins.items[current.index], current.env, current.cond)))
      /\ current.index + 1 # end =>
            Requeue([current EXCEPT !.phase = "Left", !.end = end, !.choice = births + 1], <<>>)
    BY DEF BodyChoice, b
<1> HIDE DEF end
<1>6. CASE current.index + 1 = end
  <2>1. PICK kids : kids = Spawned(current.cond, Body(Ins.items[current.index], current.env,
                                                      current.cond))
    OBVIOUS
  <2>2. Finish(kids) /\ Context
    <3>1. Finish(kids)
      BY <1>5, <1>6, <2>1
    <3>2. QED
      BY <1>1, <3>1, QuietIs
  <2>3. Ins.items[current.index] \in DOMAIN Code
    BY <1>3, <1>4, <1>6
  <2>4. KidsOk(kids)
    BY <1>2, <2>1, <2>3, BodyChildIs
  <2>5. QED
    BY <1>1, <2>2, <2>4, FinishKeeps
<1>7. CASE current.index + 1 # end
  <2>1. PICK task, kids :
           /\ task = [current EXCEPT !.phase = "Left", !.end = end, !.choice = births + 1]
           /\ kids = <<>>
    OBVIOUS
  <2>2. Requeue(task, kids)
    BY <1>5, <1>7, <2>1
  <2>3. /\ DOMAIN task = BodyFields /\ task.kind = "Body" /\ task.id = current.id
        /\ task.ins = current.ins /\ task.end = end /\ task.index = current.index
        /\ task.phase = "Left"
    BY <1>1, <1>2, <2>1 DEF BodyFields
  <2>4. current.index + 1 < end
    BY <1>3, <1>4, <1>7
  <2>5. BodyPlace(task)
    BY <1>3, <1>4, <2>3, <2>4 DEF BodyPlace
  <2>6. Owning(current) /\ Held(task)
    BY <1>1, <2>3 DEF Owning, Held
  <2>7. QED
    BY <1>1, <2>1, <2>2, <2>3, <2>5, <2>6, NoKids, BodyGoes
<1>8. QED
    BY <1>6, <1>7

(* Both halves of at least two arms have an arm.                           *)
LEMMA SplitIs ==
    ASSUME Here, queue # <<>>, current.kind = "Body", current.phase \in {"Left", "Right"}
    PROVE  /\ current.ins \in DOMAIN Code /\ Code[current.ins].op = "Or"
           /\ current.index \in Nat \ {0} /\ Split \in Nat \ {0} /\ current.index < Split
           /\ Split < current.end /\ current.end \in 1 .. Len(Code[current.ins].items) + 1
           /\ Split \in 1 .. Len(Code[current.ins].items) + 1
<1>1. /\ current.ins \in DOMAIN Code /\ Code[current.ins].op = "Or"
      /\ current.index \in Nat \ {0} /\ current.index + 1 < current.end
      /\ current.end \in 1 .. Len(Code[current.ins].items) + 1
      /\ Len(Code[current.ins].items) \in Nat
    BY BodyIs, CodeIs DEF BodyPlace
<1>2. \A n \in Nat : 1 < n => n \div 2 \in Nat /\ 0 < n \div 2 /\ n \div 2 < n
    OBVIOUS
<1> DEFINE n == current.end - current.index
<1>3. n \in Nat /\ 1 < n /\ Split = current.index + n \div 2
    BY <1>1 DEF Split, b
<1>4. n \div 2 \in Nat /\ 0 < n \div 2 /\ n \div 2 < n
    BY <1>2, <1>3
<1>6. current.end \in Nat
    BY <1>1
<1> HIDE DEF n
<1>7. Split \in Nat \ {0} /\ current.index < Split
    BY <1>1, <1>3, <1>4
<1>8. Split < current.end
  <2>1. current.end = current.index + n
    BY <1>1, <1>6 DEF n
  <2>2. QED
    BY <1>1, <1>3, <1>4, <2>1
<1>9. QED
    BY <1>1, <1>6, <1>7, <1>8

(* The left half of the arms is spawned.                                   *)
LEMMA BodyLeftKeeps ==
    ASSUME Here, program' = program, BodyLeft
    PROVE  Kept
<1>1. Quiet /\ queue # <<>> /\ current.kind = "Body" /\ current.phase = "Left"
    BY BodyOwnIs DEF BodyLeft
<1>2. DOMAIN current = BodyFields /\ BodyPlace(current) /\ program \in Programs
    BY <1>1, BodyIs
<1>3. PICK task, kids, cond :
         /\ task = [current EXCEPT !.phase = "Right"]
         /\ kids = Spawned(cond, BodyRange(current, current.index, Split, cond))
         /\ Requeue(task, kids)
    BY DEF BodyLeft, b
<1>4. KidsOk(kids)
    BY <1>1, <1>2, <1>3, SplitIs, RangeChildIs
<1>5. /\ DOMAIN task = BodyFields /\ task.kind = "Body" /\ task.id = current.id
      /\ task.ins = current.ins /\ task.end = current.end /\ task.index = current.index
      /\ task.phase = "Right"
    BY <1>1, <1>2, <1>3 DEF BodyFields
<1>6. BodyPlace(task) /\ Owning(current) /\ Held(task)
    BY <1>1, <1>2, <1>5 DEF BodyPlace, Owning, Held
<1>7. QED
    BY <1>1, <1>3, <1>4, <1>5, <1>6, BodyGoes

(* The right half is spawned and the lane is released.                     *)
LEMMA BodyRightKeeps ==
    ASSUME Here, program' = program, BodyRight
    PROVE  Kept
<1>1. Quiet /\ queue # <<>> /\ current.kind = "Body" /\ current.phase = "Right"
    BY BodyOwnIs DEF BodyRight
<1>2. program \in Programs /\ Context
    BY <1>1, BodyIs, QuietIs
<1>3. PICK kids, cond :
         /\ kids = Spawned(cond, BodyRange(current, Split, current.end, cond))
         /\ Finish(kids)
    BY DEF BodyRight, b
<1>4. KidsOk(kids)
    BY <1>1, <1>2, <1>3, SplitIs, RangeChildIs
<1>5. QED
    BY <1>1, <1>2, <1>3, <1>4, FinishKeeps

-----------------------------------------------------------------------------
(* The readers: whatever graph they read, their matches are tuples of the  *)
(* occurrences there are now.                                              *)

(* A set of numbers that is not empty has a least one.                     *)
LEMMA LeastNatural ==
    ASSUME NEW S \in SUBSET Nat, S # {}
    PROVE  \E k \in S : \A j \in S : k <= j
<1> DEFINE R == {p \in Nat \X Nat : p[1] < p[2]}
<1>1. IsWellFoundedOn(R, Nat)
    BY NatLessThanWellFounded DEF OpToRel
<1>2. PICK k \in S : \A j \in S : <<j, k>> \notin R
  <2> HIDE DEF R
  <2> QED
    BY <1>1, WFMin
<1>3. \A j \in S : ~(j < k)
    BY <1>2
<1>4. QED
    BY <1>3

(* There is a first trigger.                                               *)
LEMMA FirstTriggerIs ==
    ASSUME NEW triggers, triggers # {}, \A x \in triggers : x[1] \in Nat /\ x[2] \in Nat
    PROVE  FirstTrigger(triggers) \in triggers
<1>1. PICK r \in {x[1] : x \in triggers} : \A j \in {x[1] : x \in triggers} : r <= j
    BY LeastNatural
<1> DEFINE these == {x \in triggers : x[1] = r}
<1>2. PICK h \in {x[2] : x \in these} : \A j \in {x[2] : x \in these} : h <= j
  <2>1. {x[2] : x \in these} # {} /\ {x[2] : x \in these} \in SUBSET Nat
    BY <1>1
  <2>2. QED
    BY <2>1, LeastNatural
<1>3. PICK x \in these : x[2] = h
    BY <1>2
<1>4. \A u \in triggers : x[1] < u[1] \/ (x[1] = u[1] /\ x[2] <= u[2])
  <2>1. SUFFICES ASSUME NEW u \in triggers, ~(x[1] < u[1]) PROVE x[1] = u[1] /\ x[2] <= u[2]
    OBVIOUS
  <2>2. r <= u[1] /\ x[1] = r /\ r \in Nat /\ u[1] \in Nat
    BY <1>1, <1>3
  <2>3. u \in these
    BY <2>1, <2>2
  <2>4. QED
    BY <1>2, <1>3, <2>2, <2>3
<1>5. QED
    BY <1>4 DEF FirstTrigger

(* Rules are numbered and their heads are atoms of the program.            *)
LEMMA RulesAre ==
    ASSUME program \in Programs
    PROVE  /\ RuleId \subseteq Nat
           /\ \A r \in RuleId : /\ Heads(r) \in Seq(Atoms(program))
                               /\ Len(Heads(r)) \in Nat /\ DOMAIN Heads(r) = 1 .. Len(Heads(r))
                               /\ DOMAIN Heads(r) \subseteq Nat
<1>1. RuleId \subseteq Nat /\ \A r \in RuleId : Heads(r) \in Seq(Atoms(program))
    BY ProgramsArePrepared DEF RuleId, Rules, Heads
<1>2. \A q \in Seq(Atoms(program)) : /\ Len(q) \in Nat /\ DOMAIN q = 1 .. Len(q)
                                     /\ DOMAIN q \subseteq Nat
    OBVIOUS
<1>3. QED
    BY <1>1, <1>2

(* What is found in an older graph are tuples of the present one.          *)
LEMMA DiscoveredIs ==
    ASSUME program \in Programs, NEW g, NEW r \in RuleId, NEW h \in DOMAIN Heads(r),
           NEW o \in DOMAIN g.facts, NEW scope, Older(g), Heads(r)[h].rel = g.facts[o].rel
    PROVE  \A m \in Discovered(g, r, h, o, scope) : Tuple(r, m.occs)
<1>1. ASSUME NEW occs \in [DOMAIN Heads(r) -> DOMAIN g.facts],
             \A k \in DOMAIN Heads(r) : g.facts[occs[k]].rel = Heads(r)[k].rel
      PROVE  Tuple(r, occs)
    BY <1>1 DEF Tuple, Older
<1>2. SUFFICES ASSUME NEW m \in Discovered(g, r, h, o, scope) PROVE Tuple(r, m.occs)
    OBVIOUS
<1>3. CASE DirectAnchor(r)
  <2>1. m.occs = <<o>>
    BY <1>3 DEF Discovered
  <2>2. DOMAIN Heads(r) = {1} /\ h = 1
    BY <1>3, RulesAre DEF DirectAnchor
  <2>3. m.occs \in [DOMAIN Heads(r) -> DOMAIN g.facts] /\ m.occs[1] = o
    BY <2>1, <2>2
  <2>4. QED
    BY <1>1, <2>2, <2>3
<1>4. CASE ~DirectAnchor(r)
  <2>1. m \in Matches(g, r, h, o, scope)
    BY <1>4 DEF Discovered
  <2>2. PICK q \in [DOMAIN Heads(r) -> Occurrence(g)] :
           /\ m.occs = q
           /\ \A k \in DOMAIN q : g.facts[q[k]].rel = Heads(r)[k].rel
    BY <2>1 DEF Matches
  <2>3. QED
    BY <1>1, <2>2 DEF Occurrence
<1>5. QED
    BY <1>3, <1>4

(* What a set of triggers holds.                                           *)
TriggersFit(triggers, rel) ==
    \A x \in triggers : /\ x[1] \in RuleId /\ x[2] \in DOMAIN Heads(x[1])
                        /\ Heads(x[1])[x[2]].rel = rel

(* The triggers of a relation are heads of that relation.                  *)
LEMMA TriggersAre ==
    ASSUME NEW rel, NEW identityOnly
    PROVE  TriggersFit(Triggers(rel, identityOnly), rel)
BY DEF Triggers, TriggersFit

(* The activation of an occurrence of an older graph is a sound child.     *)
LEMMA ActivateChildIs ==
    ASSUME program' = program, NEW kids, NEW graph, NEW occ, NEW cond, NEW only, NEW scope,
           Older(graph)', occ \in DOMAIN graph.facts,
           kids = Spawned(scope, Activate(graph, occ, cond, only))
    PROVE  KidsOk(kids)
<1>1. PICK task : task = Activate(graph, occ, cond, only)
    OBVIOUS
<1>2. /\ task.kind = "Activate" /\ DOMAIN task = ActivateFields
      /\ task.graph = graph /\ task.occ = occ
      /\ task.triggers = Triggers(graph.facts[occ].rel, only)
    BY <1>1 DEF Activate, ActivateFields
<1>3. Shaped(task) /\ ~Owning(task)
    BY <1>2 DEF Shaped, Owning
<1>4. RuleId' = RuleId /\ \A r : Heads(r)' = Heads(r)
    BY DEF RuleId, Rules, Heads
<1>5. TriggersFit(task.triggers, graph.facts[occ].rel)
    BY <1>2, TriggersAre
<1>6. Static(task)'
    BY <1>2, <1>4, <1>5 DEF Static, TriggersFit
<1>7. kids = Spawned(scope, task)
    BY <1>1
<1>8. QED
    BY <1>3, <1>6, <1>7, SpawnIs

(* So is a search for a trigger that fits its occurrence.                  *)
LEMMA SearchChildIs ==
    ASSUME Here, Quiet, NEW kids, NEW r, NEW found, NEW scope,
           \A m \in found : Tuple(r, m.occs), kids = Spawned(scope, Search(r, found))
    PROVE  KidsOk(kids)
<1>1. PICK task : task = Search(r, found)
    OBVIOUS
<1>2. /\ task.kind = "Search" /\ DOMAIN task = SearchFields /\ task.rule = r
      /\ task.found = found /\ task.candidate = None /\ task.transport = FALSE
      /\ task.commit = None
    BY <1>1 DEF Search, SearchFields
<1>3. Shaped(task) /\ ~Owning(task) /\ Static(task)
    BY <1>2 DEF Shaped, Owning, Static
<1>4. Static(task)' /\ kids = Spawned(scope, task)
    BY <1>1, <1>3, QuietIs
<1>5. QED
    BY <1>3, <1>4, SpawnIs

(* An activation starts a search.                                          *)
LEMMA ActivateTickKeeps ==
    ASSUME Here, program' = program, ActivateTick
    PROVE  Kept
<1>1. Quiet /\ queue # <<>> /\ current.kind = "Activate"
    BY OwnIs DEF ActivateTick
<1>2. /\ DOMAIN current = ActivateFields /\ Static(current) /\ program \in Programs
    BY <1>1, CurrentIs DEF Shaped, Structure
<1>3. CASE current.triggers = {}
    BY <1>1, <1>3, DoneKeeps DEF ActivateTick
<1>4. CASE current.triggers # {}
  <2>1. PICK x : x = FirstTrigger(current.triggers)
    OBVIOUS
  <2>2. /\ Older(current.graph) /\ current.occ \in DOMAIN current.graph.facts
        /\ TriggersFit(current.triggers, current.graph.facts[current.occ].rel)
    BY <1>1, <1>2 DEF Static, TriggersFit
  <2>3. \A y \in current.triggers : y[1] \in Nat /\ y[2] \in Nat
    BY <1>2, <2>2, RulesAre DEF TriggersFit
  <2>4. x \in current.triggers
    BY <1>4, <2>1, <2>3, FirstTriggerIs
  <2>5. /\ x[1] \in RuleId /\ x[2] \in DOMAIN Heads(x[1])
        /\ Heads(x[1])[x[2]].rel = current.graph.facts[current.occ].rel
    BY <2>2, <2>4 DEF TriggersFit
  <2>6. PICK task, kids, found :
           /\ task = [current EXCEPT !.triggers = @ \ {x}]
           /\ found = Discovered(current.graph, x[1], x[2], current.occ, current.cond)
           /\ kids = Spawned(current.scope, Search(x[1], found))
    OBVIOUS
  <2>7. Requeue(task, kids)
    BY <1>4, <2>1, <2>6 DEF ActivateTick
  <2>8. \A m \in found : Tuple(x[1], m.occs)
    BY <1>2, <2>2, <2>5, <2>6, DiscoveredIs
  <2>9. KidsOk(kids)
    BY <1>1, <2>6, <2>8, SearchChildIs
  <2>10. /\ task.kind = "Activate" /\ DOMAIN task = ActivateFields /\ task.id = current.id
         /\ task.graph = current.graph /\ task.occ = current.occ
         /\ task.triggers \subseteq current.triggers
    BY <1>1, <1>2, <2>6 DEF ActivateFields
  <2>11. Shaped(task) /\ ~Owning(task)
    BY <2>10 DEF Shaped, Owning
  <2>12. Static(task)
    BY <2>2, <2>10 DEF Static, TriggersFit
  <2>13. QED
    BY <1>1, <2>7, <2>9, <2>10, <2>11, <2>12, RequeueKeeps
<1>5. QED
    BY <1>3, <1>4

(* A wake starts an activation.                                            *)
LEMMA WakeTickKeeps ==
    ASSUME Here, program' = program, WakeTick
    PROVE  Kept
<1>1. Quiet /\ queue # <<>> /\ current.kind = "Wake"
    BY OwnIs DEF WakeTick
<1>2. /\ DOMAIN current = WakeFields /\ Static(current)
    BY <1>1, CurrentIs DEF Shaped
<1>3. CASE current.found = {}
    BY <1>1, <1>3, DoneKeeps DEF WakeTick
<1>4. CASE current.found # {}
  <2>0. PICK f \in current.found : \E task, kids :
           /\ task = [current EXCEPT !.found = @ \ {f}]
           /\ \/ kids = <<>>
              \/ kids = Spawned(current.scope, Activate(current.graph, f.occ, f.cond, TRUE))
           /\ Requeue(task, kids)
    BY <1>4 DEF WakeTick
  <2>1. PICK task, kids :
           /\ f \in current.found
           /\ task = [current EXCEPT !.found = @ \ {f}]
           /\ \/ kids = <<>>
              \/ kids = Spawned(current.scope, Activate(current.graph, f.occ, f.cond, TRUE))
           /\ Requeue(task, kids)
    BY <2>0
  <2>2. /\ Older(current.graph) /\ f.occ \in DOMAIN current.graph.facts
    BY <1>1, <1>2, <2>1 DEF Static
  <2>3. PICK graph : graph = current.graph
    OBVIOUS
  <2>4. Older(graph)'
    BY <1>1, <2>2, <2>3 DEF Quiet, Older, Facts
  <2>5. ASSUME kids # <<>> PROVE KidsOk(kids)
    <3>1. kids = Spawned(current.scope, Activate(graph, f.occ, f.cond, TRUE))
      BY <2>1, <2>3, <2>5
    <3>2. f.occ \in DOMAIN graph.facts
      BY <2>2, <2>3
    <3>3. PICK scope, occ, cond : scope = current.scope /\ occ = f.occ /\ cond = f.cond
      OBVIOUS
    <3>4. kids = Spawned(scope, Activate(graph, occ, cond, TRUE)) /\ occ \in DOMAIN graph.facts
      BY <3>1, <3>2, <3>3
    <3>5. QED
      BY <2>4, <3>4, ActivateChildIs
  <2>6. KidsOk(kids)
    BY <2>5, NoKids DEF KidsOk
  <2>7. /\ task.kind = "Wake" /\ DOMAIN task = WakeFields /\ task.id = current.id
        /\ task.graph = current.graph /\ task.found \subseteq current.found
    BY <1>1, <1>2, <2>1 DEF WakeFields
  <2>8. Shaped(task) /\ ~Owning(task)
    BY <2>7 DEF Shaped, Owning
  <2>9. Static(task)
    BY <1>1, <1>2, <2>7 DEF Static
  <2>10. QED
    BY <1>1, <2>1, <2>6, <2>7, <2>8, <2>9, RequeueKeeps
<1>5. QED
    BY <1>3, <1>4

(* What is known of a dispatched search.                                   *)
LEMMA SearchIs ==
    ASSUME Here, queue # <<>>, current.kind = "Search"
    PROVE  /\ DOMAIN current = SearchFields /\ current.transport \in BOOLEAN
           /\ Static(current) /\ program \in Programs
           /\ Owning(current) => lane = current.id /\ Held(current)
BY CurrentIs DEF Shaped, Structure

(* A search finds its next match.                                          *)
LEMMA SearchTickKeeps ==
    ASSUME Here, program' = program, SearchTick
    PROVE  Kept
<1>1. /\ Quiet /\ queue # <<>> /\ current.kind = "Search"
      /\ current.candidate = None /\ current.commit = None
    BY OwnIs DEF SearchTick
<1>2. /\ DOMAIN current = SearchFields /\ current.transport \in BOOLEAN /\ Static(current)
    BY <1>1, SearchIs
<1>3. CASE current.found = {}
    BY <1>1, <1>3, DoneKeeps DEF SearchTick
<1>4. CASE current.found # {}
  <2>0. PICK m \in current.found :
           Requeue([current EXCEPT !.found = @ \ {m}, !.candidate = m], <<>>)
    BY <1>4 DEF SearchTick
  <2>1. PICK task, kids :
           /\ m \in current.found
           /\ task = [current EXCEPT !.found = @ \ {m}, !.candidate = m]
           /\ kids = <<>>
           /\ Requeue(task, kids)
    BY <2>0
  <2>2. /\ task.kind = "Search" /\ DOMAIN task = SearchFields /\ task.id = current.id
        /\ task.rule = current.rule /\ task.found \subseteq current.found
        /\ task.candidate = m /\ task.transport = current.transport /\ task.commit = None
    BY <1>1, <1>2, <2>1 DEF SearchFields
  <2>3. Shaped(task) /\ task.transport = FALSE
    BY <1>1, <1>2, <2>2 DEF Shaped, Static
  <2>4. Static(task)
    BY <1>1, <1>2, <2>1, <2>2, <2>3 DEF Static
  <2>5. ~Owning(task)
    BY <2>2, <2>3 DEF Owning
  <2>6. QED
    BY <1>1, <2>1, <2>2, <2>3, <2>4, <2>5, NoKids, RequeueKeeps
<1>5. QED
    BY <1>3, <1>4

(* A match waits for the lane.                                             *)
LEMMA SearchAcquireKeeps ==
    ASSUME Here, program' = program, SearchAcquire
    PROVE  Kept
<1>1. Quiet /\ queue # <<>> /\ current.kind = "Search" /\ current.candidate # None
    BY OwnIs DEF SearchAcquire
<1>2. /\ DOMAIN current = SearchFields /\ Static(current)
      /\ Owning(current) => Held(current)
    BY <1>1, SearchIs
<1>3. PICK task : task = [current EXCEPT !.transport = TRUE] /\ AcquireAndRequeue(task)
    BY DEF SearchAcquire
<1>4. /\ task.kind = "Search" /\ DOMAIN task = SearchFields /\ task.id = current.id
      /\ task.rule = current.rule /\ task.found = current.found
      /\ task.candidate = current.candidate /\ task.transport = TRUE
      /\ task.commit = current.commit
    BY <1>1, <1>2, <1>3 DEF SearchFields
<1>5. Shaped(task) /\ Static(task)
    BY <1>1, <1>2, <1>4 DEF Shaped, Static
<1>6. Held(task)
    BY <1>1, <1>2, <1>4 DEF Held, Owning
<1>7. QED
    BY <1>1, <1>3, <1>4, <1>5, <1>6, AcquireKeeps

(* A commit begins with the state of now; it has checked nothing yet.      *)
LEMMA SearchBeginKeeps ==
    ASSUME Here, program' = program, SearchBegin
    PROVE  Kept
<1>1. Quiet /\ queue # <<>> /\ current.kind = "Search" /\ current.transport
    BY OwnIs DEF SearchBegin
<1>2. /\ DOMAIN current = SearchFields /\ current.transport = TRUE /\ Static(current)
      /\ Owning(current) => lane = current.id
    BY <1>1, SearchIs
<1>3. current.candidate # None /\ Tuple(current.rule, current.candidate.occs)
    BY <1>1, <1>2 DEF Static
<1>4. PICK k : k = [phase |-> "Start", base |-> state, staged |-> state,
                    occs |-> current.candidate.occs, env |-> current.candidate.vars,
                    cond |-> current.candidate.cond, act |-> active, head |-> 1]
    OBVIOUS
<1>5. PICK task, kids : /\ task = [current EXCEPT !.candidate = None, !.transport = FALSE,
                                                  !.commit = k]
                        /\ kids = <<>>
                        /\ Requeue(task, kids)
    BY <1>4 DEF SearchBegin
<1>6. /\ task.kind = "Search" /\ DOMAIN task = SearchFields /\ task.id = current.id
      /\ task.rule = current.rule /\ task.found = current.found
      /\ task.candidate = None /\ task.transport = FALSE /\ task.commit = k
    BY <1>1, <1>2, <1>5 DEF SearchFields
<1>7. /\ DOMAIN k = CommitFields /\ k.phase = "Start" /\ k.base = state /\ k.staged = state
      /\ k.act = active /\ k.head = 1 /\ k.occs = current.candidate.occs
    BY <1>4 DEF CommitFields
<1>8. Shaped(task) /\ Static(task)
    BY <1>1, <1>2, <1>3, <1>6, <1>7 DEF Shaped, Static
<1>9. Graphs
    BY DEF Here, Knowledge
<1>10. Shrunk(Facts, k.staged.graph.facts)
    BY <1>7, <1>9 DEF Graphs, Shrunk, Facts
<1>11. Committing(current.rule, k)
    BY <1>7, <1>9, <1>10 DEF Committing, Graphs, Facts
<1>12. Held(task)
    BY <1>6, <1>11 DEF Held
<1>13. Owning(current)
    BY <1>1, <1>2 DEF Owning
<1>14. QED
    BY <1>1, <1>2, <1>5, <1>6, <1>8, <1>12, <1>13, NoKids, RequeueKeeps

(* A job that is not done yet.                                             *)
LEMMA TaskPendingKeeps ==
    ASSUME Here, program' = program, TaskPending
    PROVE  Kept
<1>1. Quiet /\ queue # <<>>
    BY TaskService DEF TaskPending, Quiet
<1>2. PICK task, kids : task = current /\ kids = <<>>
    OBVIOUS
<1>3. Requeue(task, kids)
    BY <1>2 DEF TaskPending
<1>4. QED
    BY <1>1, <1>2, <1>3, NoKids, CurrentIs, RequeueKeeps

-----------------------------------------------------------------------------
(* The commit.                                                             *)

(* A commit in progress owns the lane and knows what it has checked.       *)
LEMMA CommitIs ==
    ASSUME Here, queue # <<>>, current.kind = "Search", c # None
    PROVE  /\ DOMAIN current = SearchFields /\ Static(current) /\ Owning(current)
           /\ current.transport = FALSE /\ current.candidate = None
           /\ lane = current.id /\ Committing(rule, c) /\ Tuple(rule, c.occs)
           /\ program \in Programs /\ active \subseteq World /\ Graphs
<1>1. /\ DOMAIN current = SearchFields /\ current.transport \in BOOLEAN
      /\ Static(current) /\ program \in Programs
      /\ Owning(current) => lane = current.id /\ Held(current)
    BY SearchIs
<1>2. Owning(current)
    BY DEF Owning, c
<1>3. /\ current.candidate = None /\ Tuple(current.rule, current.commit.occs)
      /\ current.transport = TRUE => current.candidate # None
    BY <1>1 DEF Static, c
<1>4. Committing(current.rule, current.commit)
    BY <1>1, <1>2 DEF Held, c
<1>5. active \subseteq World /\ Graphs
    BY DEF Here, Knowledge
<1>6. QED
    BY <1>1, <1>2, <1>3, <1>4, <1>5 DEF c, rule

(* A commit that only goes on with its own work is quiet.                  *)
LEMMA CommitOwnIs ==
    ASSUME NEW phase, CommitOwn(phase), program' = program
    PROVE  /\ Quiet /\ queue # <<>> /\ current.kind = "Search" /\ c # None
           /\ c.phase = phase /\ c.cond # {}
BY TaskService DEF CommitOwn, CommitIn, Dispatch, others, Quiet, current

(* The search of a commit, with its next commit or none.                   *)
LEMMA CommitTaskIs ==
    ASSUME Here, queue # <<>>, current.kind = "Search", c # None, NEW k, NEW task,
           task = Commit(k), k = None \/ k.occs = c.occs
    PROVE  /\ task.kind = "Search" /\ DOMAIN task = SearchFields /\ task.id = current.id
           /\ task.commit = k /\ task.transport = FALSE /\ task.rule = rule
           /\ Shaped(task) /\ Static(task)
<1>1. /\ DOMAIN current = SearchFields /\ Static(current) /\ current.transport = FALSE
      /\ current.candidate = None /\ Tuple(rule, c.occs)
    BY CommitIs
<1>2. /\ task.kind = "Search" /\ DOMAIN task = SearchFields /\ task.id = current.id
      /\ task.commit = k /\ task.transport = current.transport /\ task.rule = current.rule
      /\ task.found = current.found /\ task.candidate = current.candidate
    BY <1>1 DEF Commit, SearchFields
<1>3. Shaped(task) /\ Static(task)
    BY <1>1, <1>2 DEF Shaped, Static, rule
<1>4. QED
    BY <1>1, <1>2, <1>3 DEF rule

(* A commit goes on if its next one knows what it should.                  *)
LEMMA CommitGoes ==
    ASSUME Here, Quiet, queue # <<>>, current.kind = "Search", c # None, NEW k,
           Requeue(Commit(k), <<>>), k.occs = c.occs, Committing(rule, k)
    PROVE  Kept
<1>1. PICK task, kids : task = Commit(k) /\ kids = <<>>
    OBVIOUS
<1>2. Requeue(task, kids)
    BY <1>1
<1>3. Owning(current) /\ lane = current.id
    BY CommitIs
<1>4. /\ task.kind = "Search" /\ task.id = current.id /\ task.commit = k /\ task.rule = rule
      /\ Shaped(task) /\ Static(task)
    BY <1>1, CommitTaskIs
<1>5. Held(task)
    BY <1>4 DEF Held
<1>6. QED
    BY <1>1, <1>2, <1>3, <1>4, <1>5, NoKids, RequeueKeeps

(* The match is dropped.                                                   *)
LEMMA RejectKeeps ==
    ASSUME Here, Quiet, queue # <<>>, current.kind = "Search", c # None, CommitReject
    PROVE  Kept
<1>1. PICK task, kids : task = Commit(None) /\ kids = <<>>
    OBVIOUS
<1>2. RequeueReleasing(task, kids)
    BY <1>1 DEF CommitReject
<1>3. lane = current.id /\ Context
    BY CommitIs, QuietIs
<1>4. /\ task.kind = "Search" /\ task.id = current.id /\ task.commit = None
      /\ task.transport = FALSE /\ Shaped(task) /\ Static(task)
    BY <1>1, CommitTaskIs
<1>5. ~Owning(task) /\ Static(task)'
    BY <1>4, QuietIs DEF Owning
<1>6. QED
    BY <1>1, <1>2, <1>3, <1>4, <1>5, NoKids, ReleasingKeeps

(* A commit that has no world left is dropped.                             *)
LEMMA CommitEmptyKeeps ==
    ASSUME Here, program' = program, CommitEmpty
    PROVE  Kept
<1>1. Quiet /\ queue # <<>> /\ current.kind = "Search" /\ c # None /\ CommitReject
    BY OwnIs DEF CommitEmpty
<1>2. QED
    BY <1>1, RejectKeeps

(* The scope is filtered by `active'.                                      *)
LEMMA CommitStartKeeps ==
    ASSUME Here, program' = program, CommitStart
    PROVE  Kept
<1>1. Quiet /\ queue # <<>> /\ current.kind = "Search" /\ c # None /\ c.phase = "Start"
    BY CommitOwnIs DEF CommitStart
<1>2. Committing(rule, c)
    BY <1>1, CommitIs
<1>3. PICK k : k = [c EXCEPT !.phase = "Head", !.cond = @ \cap c.act]
    OBVIOUS
<1>4. /\ DOMAIN k = CommitFields /\ k.phase = "Head" /\ k.cond = c.cond \cap c.act
      /\ k.occs = c.occs /\ k.base = c.base /\ k.act = c.act /\ k.staged = c.staged
      /\ k.head = c.head
    BY <1>2, <1>3 DEF Committing, CommitFields
<1>5. Committing(rule, k)
    BY <1>1, <1>2, <1>4 DEF Committing
<1>6. Requeue(Commit(k), <<>>)
    BY <1>3 DEF CommitStart
<1>7. QED
    BY <1>1, <1>4, <1>5, <1>6, CommitGoes

(* One more head fits and is distinct from those before, or the commit is  *)
(* dropped.                                                                *)
LEMMA CommitHeadKeeps ==
    ASSUME Here, program' = program, CommitHead
    PROVE  Kept
<1>1. /\ Quiet /\ queue # <<>> /\ current.kind = "Search" /\ c # None /\ c.phase = "Head"
      /\ c.head <= Len(c.occs)
    BY CommitOwnIs DEF CommitHead
<1>2. Committing(rule, c)
    BY <1>1, CommitIs
<1> DEFINE again == \E i \in 1 .. c.head - 1 : c.occs[i] = c.occs[c.head]
<1>3. CASE CommitReject
    BY <1>1, <1>3, RejectKeeps
<1>4. CASE ~CommitReject
  <2>1. PICK k : k = [c EXCEPT !.head = @ + 1,
                        !.cond = @ \cap FitsHead(state.graph, rule, c.head, c.occs[c.head], c.env)]
    OBVIOUS
  <2>2. c.base.graph = state.graph
    BY <1>2 DEF Committing
  <2>3. Requeue(Commit(k), <<>>) /\ ~again
    BY <1>4, <2>1, <2>2 DEF CommitHead
  <2>4. /\ DOMAIN k = CommitFields /\ k.phase = "Head" /\ k.head = c.head + 1
        /\ k.cond = c.cond \cap FitsHead(state.graph, rule, c.head, c.occs[c.head], c.env)
        /\ k.occs = c.occs /\ k.base = c.base /\ k.act = c.act /\ k.staged = c.staged
        /\ k.env = c.env
    BY <1>1, <1>2, <2>1 DEF Committing, CommitFields
  <2>5. c.head \in Nat \ {0}
    BY <1>1, <1>2 DEF Committing
  <2>6. ASSUME NEW h \in 1 .. k.head - 1
        PROVE  /\ \A w \in k.cond : w \in FitsHead(state.graph, rule, h, k.occs[h], k.env)
               /\ \A i \in 1 .. h - 1 : k.occs[i] # k.occs[h]
    <3>1. CASE h = c.head
      BY <2>3, <2>4, <2>5, <3>1
    <3>2. CASE h # c.head
      <4>1. h \in 1 .. c.head - 1
        BY <2>4, <2>5, <3>2
      <4>2. QED
        BY <1>1, <1>2, <2>4, <4>1 DEF Committing
    <3>3. QED
      BY <3>1, <3>2
  <2>7. Committing(rule, k)
    BY <1>1, <1>2, <2>4, <2>5, <2>6 DEF Committing
  <2>8. QED
    BY <1>1, <2>3, <2>4, <2>7, CommitGoes
<1>5. QED
    BY <1>3, <1>4

(* Heads that fit the same bindings agree at the ports of a slot.          *)
LEMMA HeadsFit ==
    ASSUME Graphs, program \in Programs, NEW r, NEW occs, NEW env, NEW w, Tuple(r, occs),
           \A h \in DOMAIN occs : /\ w \in FitsHead(state.graph, r, h, occs[h], env)
                                 /\ \A i \in 1 .. h - 1 : occs[i] # occs[h]
    PROVE  Fitting(r, occs, w)
<1>1. /\ DOMAIN occs = 1 .. Len(occs) /\ Len(occs) \in Nat /\ DOMAIN occs = DOMAIN Heads(r)
      /\ Heads(r) \in Seq(Atoms(program)) /\ \A h \in DOMAIN occs : occs[h] \in DOMAIN Facts
    BY TupleIs
<1>2. Distinct(occs)
    BY <1>1 DEF Distinct
<1>3. ASSUME NEW h \in DOMAIN occs
      PROVE  /\ w \in Facts[occs[h]].live
             /\ DOMAIN Facts[occs[h]].args = DOMAIN Heads(r)[h].args
             /\ \A p \in DOMAIN Facts[occs[h]].args :
                   Same(state.graph, Facts[occs[h]].args[p], env[Heads(r)[h].args[p]], w)
  <2>1. /\ w \in Facts[occs[h]].live
        /\ \A p \in DOMAIN Facts[occs[h]].args :
              Same(state.graph, Facts[occs[h]].args[p], env[Heads(r)[h].args[p]], w)
    BY DEF FitsHead, Facts
  <2>2. PICK a \in Atoms(program) :
           a.rel = Facts[occs[h]].rel /\ DOMAIN a.args = DOMAIN Facts[occs[h]].args
    BY <1>1 DEF Graphs
  <2>6. Heads(r)[h] \in Atoms(program)
    <3>1. h \in DOMAIN Heads(r)
      BY <1>1
    <3>2. QED
      BY ONLY <1>1, <3>1
  <2>7. Heads(r)[h].rel = Facts[occs[h]].rel
    BY <1>1 DEF Tuple
  <2>3. Heads(r)[h] \in Atoms(program) /\ Heads(r)[h].rel = a.rel
    BY <2>2, <2>6, <2>7
  <2>4. DOMAIN a.args = DOMAIN Heads(r)[h].args
    BY <2>2, <2>3, ProgramsArePrepared
  <2>5. QED
    BY <2>1, <2>2, <2>4
<1>4. ASSUME NEW slot \in 1 .. Rules[r].bound, NEW p \in Ports(r, slot), NEW q \in Ports(r, slot)
      PROVE  Same(state.graph, Facts[occs[p[1]]].args[p[2]], Facts[occs[q[1]]].args[q[2]], w)
  <2>1. /\ p[1] \in DOMAIN occs /\ p[2] \in DOMAIN Heads(r)[p[1]].args
        /\ Heads(r)[p[1]].args[p[2]] = slot
        /\ q[1] \in DOMAIN occs /\ q[2] \in DOMAIN Heads(r)[q[1]].args
        /\ Heads(r)[q[1]].args[q[2]] = slot
    BY <1>1 DEF Ports
  <2>2. /\ Same(state.graph, Facts[occs[p[1]]].args[p[2]], env[slot], w)
        /\ Same(state.graph, Facts[occs[q[1]]].args[q[2]], env[slot], w)
    BY <1>3, <2>1
  <2>3. QED
    BY <2>2 DEF Same
<1>5. QED
    BY <1>2, <1>3, <1>4 DEF Fitting

(* When every head fits, the rule does.                                    *)
LEMMA CommitHeadsDoneKeeps ==
    ASSUME Here, program' = program, CommitHeadsDone
    PROVE  Kept
<1>1. /\ Quiet /\ queue # <<>> /\ current.kind = "Search" /\ c # None /\ c.phase = "Head"
      /\ c.head > Len(c.occs)
    BY CommitOwnIs DEF CommitHeadsDone
<1>2. Committing(rule, c) /\ Tuple(rule, c.occs) /\ program \in Programs /\ Graphs
    BY <1>1, CommitIs
<1>3. PICK k : k = [c EXCEPT !.phase = "History"]
    OBVIOUS
<1>4. /\ DOMAIN k = CommitFields /\ k.phase = "History" /\ k.cond = c.cond
      /\ k.occs = c.occs /\ k.base = c.base /\ k.act = c.act /\ k.staged = c.staged
    BY <1>2, <1>3 DEF Committing, CommitFields
<1>5. DOMAIN c.occs = 1 .. Len(c.occs) /\ Len(c.occs) \in Nat /\ c.head \in Nat \ {0}
    BY <1>1, <1>2, TupleIs DEF Committing
<1>6. ASSUME NEW h \in DOMAIN c.occs
      PROVE  /\ \A w \in c.cond : w \in FitsHead(state.graph, rule, h, c.occs[h], c.env)
             /\ \A i \in 1 .. h - 1 : c.occs[i] # c.occs[h]
  <2>1. h \in 1 .. c.head - 1
    BY <1>1, <1>5
  <2>2. QED
    BY <1>1, <1>2, <2>1 DEF Committing
<1>7. \A w \in c.cond : Fitting(rule, c.occs, w)
    BY <1>2, <1>6, HeadsFit
<1>8. Committing(rule, k)
    BY <1>1, <1>2, <1>4, <1>7 DEF Committing
<1>9. Requeue(Commit(k), <<>>)
    BY <1>3 DEF CommitHeadsDone
<1>10. QED
    BY <1>1, <1>4, <1>8, <1>9, CommitGoes

(* Where a propagation has fired is subtracted.                            *)
LEMMA CommitHistoryKeeps ==
    ASSUME Here, program' = program, CommitHistory
    PROVE  Kept
<1>1. /\ Quiet /\ queue # <<>> /\ current.kind = "Search" /\ c # None /\ c.phase = "History"
    BY CommitOwnIs DEF CommitHistory
<1>2. Committing(rule, c) /\ Tuple(rule, c.occs) /\ program \in Programs /\ active \subseteq World
    BY <1>1, CommitIs
<1>3. Rules[rule].kept \in Nat
    BY <1>2, TupleIs
<1>4. CASE Pure(rule)
  <2>1. PICK k : k = [c EXCEPT !.phase = "Record",
                               !.cond = @ \ Recorded(c.base.history, rule, c.occs)]
    OBVIOUS
  <2>2. /\ DOMAIN k = CommitFields /\ k.phase = "Record"
        /\ k.cond = c.cond \ Recorded(c.base.history, rule, c.occs)
        /\ k.occs = c.occs /\ k.base = c.base /\ k.act = c.act /\ k.staged = c.staged
    BY <1>2, <2>1 DEF Committing, CommitFields
  <2>3. \A w \in k.cond : <<rule, k.occs, w>> \notin state.history
    BY <1>1, <1>2, <2>2 DEF Committing, Recorded
  <2>4. Committing(rule, k)
    BY <1>1, <1>2, <1>4, <2>2, <2>3 DEF Committing
  <2>5. Requeue(Commit(k), <<>>)
    BY <1>4, <2>1 DEF CommitHistory
  <2>6. QED
    BY <1>1, <2>2, <2>4, <2>5, CommitGoes
<1>5. CASE ~Pure(rule)
  <2>1. PICK k : k = [c EXCEPT !.phase = "Consume", !.head = Rules[rule].kept + 1]
    OBVIOUS
  <2>2. /\ DOMAIN k = CommitFields /\ k.phase = "Consume" /\ k.head = Rules[rule].kept + 1
        /\ k.cond = c.cond /\ k.occs = c.occs /\ k.base = c.base /\ k.act = c.act
        /\ k.staged = c.staged
    BY <1>2, <2>1 DEF Committing, CommitFields
  <2>3. \A h : h \notin Rules[rule].kept + 1 .. k.head - 1
    BY <1>3, <2>2
  <2>4. Committing(rule, k)
    BY <1>1, <1>2, <1>3, <1>5, <2>2, <2>3 DEF Committing
  <2>5. Requeue(Commit(k), <<>>)
    BY <1>5, <2>1 DEF CommitHistory
  <2>6. QED
    BY <1>1, <2>2, <2>4, <2>5, CommitGoes
<1>6. QED
    BY <1>4, <1>5

(* Where it fires is recorded in the staged history.                       *)
LEMMA CommitRecordKeeps ==
    ASSUME Here, program' = program, CommitRecord
    PROVE  Kept
<1>1. /\ Quiet /\ queue # <<>> /\ current.kind = "Search" /\ c # None /\ c.phase = "Record"
    BY CommitOwnIs DEF CommitRecord
<1>2. Committing(rule, c) /\ Tuple(rule, c.occs) /\ program \in Programs
    BY <1>1, CommitIs
<1>3. PICK k : k = [c EXCEPT !.phase = "Fresh",
          !.staged.history = c.base.history \cup {<<rule, c.occs, w>> : w \in c.cond}]
    OBVIOUS
<1>4. /\ DOMAIN k = CommitFields /\ k.phase = "Fresh" /\ k.cond = c.cond
      /\ k.occs = c.occs /\ k.base = c.base /\ k.act = c.act
      /\ k.staged.graph = c.staged.graph /\ DOMAIN k.staged = DOMAIN c.staged
      /\ k.staged.history = c.base.history \cup {<<rule, c.occs, w>> : w \in c.cond}
    BY <1>2, <1>3 DEF Committing, CommitFields
<1>5. Pure(rule) /\ Rules[rule].kept = Len(c.occs) /\ Len(c.occs) \in Nat
    BY <1>1, <1>2, TupleIs DEF Committing, Pure
<1>6. \A h : h \notin Rules[rule].kept + 1 .. Len(k.occs)
    BY <1>4, <1>5
<1>7. /\ \A w \in k.cond : <<rule, k.occs, w>> \in k.staged.history
      /\ state.history \subseteq k.staged.history
    BY <1>1, <1>2, <1>4 DEF Committing
<1>8. Committing(rule, k)
    BY <1>1, <1>2, <1>4, <1>5, <1>6, <1>7 DEF Committing
<1>9. Requeue(Commit(k), <<>>)
    BY <1>3 DEF CommitRecord
<1>10. QED
    BY <1>1, <1>4, <1>8, <1>9, CommitGoes

(* One fact lives in fewer worlds.                                         *)
LEMMA ShrinkIs ==
    ASSUME NEW g, NEW old, NEW o \in DOMAIN g.facts, NEW worlds,
           DOMAIN g = {"facts", "rep"}, g.facts \in Seq(Elems(g.facts)), Shrunk(old, g.facts)
    PROVE  LET new == WithLiveness(g, o, g.facts[o].live \ worlds)
           IN /\ DOMAIN new = {"facts", "rep"}
              /\ new.facts \in Seq(Elems(new.facts))
              /\ Shrunk(old, new.facts)
              /\ \A q \in DOMAIN g.facts : new.facts[q].live \subseteq g.facts[q].live
              /\ new.facts[o].live \cap worlds = {}
<1>1. PICK new : new = WithLiveness(g, o, g.facts[o].live \ worlds)
    OBVIOUS
<1>2. /\ DOMAIN new = {"facts", "rep"} /\ DOMAIN new.facts = DOMAIN g.facts
      /\ \A q \in DOMAIN g.facts : q # o => new.facts[q] = g.facts[q]
      /\ new.facts = [g.facts EXCEPT ![o] = new.facts[o]]
    BY <1>1 DEF WithLiveness
<1>3. new.facts[o] = [g.facts[o] EXCEPT !.live = g.facts[o].live \ worlds]
    BY <1>1 DEF WithLiveness
<1>4. DOMAIN g.facts[o] = {"rel", "args", "live"}
    BY DEF Shrunk
<1>5. /\ DOMAIN new.facts[o] = {"rel", "args", "live"}
      /\ new.facts[o].rel = g.facts[o].rel /\ new.facts[o].args = g.facts[o].args
      /\ new.facts[o].live = g.facts[o].live \ worlds
    BY <1>3, <1>4
<1>6. new.facts \in Seq(Elems(new.facts))
  <2>1. DOMAIN new.facts = 1 .. Len(g.facts) /\ Len(g.facts) \in Nat
    BY <1>2
  <2>2. new.facts = [q \in DOMAIN g.facts |-> new.facts[q]]
    BY <1>2
  <2>3. \A q \in DOMAIN g.facts : new.facts[q] \in Elems(new.facts)
    BY <1>2 DEF Elems
  <2>4. new.facts \in [1 .. Len(g.facts) -> Elems(new.facts)]
    BY <1>2, <2>1, <2>2, <2>3
  <2>5. PICK n, f, S : n = Len(g.facts) /\ f = new.facts /\ S = Elems(new.facts)
    OBVIOUS
  <2>6. n \in Nat /\ f \in [1 .. n -> S]
    BY <2>1, <2>4, <2>5
  <2>7. f \in Seq(S)
    BY ONLY <2>6
  <2>8. QED
    BY ONLY <2>5, <2>7
<1>7. \A q \in DOMAIN g.facts :
         /\ DOMAIN new.facts[q] = {"rel", "args", "live"}
         /\ new.facts[q].rel = g.facts[q].rel /\ new.facts[q].args = g.facts[q].args
         /\ new.facts[q].live \subseteq g.facts[q].live
    BY <1>2, <1>5 DEF Shrunk
<1>8. Shrunk(old, new.facts)
    BY <1>2, <1>7 DEF Shrunk
<1>9. QED
    BY <1>1, <1>2, <1>5, <1>6, <1>7, <1>8

(* One more removed head is dead in the staged graph.                      *)
LEMMA CommitConsumeKeeps ==
    ASSUME Here, program' = program, CommitConsume
    PROVE  Kept
<1>1. /\ Quiet /\ queue # <<>> /\ current.kind = "Search" /\ c # None /\ c.phase = "Consume"
    BY CommitOwnIs DEF CommitConsume
<1>2. Committing(rule, c) /\ Tuple(rule, c.occs) /\ program \in Programs /\ Graphs
    BY <1>1, CommitIs
<1>3. /\ DOMAIN c.occs = 1 .. Len(c.occs) /\ Len(c.occs) \in Nat /\ c.head \in Nat \ {0}
      /\ Rules[rule].kept \in Nat /\ c.head > Rules[rule].kept
      /\ \A h \in DOMAIN c.occs : c.occs[h] \in DOMAIN Facts
    BY <1>1, <1>2, TupleIs DEF Committing
<1>4. \A h \in Rules[rule].kept + 1 .. c.head - 1 :
         \A w \in c.cond : w \notin c.staged.graph.facts[c.occs[h]].live
    BY <1>1, <1>2 DEF Committing
<1>5. CASE c.head > Len(c.occs)
  <2>1. PICK k : k = [c EXCEPT !.phase = "Fresh"]
    OBVIOUS
  <2>2. /\ DOMAIN k = CommitFields /\ k.phase = "Fresh" /\ k.cond = c.cond
        /\ k.occs = c.occs /\ k.base = c.base /\ k.act = c.act /\ k.staged = c.staged
    BY <1>2, <2>1 DEF Committing, CommitFields
  <2>3. Rules[rule].kept + 1 .. Len(c.occs) \subseteq Rules[rule].kept + 1 .. c.head - 1
    BY <1>3, <1>5
  <2>4. \A h \in Rules[rule].kept + 1 .. Len(c.occs) :
           \A w \in c.cond : w \notin c.staged.graph.facts[c.occs[h]].live
    BY <1>4, <2>3
  <2>5. Committing(rule, k)
    BY <1>1, <1>2, <2>2, <2>4 DEF Committing
  <2>6. Requeue(Commit(k), <<>>)
    BY <1>5, <2>1 DEF CommitConsume
  <2>7. QED
    BY <1>1, <2>2, <2>5, <2>6, CommitGoes
<1>6. CASE ~(c.head > Len(c.occs))
  <2> DEFINE g == c.staged.graph
             o == c.occs[c.head]
  <2>1. PICK new : new = WithLiveness(g, o, g.facts[o].live \ c.cond)
    OBVIOUS
  <2>2. PICK k : k = [c EXCEPT !.head = @ + 1, !.staged.graph = new]
    OBVIOUS
  <2>3. Requeue(Commit(k), <<>>)
    BY <1>6, <2>1, <2>2 DEF CommitConsume
  <2>4. /\ DOMAIN k = CommitFields /\ k.phase = "Consume" /\ k.head = c.head + 1
        /\ k.cond = c.cond /\ k.occs = c.occs /\ k.base = c.base /\ k.act = c.act
        /\ k.staged.graph = new /\ DOMAIN k.staged = DOMAIN c.staged
        /\ k.staged.history = c.staged.history
    BY <1>1, <1>2, <2>2 DEF Committing, CommitFields
  <2>5. /\ o \in DOMAIN g.facts /\ DOMAIN g = {"facts", "rep"}
        /\ g.facts \in Seq(Elems(g.facts)) /\ Shrunk(Facts, g.facts)
        /\ DOMAIN g.facts = DOMAIN Facts
    <3>1. c.head \in DOMAIN c.occs
      BY <1>3, <1>6
    <3>2. QED
      BY <1>2, <1>3, <3>1 DEF Committing, Shrunk
  <2> HIDE DEF g, o
  <2>6. /\ DOMAIN new = {"facts", "rep"}
        /\ new.facts \in Seq(Elems(new.facts)) /\ Shrunk(Facts, new.facts)
        /\ \A q \in DOMAIN g.facts : new.facts[q].live \subseteq g.facts[q].live
        /\ new.facts[o].live \cap c.cond = {}
    BY <2>1, <2>5, ShrinkIs, ZenonT(30)
  <2>7. ASSUME NEW h \in Rules[rule].kept + 1 .. k.head - 1, NEW w \in c.cond
        PROVE  w \notin new.facts[c.occs[h]].live
    <3>1. CASE h = c.head
      BY <2>6, <3>1 DEF o
    <3>2. CASE h # c.head
      <4>1. h \in Rules[rule].kept + 1 .. c.head - 1 /\ h \in DOMAIN c.occs
        BY <1>3, <1>6, <2>4, <3>2
      <4>2. c.occs[h] \in DOMAIN g.facts /\ w \notin g.facts[c.occs[h]].live
        BY <1>3, <1>4, <2>5, <4>1 DEF g
      <4>3. QED
        BY <2>6, <4>2
    <3>3. QED
      BY <3>1, <3>2
  <2>8. Committing(rule, k)
    BY <1>1, <1>2, <1>3, <2>4, <2>6, <2>7 DEF Committing
  <2>9. QED
    BY <1>1, <2>3, <2>4, <2>8, CommitGoes
<1>7. QED
    BY <1>5, <1>6

(* A fresh variable changes no check.                                      *)
LEMMA CommitFreshKeeps ==
    ASSUME Here, program' = program, CommitFresh
    PROVE  Kept
<1>1. /\ Quiet /\ queue # <<>> /\ current.kind = "Search" /\ c # None /\ c.phase = "Fresh"
    BY CommitOwnIs DEF CommitFresh
<1>2. Committing(rule, c) /\ lane = current.id
    BY <1>1, CommitIs
<1>3. PICK k : k = [c EXCEPT !.env = Append(@, next.var)]
    OBVIOUS
<1>4. PICK task : task = Commit(k)
    OBVIOUS
<1>5. /\ queue' = Append(Tail(queue), task) /\ next' = [next EXCEPT !.var = @ + 1]
      /\ UNCHANGED laneVars
    BY <1>3, <1>4 DEF CommitFresh
<1>6. /\ DOMAIN k = CommitFields /\ k.phase = "Fresh" /\ k.cond = c.cond
      /\ k.occs = c.occs /\ k.base = c.base /\ k.act = c.act /\ k.staged = c.staged
    BY <1>1, <1>2, <1>3 DEF Committing, CommitFields
<1>7. Committing(rule, k)
    BY <1>1, <1>2, <1>6 DEF Committing
<1>8. /\ task.kind = "Search" /\ task.id = current.id /\ task.commit = k /\ task.rule = rule
      /\ Shaped(task) /\ Static(task)
    BY <1>1, <1>4, <1>6, CommitTaskIs
<1>9. Held(task)
    BY <1>7, <1>8 DEF Held
<1>10. QED
    BY <1>1, <1>2, <1>5, <1>8, <1>9, VariableKeeps

-----------------------------------------------------------------------------
(* The actions that change the state or `active'.                          *)

(* A fact is posted.                                                       *)
LEMMA BodyPostKeeps ==
    ASSUME Here, program' = program, BodyPost
    PROVE  Kept /\ Grows
<1>1. /\ queue # <<>> /\ current.kind = "Body" /\ current.phase = "Post"
      /\ active' = active /\ ready' = ready
    BY TaskService DEF BodyPost, BodyIn, Dispatch, b, current
<1>2. /\ BodyPlace(current) /\ program \in Programs
      /\ lane = current.id /\ current.base = state.graph
    BY <1>1, BodyIs DEF Owning, Held
<1>3. /\ Graphs /\ active \subseteq World
    BY DEF Here, Knowledge
<1> DEFINE x == [rel |-> Ins.rel,
                 args |-> [p \in DOMAIN Ins.args |-> b.env[Ins.args[p]]], live |-> b.cond]
<1>4. PICK graph : graph = [state.graph EXCEPT !.facts = Append(@, x)]
    OBVIOUS
<1>5. Posted(current.base, Ins.rel, [p \in DOMAIN Ins.args |-> b.env[Ins.args[p]]], b.cond) = graph
    BY <1>2, <1>4 DEF Posted
<1>6. PICK kids : kids = Spawned(b.cond, Activate(graph, Len(graph.facts), b.cond, FALSE))
    OBVIOUS
<1>7. state' = [state EXCEPT !.graph = graph] /\ Finish(kids)
    BY <1>5, <1>6 DEF BodyPost, b
<1>8. Ins \in Atoms(program)
    BY <1>1, <1>2 DEF BodyPlace, Ins, Code, Atoms, b
<1>9. DOMAIN x = {"rel", "args", "live"} /\ x.rel = Ins.rel /\ DOMAIN x.args = DOMAIN Ins.args
    OBVIOUS
<1> HIDE DEF x
<1>10. /\ DOMAIN state' = {"graph", "history"} /\ state'.history = state.history
       /\ state'.graph = graph /\ DOMAIN graph = {"facts", "rep"}
       /\ graph.facts = Append(Facts, x)
    BY <1>3, <1>4, <1>7 DEF Graphs, Facts
<1>11. /\ Facts \in Seq(Elems(Facts)) /\ Len(Facts) \in Nat /\ DOMAIN Facts = 1 .. Len(Facts)
    BY <1>3 DEF Graphs
<1>12. /\ graph.facts \in Seq(Elems(graph.facts))
       /\ DOMAIN graph.facts = 1 .. Len(Facts) + 1 /\ Len(graph.facts) = Len(Facts) + 1
       /\ graph.facts[Len(Facts) + 1] = x
       /\ \A o \in DOMAIN Facts : graph.facts[o] = Facts[o]
  <2>1. IsSeq(Facts) /\ IsSeq(<<x>>)
    BY <1>11, OneIs DEF IsSeq
  <2>5. PICK q : q = Facts
    OBVIOUS
  <2>6. IsSeq(q) /\ graph.facts = Append(q, x)
    BY <1>10, <2>1, <2>5
  <2>7. Append(q, x) = q \o <<x>>
    BY <2>6, AppendIs
  <2>8. IsSeq(q \o <<x>>)
    BY <2>1, <2>6, CatIs
  <2>2. IsSeq(graph.facts)
    BY <2>6, <2>7, <2>8
  <2>3. Facts \in Seq(Elems(Facts) \cup {x})
    BY <1>11
  <2>4. QED
    BY <1>10, <1>11, <2>2, <2>3 DEF IsSeq
<1>13. Facts' = graph.facts
    BY <1>10 DEF Facts
<1>14. Grows
    BY <1>10, <1>11, <1>12, <1>13 DEF Grows
<1>15. Graphs'
  <2>1. \A o \in DOMAIN graph.facts : o \in DOMAIN Facts \/ o = Len(Facts) + 1
    BY <1>11, <1>12
  <2>2. ASSUME NEW o \in DOMAIN graph.facts
        PROVE  /\ DOMAIN graph.facts[o] = {"rel", "args", "live"}
               /\ \E a \in Atoms(program) : /\ a.rel = graph.facts[o].rel
                                            /\ DOMAIN a.args = DOMAIN graph.facts[o].args
    <3>1. CASE o \in DOMAIN Facts
      BY <1>3, <1>12, <3>1 DEF Graphs
    <3>2. CASE o = Len(Facts) + 1
      BY <1>8, <1>9, <1>12, <3>2
    <3>3. QED
      BY <2>1, <3>1, <3>2
  <2>3. QED
    BY <1>10, <1>12, <1>13, <2>2 DEF Graphs
<1>16. Context
    BY <1>1, <1>2, <1>3, <1>14, <1>15 DEF Context
<1>17. PICK occ, cond : occ = Len(graph.facts) /\ cond = b.cond
    OBVIOUS
<1>18. KidsOk(kids)
  <2>1. Older(graph)' /\ occ \in DOMAIN graph.facts
    BY <1>11, <1>12, <1>13, <1>17 DEF Older
  <2>2. kids = Spawned(cond, Activate(graph, occ, cond, FALSE))
    BY <1>6, <1>17
  <2>3. QED
    BY <2>1, <2>2, ActivateChildIs
<1>19. QED
    BY <1>1, <1>7, <1>14, <1>16, <1>18, FinishKeeps

(* Variables are merged: the occurrences are what they were.               *)
LEMMA BodyMergeKeeps ==
    ASSUME Here, program' = program, BodyMerge
    PROVE  Kept /\ Grows
<1>1. /\ queue # <<>> /\ current.kind = "Body" /\ current.phase = "Merge"
      /\ active' = active /\ ready' = ready
    BY TaskService DEF BodyMerge, BodyIn, Dispatch, b, current
<1>2. /\ lane = current.id /\ current.base = state.graph
    BY <1>1, BodyIs DEF Owning, Held
<1>3. /\ Graphs /\ active \subseteq World
    BY DEF Here, Knowledge
<1>4. PICK loser, changed, x, y, graph, kids :
         /\ graph = Merged(current.base, x, y, loser)
         /\ state' = [state EXCEPT !.graph = graph]
         /\ kids = Spawned(changed, Wake(graph, Woken(current.base, loser)))
         /\ Finish(kids)
    BY DEF BodyMerge, b
<1>5. /\ DOMAIN state' = {"graph", "history"} /\ state'.history = state.history
      /\ state'.graph = graph /\ DOMAIN graph = {"facts", "rep"} /\ graph.facts = Facts
    BY <1>2, <1>3, <1>4 DEF Graphs, Facts, Merged
<1>6. Facts' = Facts
    BY <1>5 DEF Facts
<1>7. Grows /\ Graphs'
    BY <1>3, <1>5, <1>6 DEF Grows, Graphs
<1>8. Context
    BY <1>1, <1>2, <1>3, <1>7 DEF Context
<1>9. KidsOk(kids)
  <2>1. PICK task : task = Wake(graph, Woken(current.base, loser))
    OBVIOUS
  <2>2. /\ task.kind = "Wake" /\ DOMAIN task = WakeFields /\ task.graph = graph
        /\ task.found = Woken(current.base, loser)
    BY <2>1 DEF Wake, WakeFields
  <2>3. \A f \in task.found : f.occ \in DOMAIN Facts
    BY <1>2, <2>2 DEF Woken, Occurrence, Facts
  <2>4. Older(graph)'
    BY <1>5, <1>6 DEF Older
  <2>5. Shaped(task) /\ ~Owning(task)
    BY <2>2 DEF Shaped, Owning
  <2>6. Static(task)'
    BY <1>5, <2>2, <2>3, <2>4 DEF Static
  <2>7. kids = Spawned(changed, task)
    BY <1>4, <2>1
  <2>8. QED
    BY <2>5, <2>6, <2>7, SpawnIs
<1>10. QED
    BY <1>1, <1>4, <1>7, <1>8, <1>9, FinishKeeps

(* Worlds fail.                                                            *)
LEMMA BodyFailKeeps ==
    ASSUME Here, program' = program, BodyFail
    PROVE  Kept
<1>1. /\ queue # <<>> /\ current.kind = "Body" /\ current.phase = "Fail"
      /\ active' = current.act \ current.cond /\ ready' = ready /\ state' = state
      /\ Finish(<<>>)
    BY TaskService DEF BodyFail, BodyIn, Dispatch, b, current
<1>2. /\ lane = current.id /\ current.act = active
    BY <1>1, BodyIs DEF Owning, Held
<1>3. Graphs /\ active \subseteq World
    BY DEF Here, Knowledge
<1>4. Grows /\ Graphs'
    BY <1>1, <1>3, QuietGrows
<1>5. Context
    BY <1>1, <1>2, <1>3, <1>4 DEF Context
<1>6. PICK kids : kids = <<>>
    OBVIOUS
<1>7. Finish(kids) /\ KidsOk(kids)
    BY <1>1, <1>6, NoKids
<1>8. QED
    BY <1>1, <1>5, <1>7, FinishKeeps

(* A rule is applied.                                                      *)
LEMMA CommitReadyIs ==
    ASSUME Here, program' = program, CommitApplied
    PROVE  /\ queue # <<>> /\ current.kind = "Search" /\ c # None /\ c.phase = "Fresh"
           /\ c.cond # {} /\ active' = active /\ ready' = ready /\ state' = c.staged
           /\ lane = current.id /\ Committing(rule, c) /\ Tuple(rule, c.occs)
           /\ program \in Programs /\ active \subseteq World /\ Graphs
           /\ Grows /\ Graphs'
<1>1. /\ queue # <<>> /\ current.kind = "Search" /\ c # None /\ c.phase = "Fresh"
      /\ c.cond # {} /\ active' = active /\ ready' = ready /\ state' = c.staged
    BY TaskService DEF CommitApplied, CommitIn, Dispatch, current
<1>2. /\ lane = current.id /\ Committing(rule, c) /\ Tuple(rule, c.occs)
      /\ program \in Programs /\ active \subseteq World /\ Graphs
    BY <1>1, CommitIs
<1>3. Facts' = c.staged.graph.facts
    BY <1>1 DEF Facts
<1>4. /\ Shrunk(Facts, Facts') /\ Facts' \in Seq(Elems(Facts'))
      /\ DOMAIN state' = {"graph", "history"} /\ DOMAIN state'.graph = {"facts", "rep"}
      /\ state.history \subseteq state'.history
    BY <1>1, <1>2, <1>3 DEF Committing
<1>5. Grows
    BY <1>4 DEF Grows, Shrunk
<1>6. Graphs'
    BY <1>2, <1>4 DEF Graphs, Shrunk
<1>7. QED
    BY <1>1, <1>2, <1>5, <1>6

(* The staged state replaces the one it was checked against.               *)
LEMMA CommitAppliedKeeps ==
    ASSUME Here, program' = program, CommitApplied
    PROVE  Kept
<1>1. /\ queue # <<>> /\ current.kind = "Search" /\ c # None
      /\ active' = active /\ ready' = ready /\ lane = current.id
      /\ Tuple(rule, c.occs) /\ program \in Programs /\ active \subseteq World
      /\ Grows /\ Graphs'
    BY CommitReadyIs
<1>2. Context
    BY <1>1 DEF Context
<1>3. PICK task, kids : /\ task = Commit(None)
                        /\ kids = Spawned(c.cond, Body(Rules[rule].body, c.env, c.cond))
    OBVIOUS
<1>4. RequeueReleasing(task, kids)
    BY <1>3 DEF CommitApplied
<1>5. Rules[rule].body \in DOMAIN Code
    BY <1>1, TupleIs
<1>6. KidsOk(kids)
    BY <1>1, <1>3, <1>5, BodyChildIs
<1>7. /\ task.kind = "Search" /\ task.id = current.id /\ task.commit = None
      /\ task.transport = FALSE /\ Shaped(task) /\ Static(task)
    BY <1>1, <1>3, CommitTaskIs
<1>8. ~Owning(task) /\ Static(task)'
    BY <1>1, <1>7, StaticStays DEF Owning
<1>9. QED
    BY <1>1, <1>2, <1>4, <1>6, <1>7, <1>8, ReleasingKeeps

-----------------------------------------------------------------------------
(* The completion's actions.                                               *)

(* What they leave alone but the lane, `ready', `active' and the queue.    *)
Aside == UNCHANGED <<program, state, next>>

(* The state is as it was, so what was known of it is.                     *)
LEMMA AsideIs ==
    ASSUME Here, Aside
    PROVE  /\ Grows /\ Graphs'
           /\ \A t : Static(t) => Static(t)'
           /\ \A t : Task(t) => Task(t)'
<1>1. Graphs
    BY DEF Here, Knowledge
<1>2. Grows /\ Graphs'
    BY <1>1, QuietGrows DEF Aside
<1>3. ASSUME NEW t, Static(t) PROVE Static(t)'
    BY <1>2, <1>3, StaticStays
<1>4. ASSUME NEW t, Task(t) PROVE Task(t)'
    BY <1>4 DEF Task, Shaped, Aside
<1>5. QED
    BY <1>2, <1>3, <1>4

(* `ready' knows `active' and has the lane when it should.                 *)
ReadyKnows ==
    /\ DOMAIN ready' = ReadyFields
    /\ ready'.phase \in {"Transport", "Filter", "Publish"} => lane' = Completion
    /\ ready'.phase \in {"Filter", "Publish"} => ready'.act = active'

(* A step of the completion that leaves the lane, the queue and `active'   *)
(* alone.                                                                  *)
LEMMA AsideKeeps ==
    ASSUME Here, Aside, ReadyKnows, UNCHANGED <<active, queue, laneVars>>
    PROVE  Kept
<1>1. /\ Grows /\ Graphs' /\ \A t : Static(t) => Static(t)'
      /\ \A t : Task(t) => Task(t)'
    BY AsideIs
<1>2. \A t : Held(t) => Held(t)'
    BY HeldStays DEF Aside
<1>3. Structure /\ Knowledge
    BY DEF Here
<1>4. /\ queue' = queue /\ waiting' = waiting /\ lane' = lane /\ queued' = queued
      /\ next' = next /\ program' = program
    BY DEF laneVars, Aside
<1>5. Structure'
  <2>1. /\ IsSeq(queue') /\ IsSeq(waiting') /\ IdsDistinct(queue')
        /\ \A t \in Elems(queue') : Task(t)' /\ (Owning(t) => lane' = t.id)
        /\ \A t \in Elems(waiting') : t.id = Completion \/ (Task(t)' /\ ~Owning(t))
    BY <1>1, <1>3, <1>4 DEF Structure
  <2>2. QED
    BY <1>3, <1>4, <2>1 DEF Structure, ReadyKnows
<1>6. Knowledge'
  <2>1. \A t \in Tasks' : Static(t)' /\ (Owning(t) => Held(t)')
    BY <1>1, <1>2, <1>3, <1>4 DEF Knowledge, Tasks
  <2>2. QED
    BY <1>1, <1>3, <2>1 DEF Knowledge, ReadyKnows
<1>7. LaneStep
    BY <1>4 DEF LaneStep, L!vars
<1>8. QED
    BY <1>5, <1>6, <1>7 DEF Kept

(* The certificate gives the lane away.                                    *)
LEMMA ReadyReleaseKeeps ==
    ASSUME Here, Aside, lane = Completion, ReleaseLane(queue, <<>>), active' \subseteq World,
           ready' = NoReady
    PROVE  Kept
<1>1. /\ Grows /\ Graphs' /\ \A t : Static(t) => Static(t)'
      /\ \A t : Task(t) => Task(t)'
    BY AsideIs
<1>2. Structure /\ LaneInv /\ Knowledge
    BY DEF Here
<1>3. PICK before, kept : before = queue /\ kept = Ids(queue)
    OBVIOUS
<1>4. /\ IsSeq(<<>>) /\ Elems(<<>>) = {} /\ Ids(<<>>) = {} /\ IdsDistinct(<<>>)
    BY EmptyIs
<1>5. /\ IsSeq(before) /\ IdsDistinct(before) /\ ReleaseLane(before, <<>>)
    BY <1>2, <1>3 DEF Structure
<1>6. Ids(queue) \subseteq TaskId /\ Ids(waiting) \cap Ids(queue) = {}
    BY <1>2, LaneSays
<1>7. /\ Ids(before) \cap Ids(<<>>) = {}
      /\ (Ids(before) \cup Ids(<<>>)) \cap Ids(waiting) = {}
      /\ Ids(before) \cup Ids(<<>>) \subseteq TaskId
      /\ kept \subseteq Ids(before) \cup Ids(<<>>)
      /\ (Ids(before) \cup Ids(<<>>)) \cap Ids(queue) \subseteq kept
      /\ kept \in SUBSET Ids(queue)
    BY <1>3, <1>4, <1>6
<1>8. /\ IsSeq(queue') /\ IdsDistinct(queue') /\ IsSeq(waiting') /\ queued' \in BOOLEAN
      /\ \A t \in Elems(queue') : \/ t \in Elems(before) \cup Elems(<<>>)
                                  \/ t \in Elems(waiting) /\ t.id # Completion
      /\ Elems(waiting') \subseteq Elems(waiting)
      /\ L!ReleaseLane(kept)
    BY ONLY <1>2, <1>4, <1>5, <1>7, ReleaseIs
<1>9. LaneStep
  <2>1. L!Release
    BY <1>2, <1>3, <1>8, LaneSees DEF L!Release, L!ReleaseLane, L!Keep
  <2>2. QED
    BY <2>1 DEF LaneStep, L!Next
<1>10. \A t \in Elems(queue) : ~Owning(t)
  <2>1. \A t \in Elems(queue) : t.id \in TaskId
    BY <1>2, TaskIds DEF Structure, Task
  <2>2. QED
    BY <1>2, <2>1, TaskIds DEF Structure
<1>11. \A t \in Elems(queue') : Task(t)' /\ Static(t)' /\ ~Owning(t)
  <2>1. SUFFICES ASSUME NEW t \in Elems(queue') PROVE Task(t)' /\ Static(t)' /\ ~Owning(t)
    OBVIOUS
  <2>2. CASE t \in Elems(queue)
    BY <1>1, <1>2, <1>10, <2>2 DEF Structure, Knowledge, Tasks
  <2>3. CASE t \in Elems(waiting) /\ t.id # Completion
    BY <1>1, <1>2, <2>3 DEF Structure, Knowledge, Tasks
  <2>4. QED
    BY <1>3, <1>4, <1>8, <2>2, <2>3
<1>12. \A t \in Elems(waiting') :
          t.id = Completion \/ (Task(t)' /\ Static(t)' /\ ~Owning(t))
  <2>1. SUFFICES ASSUME NEW t \in Elems(waiting'), t.id # Completion
                 PROVE  Task(t)' /\ Static(t)' /\ ~Owning(t)
    OBVIOUS
  <2>2. t \in Elems(waiting)
    BY <1>8
  <2>3. Task(t) /\ ~Owning(t)
    BY <1>2, <2>1, <2>2 DEF Structure
  <2>4. Static(t)
    BY <1>2, <2>1, <2>2 DEF Knowledge, Tasks
  <2>5. QED
    BY <1>1, <2>3, <2>4
<1>16. DOMAIN ready' = ReadyFields /\ ready'.phase = "None"
    BY DEF NoReady, ReadyFields
<1>13. Structure'
    BY <1>2, <1>8, <1>11, <1>12, <1>16 DEF Structure, Aside
<1>14. Knowledge'
  <2>1. \A t \in Tasks' : Static(t)' /\ (Owning(t) => Held(t)')
    BY <1>11, <1>12 DEF Tasks
  <2>2. QED
    BY <1>1, <1>16, <2>1 DEF Knowledge
<1>15. QED
    BY <1>9, <1>13, <1>14 DEF Kept

(* The next row is scanned, or there is none left.                         *)
LEMMA NextRowIs ==
    ASSUME NEW base, DOMAIN base = ReadyFields
    PROVE  /\ DOMAIN NextRow(base) = ReadyFields
           /\ NextRow(base).phase \in {"Difference", "Scan"}
<1> DEFINE rest == {t \in TaskId : base.rows[t] # {}}
<1>1. CASE rest = {}
    BY <1>1 DEF NextRow, ReadyFields
<1>2. CASE rest # {}
  <2>1. PICK row : NextRow(base) = [base EXCEPT !.phase = "Scan", !.row = row]
    BY <1>2 DEF NextRow
  <2>2. QED
    BY <2>1 DEF ReadyFields
<1>3. QED
    BY <1>1, <1>2

(* The certificate is in the phase of its action.                          *)
LEMMA CompletionIs ==
    ASSUME NEW phase, CompletionIn(phase), Here
    PROVE  ready.phase = phase /\ DOMAIN ready = ReadyFields /\ Structure
BY DEF CompletionIn, Here, Structure

(* The pending root is frozen.                                             *)
LEMMA CaptureKeeps ==
    ASSUME Here, program' = program, Capture
    PROVE  Kept
<1>1. DOMAIN [NoReady EXCEPT !.rows = pending, !.scope = active] = ReadyFields
    BY DEF NoReady, ReadyFields
<1>2. ready'.phase \in {"Difference", "Scan"} /\ DOMAIN ready' = ReadyFields
    BY <1>1, NextRowIs DEF Capture
<1>3. Aside /\ UNCHANGED <<active, queue, laneVars>>
    BY DEF Capture, Aside, taskVars
<1>4. QED
    BY <1>2, <1>3, AsideKeeps DEF ReadyKnows

(* A row is joined, or the certificate dropped.                            *)
LEMMA ScanKeeps ==
    ASSUME Here, program' = program, Scan
    PROVE  Kept
<1>1. ready.phase = "Scan" /\ DOMAIN ready = ReadyFields
    BY CompletionIs DEF Scan
<1>2. ready'.phase \notin {"Transport", "Filter", "Publish"} /\ DOMAIN ready' = ReadyFields
  <2>1. CASE ready' = NextRow(ready)
    BY <1>1, <2>1, NextRowIs
  <2>2. CASE ready' = NoReady
    BY <2>2 DEF NoReady, ReadyFields
  <2>3. CASE ready' = [ready EXCEPT !.rows[ready.row] = {}, !.row = 0, !.blocked = Blocked]
    BY <1>1, <2>3 DEF ReadyFields
  <2>4. QED
    BY <2>1, <2>2, <2>3 DEF Scan
<1>3. Aside /\ UNCHANGED <<active, queue, laneVars>>
    BY DEF Scan, Aside, taskVars
<1>4. QED
    BY <1>2, <1>3, AsideKeeps DEF ReadyKnows

(* What is not blocked goes on, or the certificate is dropped.             *)
LEMMA DifferenceKeeps ==
    ASSUME Here, program' = program, Difference
    PROVE  Kept
<1>1. ready.phase = "Difference" /\ DOMAIN ready = ReadyFields
    BY CompletionIs DEF Difference
<1>2. ready'.phase \notin {"Transport", "Filter", "Publish"} /\ DOMAIN ready' = ReadyFields
    BY <1>1 DEF Difference, NoReady, ReadyFields
<1>3. Aside /\ UNCHANGED <<active, queue, laneVars>>
    BY DEF Difference, Aside, taskVars
<1>4. QED
    BY <1>2, <1>3, AsideKeeps DEF ReadyKnows

(* The owner captures `active'.                                            *)
LEMMA ReadyTransportKeeps ==
    ASSUME Here, program' = program, ReadyTransport
    PROVE  Kept
<1>1. ready.phase = "Transport" /\ DOMAIN ready = ReadyFields /\ lane = Completion
    BY CompletionIs DEF ReadyTransport, Structure
<1>2. ready'.phase = "Filter" /\ ready'.act = active /\ DOMAIN ready' = ReadyFields
    BY <1>1 DEF ReadyTransport, ReadyFields
<1>3. Aside /\ UNCHANGED <<active, queue, laneVars>>
    BY DEF ReadyTransport, Aside, taskVars
<1>4. QED
    BY <1>1, <1>2, <1>3, AsideKeeps DEF ReadyKnows, laneVars

(* Nobody has changed `active' since: the scope is filtered by it, or the  *)
(* lane is released.                                                       *)
LEMMA ReadyFilterKeeps ==
    ASSUME Here, program' = program, ReadyFilter
    PROVE  Kept
<1>1. ready.phase = "Filter" /\ DOMAIN ready = ReadyFields /\ lane = Completion
    BY CompletionIs DEF ReadyFilter, Structure
<1>2. Aside /\ active' = active /\ active \subseteq World
    BY DEF ReadyFilter, Aside, Here, Knowledge
<1>3. CASE ready.scope \cap ready.act = {}
  <2>1. ready' = NoReady /\ ReleaseLane(queue, <<>>)
    BY <1>3 DEF ReadyFilter
  <2>2. QED
    BY <1>1, <1>2, <2>1, ReadyReleaseKeeps
<1>4. CASE ready.scope \cap ready.act # {}
  <2>1. /\ ready' = [ready EXCEPT !.phase = "Publish", !.scope = ready.scope \cap ready.act,
                                  !.act = active]
        /\ UNCHANGED <<laneVars, queue>>
    BY <1>4 DEF ReadyFilter
  <2>2. ready'.act = active /\ DOMAIN ready' = ReadyFields
    BY <1>1, <2>1 DEF ReadyFields
  <2>3. QED
    BY <1>1, <1>2, <2>1, <2>2, AsideKeeps DEF ReadyKnows, laneVars
<1>5. QED
    BY <1>3, <1>4

(* The scope is taken from `active' and the lane is released.              *)
LEMMA PublishKeeps ==
    ASSUME Here, program' = program, Publish
    PROVE  Kept
<1>1. ready.phase = "Publish" /\ lane = Completion
    BY CompletionIs DEF Publish, Structure
<1>2. Aside /\ active' \subseteq World /\ ready' = NoReady /\ ReleaseLane(queue, <<>>)
    BY <1>1 DEF Publish, Aside, Here, Knowledge
<1>3. QED
    BY <1>1, <1>2, ReadyReleaseKeeps

(* The other steps do not touch what the invariant is about.               *)
LEMMA ApartKeeps ==
    ASSUME Here, UNCHANGED <<program, state, next, active, ready, queue, laneVars>>
    PROVE  Kept
<1>1. Aside
    BY DEF Aside
<1>2. ReadyKnows
    BY DEF ReadyKnows, laneVars, Here, Structure, Knowledge
<1>3. QED
    BY <1>1, <1>2, AsideKeeps

(* The completion takes the lane, or a place in the FIFO, once.            *)
LEMMA ReadyAcquireKeeps ==
    ASSUME Here, program' = program, ReadyAcquire
    PROVE  Kept
<1>1. ready.phase = "Acquire" /\ DOMAIN ready = ReadyFields
    BY CompletionIs DEF ReadyAcquire
<1>2. Structure /\ LaneInv /\ Knowledge
    BY DEF Here
<1>3. /\ Aside /\ active' = active /\ queue' = queue
      /\ \/ ready' = ready
         \/ (ready' = [ready EXCEPT !.phase = "Transport"] /\ lane' = Completion)
    BY DEF ReadyAcquire, Aside, taskVars
<1>4. /\ DOMAIN ready' = ReadyFields
      /\ ready'.phase = "Acquire" \/ (ready'.phase = "Transport" /\ lane' = Completion)
    BY <1>1, <1>3 DEF ReadyFields
<1>5. /\ IsSeq(waiting) /\ queued \in BOOLEAN
      /\ queued <=> Completion \in Ids(waiting)
      /\ lane \notin Ids(waiting)
      /\ Completion \notin TaskId /\ Completion # Free
    BY <1>2, LaneSays, TaskIds DEF Structure
<1>6. CASE lane = Completion
  <2>1. lane' = lane /\ waiting' = waiting /\ queued' = queued
    BY <1>5, <1>6 DEF ReadyAcquire, MayAcquire
  <2>2. QED
    BY <1>3, <1>4, <2>1, AsideKeeps DEF ReadyKnows, laneVars
<1>7. CASE lane # Completion /\ MayAcquire(Completion)
  <2>1. /\ lane = Free /\ waiting = <<>> /\ lane' = Completion /\ queued' = FALSE
        /\ waiting' = waiting
    BY <1>7 DEF ReadyAcquire, MayAcquire
  <2>2. IdsOf(waiting) = <<>>
    BY <1>5, <2>1, IdsOfIs
  <2>3. [s \in {Completion} |-> queued'] =
           [[s \in {Completion} |-> queued] EXCEPT ![Completion] = FALSE]
    BY <2>1
  <2>4. L!ScalarTake(Completion)
    BY <1>2, <1>3, <2>1, <2>2, <2>3, LaneSees DEF L!ScalarTake, L!Uncontended
  <2>5. LaneStep
    BY <2>4 DEF LaneStep, L!Next
  <2>6. \A t \in Elems(queue) : ~Owning(t)
    BY <1>2, <2>1, TaskIds DEF Structure, Task
  <2>7. QED
    BY <1>2, <1>3, <1>4, <2>1, <2>5, <2>6, AsideIs DEF Kept, Structure, Knowledge, Tasks, Aside
<1>8. CASE ~MayAcquire(Completion)
  <2>1. lane' = lane /\ ready' = ready /\ queued' = TRUE
    BY <1>8 DEF ReadyAcquire
  <2>2. CASE queued
    <3>1. waiting' = waiting /\ queued' = queued
      BY <1>8, <2>1, <2>2 DEF ReadyAcquire
    <3>2. QED
      BY <1>3, <1>4, <2>1, <3>1, AsideKeeps DEF ReadyKnows, laneVars, Here, Structure, Knowledge
  <2>3. CASE ~queued
    <3>1. waiting' = Append(waiting, [id |-> Completion])
      BY <1>8, <2>3 DEF ReadyAcquire
    <3>2. waiting' = waiting \o <<[id |-> Completion]>>
      BY <1>5, <3>1, AppendIs
    <3>3. /\ IsSeq(waiting') /\ Elems(waiting') = Elems(waiting) \cup {[id |-> Completion]}
      BY <1>5, <3>2, OneIs, CatIs
    <3>4. IdsOf(waiting') = Append(IdsOf(waiting), Completion)
      BY <1>5, <3>1, IdsOfIs
    <3>5. IdsOf(waiting) = <<>> <=> waiting = <<>>
      BY <1>5, IdsOfIs
    <3>6. lane # Completion /\ ~(lane = Free /\ waiting = <<>>)
      BY <1>8 DEF MayAcquire
    <3>7. [s \in {Completion} |-> queued'] =
             [[s \in {Completion} |-> queued] EXCEPT ![Completion] = TRUE]
      BY <2>1
    <3>8. L!ScalarWait(Completion)
      BY <1>2, <1>3, <2>1, <2>3, <3>4, <3>5, <3>6, <3>7, LaneSees
         DEF L!ScalarWait, L!Uncontended
    <3>9. LaneStep
      BY <3>8 DEF LaneStep, L!Next
    <3>13. \A t : Task(t) => Task(t)'
      BY <1>3, AsideIs
    <3>14. \A t \in Elems(queue') : Task(t)' /\ (Owning(t) => lane' = t.id)
      BY <1>2, <1>3, <2>1, <3>13 DEF Structure
    <3>15. \A t \in Elems(waiting') : t.id = Completion \/ (Task(t)' /\ ~Owning(t))
      <4>1. SUFFICES ASSUME NEW t \in Elems(waiting'), t.id # Completion
                     PROVE  Task(t)' /\ ~Owning(t)
        OBVIOUS
      <4>2. t \in Elems(waiting)
        BY <3>3, <4>1
      <4>3. QED
        BY <1>2, <3>13, <4>1, <4>2 DEF Structure
    <3>16. ready'.phase \in {"Transport", "Filter", "Publish"} => lane' = Completion
      BY <1>4
    <3>10. Structure'
      BY <1>2, <1>3, <1>4, <2>1, <3>3, <3>14, <3>15, <3>16 DEF Structure, Aside
    <3>11. Knowledge'
      <4>1. \A t \in Tasks' : t \in Tasks
        BY <1>3, <3>3 DEF Tasks
      <4>2. \A t : Held(t) => Held(t)'
        BY <1>3, HeldStays DEF Aside
      <4>3. QED
        BY <1>2, <1>3, <2>1, <4>1, <4>2, AsideIs DEF Knowledge
    <3>12. QED
      BY <3>9, <3>10, <3>11 DEF Kept
  <2>4. QED
    BY <1>5, <2>2, <2>3
<1>9. QED
    BY <1>6, <1>7, <1>8

-----------------------------------------------------------------------------
(* What was applied.                                                       *)

(* Every step but one: nothing is applied, and the state grows.            *)
Unapplied == Grows /\ applied' = applied

(* A step that leaves the state and what was applied alone.                *)
LEMMA UnappliedIs ==
    ASSUME UNCHANGED <<program, state, applied>>
    PROVE  Unapplied
BY QuietGrows DEF Unapplied

(* Without an application, traces and promises stay.                       *)
LEMMA UnappliedKeeps ==
    ASSUME Here, Traces, AppliedOnce, Unapplied
    PROVE  Traces' /\ AppliedOnce'
<1>1. program \in Programs /\ Grows /\ applied' = applied
    BY DEF Here, Structure, Unapplied
<1>2. ASSUME NEW i \in DOMAIN applied PROVE Traced(applied[i])'
  <2>1. PICK a : a = applied[i]
    OBVIOUS
  <2>2. Traced(a)
    BY <2>1 DEF Traces
  <2>3. Traced(a)'
    BY <1>1, <2>2, TracedStays
  <2>4. QED
    BY <1>1, <2>1, <2>3
<1>3. Traces'
    BY <1>1, <1>2 DEF Traces
<1>4. AppliedOnce'
    BY <1>1 DEF AppliedOnce, Grows, Rules, Pure, Heads
<1>5. QED
    BY <1>3, <1>4

(* What a commit knows of its application when it is ready.                *)
Justified(a) ==
    /\ a.cond # {} /\ a.cond \subseteq active
    /\ Tuple(a.rule, a.occs)
    /\ \A w \in a.cond : Fitting(a.rule, a.occs, w)
    /\ Pure(a.rule) => \A w \in a.cond : <<a.rule, a.occs, w>> \notin state.history

(* An application is justified by the state it replaces, and its traces    *)
(* are in the state that replaces it.                                      *)
LEMMA AppliedIs ==
    ASSUME Here, program' = program, CommitApplied
    PROVE  /\ Grows
           /\ \E a : applied' = Append(applied, a) /\ Justified(a) /\ Traced(a)'
<1>1. /\ c.phase = "Fresh" /\ c.cond # {} /\ state' = c.staged
      /\ Committing(rule, c) /\ Tuple(rule, c.occs) /\ program \in Programs /\ Grows
    BY CommitReadyIs
<1>2. PICK a : a = [rule |-> rule, occs |-> c.occs, env |-> c.env, cond |-> c.cond]
    OBVIOUS
<1>3. /\ applied' = Append(applied, a)
      /\ a.rule = rule /\ a.occs = c.occs /\ a.cond = c.cond
    BY <1>2 DEF CommitApplied
<1>4. Justified(a)
    BY <1>1, <1>3 DEF Justified, Committing
<1>5. Facts' = c.staged.graph.facts /\ state'.history = c.staged.history
    BY <1>1 DEF Facts
<1>6. /\ Rules' = Rules /\ (Pure(a.rule)' <=> Pure(a.rule))
    BY <1>1 DEF Grows, Rules, Pure, Heads
<1>7. Tuple(a.rule, a.occs)'
    BY <1>1, <1>3, TupleStays
<1>8. /\ \A h \in Rules[a.rule].kept + 1 .. Len(a.occs) :
            \A w \in a.cond : w \notin Facts'[a.occs[h]].live
      /\ Pure(a.rule) => \A w \in a.cond : <<a.rule, a.occs, w>> \in state'.history
    BY <1>1, <1>3, <1>5 DEF Committing
<1>9. Traced(a)'
    BY <1>6, <1>7, <1>8 DEF Traced
<1>10. QED
    BY <1>1, <1>3, <1>4, <1>9

(* An application and one after it are not of the same heads or the same   *)
(* propagation.                                                            *)
LEMMA AgainIs ==
    ASSUME program \in Programs, NEW x, NEW y, Traced(x), Justified(y),
           x.cond \cap y.cond # {}
    PROVE  /\ \A h \in Rules[x.rule].kept + 1 .. Len(x.occs),
                 k \in Rules[y.rule].kept + 1 .. Len(y.occs) : x.occs[h] # y.occs[k]
           /\ ~(Pure(x.rule) /\ x.rule = y.rule /\ x.occs = y.occs)
<1>1. PICK w : w \in x.cond /\ w \in y.cond
    OBVIOUS
<1>2. /\ DOMAIN y.occs = 1 .. Len(y.occs) /\ Len(y.occs) \in Nat
      /\ Rules[y.rule].kept \in 0 .. Len(y.occs)
    BY TupleIs DEF Justified
<1>3. ASSUME NEW h \in Rules[x.rule].kept + 1 .. Len(x.occs),
             NEW k \in Rules[y.rule].kept + 1 .. Len(y.occs)
      PROVE  x.occs[h] # y.occs[k]
  <2>1. k \in DOMAIN y.occs
    BY <1>2
  <2>2. w \in Facts[y.occs[k]].live
    BY <1>1, <2>1 DEF Justified, Fitting
  <2>3. w \notin Facts[x.occs[h]].live
    BY <1>1 DEF Traced
  <2>4. QED
    BY <2>2, <2>3
<1>4. ASSUME Pure(x.rule), x.rule = y.rule, x.occs = y.occs PROVE FALSE
    BY <1>1, <1>4 DEF Traced, Justified
<1>5. QED
    BY <1>3, <1>4

(* What is justified in a state with the traces of all before repeats none *)
(* of them.                                                                *)
LEMMA AppliedKeeps ==
    ASSUME Here, Traces, AppliedOnce, program' = program, CommitApplied
    PROVE  Traces' /\ AppliedOnce'
<1>1. program \in Programs /\ Grows
    BY AppliedIs DEF Here, Structure
<1>2. PICK a : applied' = Append(applied, a) /\ Justified(a) /\ Traced(a)'
    BY AppliedIs
<1>3. IsSeq(applied)
    BY DEF Traces, IsSeq
<1>4. PICK n : n = Len(applied) + 1
    OBVIOUS
<1>5. /\ DOMAIN applied' = DOMAIN applied \cup {n} /\ n \notin DOMAIN applied
      /\ applied'[n] = a /\ \A i \in DOMAIN applied : applied'[i] = applied[i] /\ i < n
      /\ DOMAIN applied \subseteq Nat /\ n \in Nat
    BY <1>2, <1>3, <1>4 DEF IsSeq
<1>6. ASSUME NEW i \in DOMAIN applied' PROVE Traced(applied[i])'
  <2>1. CASE i = n
    BY <1>2, <1>5, <2>1
  <2>2. CASE i # n
    <3>1. PICK x : x = applied[i]
      OBVIOUS
    <3>2. Traced(x) /\ applied'[i] = x
      BY <1>5, <2>2, <3>1 DEF Traces
    <3>3. Traced(x)'
      BY <1>1, <3>2, TracedStays
    <3>4. QED
      BY <3>2, <3>3
  <2>3. QED
    BY <2>1, <2>2
<1>7. applied' \in Seq(Elems(applied'))
  <2>1. applied' = applied \o <<a>>
    BY <1>2, <1>3, AppendIs
  <2>2. IsSeq(applied')
    BY <1>3, <2>1, OneIs, CatIs
  <2>3. QED
    BY <2>2 DEF IsSeq
<1>8. Traces'
    BY <1>6, <1>7 DEF Traces
<1>9. Rules' = Rules /\ \A r : Pure(r)' <=> Pure(r)
  <2>1. program' = program
    BY <1>1 DEF Grows
  <2>2. QED
    BY <2>1 DEF Rules, Pure, Heads
<1> DEFINE Apart(x, y) ==
        x.cond \cap y.cond # {} =>
           /\ \A h \in Rules[x.rule].kept + 1 .. Len(x.occs),
                 k \in Rules[y.rule].kept + 1 .. Len(y.occs) : x.occs[h] # y.occs[k]
           /\ ~(Pure(x.rule) /\ x.rule = y.rule /\ x.occs = y.occs)
<1>10. ASSUME NEW i \in DOMAIN applied', NEW j \in DOMAIN applied', i < j
       PROVE  Apart(applied'[i], applied'[j])
  <2>1. i \in DOMAIN applied
    BY <1>5, <1>10
  <2>2. CASE j \in DOMAIN applied
    <3>1. PICK x, y : x = applied[i] /\ y = applied[j]
      OBVIOUS
    <3>2. Apart(x, y)
      BY <1>10, <2>1, <2>2, <3>1 DEF AppliedOnce
    <3>3. applied'[i] = x /\ applied'[j] = y
      BY <1>5, <2>1, <2>2, <3>1
    <3>4. QED
      BY <3>2, <3>3
  <2>3. CASE j = n
    <3>1. PICK x : x = applied[i]
      OBVIOUS
    <3>2. Traced(x) /\ applied'[i] = x /\ applied'[j] = a
      BY <1>5, <2>1, <2>3, <3>1 DEF Traces
    <3>3. Apart(x, a)
      BY <1>1, <1>2, <3>2, AgainIs
    <3>4. QED
      BY <3>2, <3>3
  <2>4. QED
    BY <1>5, <2>2, <2>3
<1>11. AppliedOnce'
    BY <1>9, <1>10 DEF AppliedOnce
<1>12. QED
    BY <1>8, <1>11

(* AppliedWhereApplicable, of one step.                                    *)
Justly ==
    applied' # applied =>
        LET a == applied'[Len(applied')]
        IN /\ a.cond # {} /\ a.cond \subseteq active
           /\ \A w \in a.cond : Applicable(state, a.rule, a.occs, w)

(* What is justified is applicable.                                        *)
LEMMA AppliedJustly ==
    ASSUME Here, Traces, program' = program, CommitApplied
    PROVE  Justly
<1>1. PICK a : applied' = Append(applied, a) /\ Justified(a)
    BY AppliedIs
<1>2. applied'[Len(applied')] = a
    BY <1>1 DEF Traces
<1>3. program \in Programs
    BY DEF Here, Structure
<1>4. DOMAIN a.occs = DOMAIN Heads(a.rule)
    BY <1>1, <1>3, TupleIs DEF Justified
<1>5. ASSUME NEW w \in a.cond PROVE Applicable(state, a.rule, a.occs, w)
    BY <1>1, <1>4 DEF Justified, Fitting, Tuple, Applicable, Facts
<1>6. QED
    BY <1>1, <1>2, <1>5 DEF Justified, Justly

-----------------------------------------------------------------------------
(* Every step.                                                             *)

(* Instructions.                                                           *)
LEMMA BodyTickKeeps ==
    ASSUME Here, program' = program, BodyTick
    PROVE  Kept /\ Unapplied
<1>1. Kept
    BY BodyEmptyKeeps, BodyDispatchKeeps, BodyArgumentsKeeps, BodyExpandKeeps,
       BodyAcquireKeeps, BodyFilterKeeps, BodyApplyKeeps, BodyPostKeeps, BodyMergeKeeps,
       BodyFailKeeps, BodyChoiceKeeps, BodyLeftKeeps, BodyRightKeeps DEF BodyTick
<1>2. CASE BodyPost \/ BodyMerge
    BY <1>2, BodyPostKeeps, BodyMergeKeeps DEF BodyPost, BodyMerge, Unapplied
<1>3. CASE ~(BodyPost \/ BodyMerge)
  <2>1. UNCHANGED <<state, applied>>
    BY <1>3
       DEF BodyTick, BodyEmpty, BodyDispatch, BodyArguments, BodyExpand, BodyAcquire,
           BodyFilter, BodyApply, BodyFail, BodyChoice, BodyLeft, BodyRight, BodyOwn, Own,
           others
  <2>2. QED
    BY <1>1, <2>1, UnappliedIs
<1>4. QED
    BY <1>1, <1>2, <1>3

(* The query and the readers of older graphs.                              *)
LEMMA ReaderTickKeeps ==
    ASSUME Here, program' = program, InitTick \/ ReaderTick
    PROVE  Kept /\ Unapplied
<1>1. Kept
    BY InitTickKeeps, ActivateTickKeeps, WakeTickKeeps, SearchTickKeeps,
       SearchAcquireKeeps, SearchBeginKeeps DEF ReaderTick
<1>2. UNCHANGED <<state, applied>>
    BY DEF InitTick, ReaderTick, ActivateTick, WakeTick, SearchTick, SearchAcquire,
           SearchBegin, Own, others
<1>3. QED
    BY <1>1, <1>2, UnappliedIs

(* Commits.                                                                *)
LEMMA CommitTickKeeps ==
    ASSUME Here, program' = program, CommitTick
    PROVE  Kept /\ (Unapplied \/ CommitApplied)
<1>1. Kept
    BY CommitEmptyKeeps, CommitStartKeeps, CommitHeadKeeps, CommitHeadsDoneKeeps,
       CommitHistoryKeeps, CommitRecordKeeps, CommitConsumeKeeps, CommitFreshKeeps,
       CommitAppliedKeeps DEF CommitTick
<1>2. CASE ~CommitApplied
  <2>1. UNCHANGED <<state, applied>>
    BY <1>2
       DEF CommitTick, CommitEmpty, CommitStart, CommitHead, CommitHeadsDone,
           CommitHistory, CommitRecord, CommitConsume, CommitFresh, CommitOwn, Own, others
  <2>2. QED
    BY <1>1, <2>1, UnappliedIs
<1>3. QED
    BY <1>1, <1>2

(* The certificate.                                                        *)
LEMMA CompletionTickKeeps ==
    ASSUME Here, program' = program, CompletionTick
    PROVE  Kept /\ Unapplied
<1>1. CASE CompletionPending
  <2>1. UNCHANGED <<state, next, active, ready, queue, laneVars, applied>>
    BY <1>1 DEF CompletionPending
  <2>2. QED
    BY <2>1, ApartKeeps, UnappliedIs
<1>2. CASE ~CompletionPending
  <2>1. Kept
    BY <1>2, CaptureKeeps, ScanKeeps, DifferenceKeeps, ReadyAcquireKeeps,
       ReadyTransportKeeps, ReadyFilterKeeps, PublishKeeps DEF CompletionTick
  <2>2. UNCHANGED <<state, applied>>
    BY <1>2 DEF CompletionTick, Capture, Scan, Difference, ReadyAcquire, ReadyTransport,
                ReadyFilter, Publish, taskVars
  <2>3. QED
    BY <2>1, <2>2, UnappliedIs
<1>3. QED
    BY <1>1, <1>2

(* Every step of the engine.                                               *)
LEMMA NextKeeps ==
    ASSUME Here, [Next]_vars
    PROVE  Kept /\ (Unapplied \/ CommitApplied) /\ program' = program
<1>1. program' = program
    BY DEF Next, Advance, vars
<1>2. CASE InitTick \/ BodyTick \/ ReaderTick \/ CommitTick \/ CompletionTick
    BY <1>1, <1>2, BodyTickKeeps, ReaderTickKeeps, CommitTickKeeps, CompletionTickKeeps
<1>3. CASE TaskPending
  <2>1. UNCHANGED <<state, applied>>
    BY <1>3 DEF TaskPending
  <2>2. QED
    BY <1>1, <1>3, <2>1, TaskPendingKeeps, UnappliedIs
<1>4. CASE Observation \/ Idle \/ TakeOutput \/ UNCHANGED vars
  <2>1. UNCHANGED <<state, next, active, ready, queue, laneVars, applied>>
    BY <1>4 DEF Observation, Idle, TakeOutput, vars, taskVars, laneVars
  <2>2. QED
    BY <1>1, <2>1, ApartKeeps, UnappliedIs
<1>5. QED
    BY <1>1, <1>2, <1>3, <1>4 DEF Next, Advance

(* The assumption of Lane, of the owners of the engine.                    *)
LEMMA LaneDistinct ==
    TaskId \cap {Completion} = {} /\ Free \notin TaskId \cup {Completion}
BY EngineOwnersDistinct DEF TaskId

(* The inductive step, with what it says of the lane and of applications.  *)
LEMMA StepKeeps ==
    ASSUME IInv, [Next]_vars
    PROVE  IInv' /\ LaneStep /\ Justly
<1>1. Here /\ Traces /\ AppliedOnce
    BY DEF IInv, Here
<1>2. Kept /\ (Unapplied \/ CommitApplied) /\ program' = program
    BY <1>1, NextKeeps
<1>3. Traces' /\ AppliedOnce'
    BY <1>1, <1>2, UnappliedKeeps, AppliedKeeps
<1>4. Justly
  <2>1. CASE Unapplied
    BY <2>1 DEF Unapplied, Justly
  <2>2. QED
    BY <1>1, <1>2, <2>1, AppliedJustly
<1>5. LaneInv'
  <2>1. LaneInv /\ LaneStep
    BY <1>1, <1>2 DEF Here, Kept
  <2>2. QED
    BY <2>1, LaneDistinct, L!NextInv DEF LaneInv, LaneStep
<1>6. QED
    BY <1>2, <1>3, <1>4, <1>5 DEF Kept, IInv

(* The engine starts with the query's task alone.                          *)
LEMMA InitKeeps ==
    ASSUME Init
    PROVE  IInv /\ L!Init
<1>1. PICK t : t = InitTask
    OBVIOUS
<1>2. /\ t.kind = "Init" /\ t.id = 1 /\ DOMAIN t = InitFields
    BY <1>1 DEF InitTask, InitFields
<1>3. /\ queue = <<t>> /\ waiting = <<>> /\ lane = Free /\ queued = FALSE
      /\ next.task = 2 /\ DOMAIN next = {"task", "var"} /\ program \in Programs
      /\ applied = <<>> /\ active = World
      /\ state = [graph |-> EmptyGraph, history |-> {}]
    BY <1>1 DEF Init
<1>4. /\ IsSeq(queue) /\ Elems(queue) = {t} /\ Ids(queue) = {1} /\ IdsDistinct(queue)
      /\ IsSeq(waiting) /\ Elems(waiting) = {} /\ Ids(waiting) = {} /\ IdsDistinct(waiting)
    BY <1>2, <1>3, OneIs, EmptyIs
<1>5. MaxTask \in Nat /\ 1 \in TaskId /\ 2 \in 2 .. MaxTask + 1
  <2>1. program.tasks \in 1 .. MaxTask /\ MaxTask \in Nat
    BY <1>3, EngineBounds
  <2>2. QED
    BY <2>1 DEF TaskId
<1>6. DOMAIN ready = ReadyFields /\ ready.phase = "None"
    BY DEF Init, NoReady, ReadyFields
<1>7. Task(t) /\ ~Owning(t) /\ Static(t)
    BY <1>2, <1>3 DEF Task, Shaped, Owning, Static
<1>8. Structure
    BY <1>3, <1>4, <1>5, <1>6, <1>7 DEF Structure
<1>9. LaneInv
    BY <1>3, <1>4, <1>5, <1>8, LaneSays, LaneDistinct
<1>10. Graphs
  <2>1. /\ DOMAIN state = {"graph", "history"} /\ DOMAIN state.graph = {"facts", "rep"}
        /\ Facts = <<>>
    BY <1>3 DEF EmptyGraph, Facts
  <2>2. QED
    BY <2>1, EmptyIs DEF Graphs, IsSeq
<1>11. Knowledge
    BY <1>3, <1>4, <1>6, <1>7, <1>10 DEF Knowledge, Tasks
<1>12. Traces /\ AppliedOnce
    BY <1>3, EmptyIs DEF Traces, AppliedOnce, IsSeq
<1>13. L!Init
  <2>1. {queue[i].id : i \in DOMAIN queue} \in SUBSET TaskId
    BY <1>4, <1>5 DEF Ids
  <2>2. [i \in DOMAIN waiting |-> waiting[i].id] = <<>>
    BY <1>3
  <2>3. QED
    BY <1>3, <2>1, <2>2 DEF L!Init
<1>14. QED
    BY <1>8, <1>9, <1>11, <1>12, <1>13 DEF IInv

-----------------------------------------------------------------------------
(* The rows.  What the certificate of the completion relies on is that     *)
(* every task works within its row of the pending root, that a child is    *)
(* given a part of its parent's row in the step that creates it, and that  *)
(* only the owner of the lane changes `active'.                            *)

CStep == [C!Next]_C!vars

(* What a task has left to do lies within its row.                         *)
Inside(t, scope) ==
    /\ t.kind \in {"Body", "Activate"} => t.cond \subseteq scope
    /\ t.kind \in {"Wake", "Search"} => \A f \in t.found : f.cond \subseteq scope
    /\ t.kind = "Search" => /\ t.candidate # None => t.candidate.cond \subseteq scope
                            /\ t.commit # None => t.commit.cond \subseteq scope

Within(t) == Inside(t, t.scope)

(* A body past its acquire works in active worlds; one that fails, in some.*)
Clipped(t) ==
    t.kind = "Body" => /\ t.phase \in {"Apply", "Fail"} => t.cond \subseteq active
                       /\ t.phase = "Fail" => t.cond # {}

(* A commit has staged nothing outside its row.                            *)
Staged(t) ==
    t.kind = "Search" => (t.commit # None =>
       /\ t.commit.staged.graph.rep = state.graph.rep
       /\ \A o \in DOMAIN Facts :
             Facts[o].live \subseteq t.commit.staged.graph.facts[o].live \cup t.scope)

Private(t) == Clipped(t) /\ Staged(t)

Working(t) == t.scope = pending[t.id] /\ t.scope # {} /\ Within(t) /\ Private(t)

(* Each task has its row, and each row its task.                           *)
WorkRows ==
    /\ \A t \in Tasks : Working(t)
    /\ \A u \in TaskId : pending[u] # {} => u \in Ids(queue) \cup Ids(waiting)

(* The certificate: its row is being joined only while it is scanned, and  *)
(* it waits for the lane only when it wants it.                            *)
ReadyRows ==
    /\ ready.phase \in {"None", "Scan", "Difference", "Acquire", "Transport", "Filter",
                        "Publish"}
    /\ ready.phase = "None" => ready = NoReady
    /\ \/ ready.row = 0
       \/ ready.phase = "Scan" /\ ready.row \in TaskId /\ ready.rows[ready.row] # {}
    /\ ready.phase = "Difference" => \A t \in TaskId : ready.rows[t] = {}
    /\ queued => ready.phase = "Acquire"

AnswerRows ==
    /\ births \in 0 .. MaxChoice
    /\ observer = None \/ observer \in SUBSET AllAnswers
    /\ IsSeq(answers)
    /\ \A i \in DOMAIN answers : \A w \in answers[i].scope : w \in World /\ published[w] > 0

Rows == WorkRows /\ ReadyRows /\ AnswerRows /\ C!Invariant

There == Here /\ Rows

-----------------------------------------------------------------------------
(* Running Fail jobs.                                                      *)

IsFail(t) == t.kind = "Body" /\ t.phase = "Fail"

FailOf(s, u, field) ==
    IF \E i \in DOMAIN s : s[i].id = u /\ s[i].kind = "Body" /\ s[i].phase = "Fail"
    THEN (CHOOSE task \in {s[i] : i \in DOMAIN s} : task.id = u)[field]
    ELSE {}

(* The views, of the queue of now and of the next state.                   *)
LEMMA FailViews ==
    /\ Failing = [t \in TaskId |-> FailOf(queue, t, "cond")]
    /\ Captured = [t \in TaskId |-> FailOf(queue, t, "act")]
    /\ Failing' = [t \in TaskId |-> FailOf(queue', t, "cond")]
    /\ Captured' = [t \in TaskId |-> FailOf(queue', t, "act")]
BY DEF Failing, Captured, FailJob, FailOf

(* The job of the task with an identity, if that task is a failing body.   *)
LEMMA FailOfIs ==
    ASSUME NEW s, IdsDistinct(s), NEW u, NEW field
    PROVE  /\ \A t \in Elems(s) : IsFail(t) /\ t.id = u => FailOf(s, u, field) = t[field]
           /\ (\A t \in Elems(s) : ~(IsFail(t) /\ t.id = u)) => FailOf(s, u, field) = {}
<1>1. ASSUME NEW t \in Elems(s), IsFail(t), t.id = u
      PROVE  FailOf(s, u, field) = t[field]
  <2>1. PICK i \in DOMAIN s : t = s[i]
    BY <1>1 DEF Elems
  <2>2. \A task \in {s[j] : j \in DOMAIN s} : task.id = u => task = t
    BY <1>1, <2>1 DEF IdsDistinct
  <2>3. t \in {s[j] : j \in DOMAIN s}
    BY <2>1
  <2>4. (CHOOSE task \in {s[j] : j \in DOMAIN s} : task.id = u) = t
    BY <1>1, <2>2, <2>3
  <2>5. \E j \in DOMAIN s : s[j].id = u /\ s[j].kind = "Body" /\ s[j].phase = "Fail"
    BY <1>1, <2>1 DEF IsFail
  <2>6. QED
    BY <2>4, <2>5 DEF FailOf
<1>2. ASSUME \A t \in Elems(s) : ~(IsFail(t) /\ t.id = u)
      PROVE  FailOf(s, u, field) = {}
    BY <1>2 DEF FailOf, IsFail, Elems
<1>3. QED
    BY <1>1, <1>2

(* The jobs are those of the failing bodies.                               *)
LEMMA FailsStay ==
    ASSUME NEW s, NEW z, IdsDistinct(s), IdsDistinct(z),
           \A t : IsFail(t) => (t \in Elems(s) <=> t \in Elems(z))
    PROVE  \A u, field : FailOf(s, u, field) = FailOf(z, u, field)
<1> SUFFICES ASSUME NEW u, NEW field PROVE FailOf(s, u, field) = FailOf(z, u, field)
    OBVIOUS
<1>1. CASE \E t \in Elems(s) : IsFail(t) /\ t.id = u
  <2>1. PICK t \in Elems(s) : IsFail(t) /\ t.id = u
    BY <1>1
  <2>2. t \in Elems(z)
    BY <2>1
  <2>3. QED
    BY <2>1, <2>2, FailOfIs
<1>2. CASE \A t \in Elems(s) : ~(IsFail(t) /\ t.id = u)
  <2>1. \A t \in Elems(z) : ~(IsFail(t) /\ t.id = u)
    BY <1>2
  <2>2. FailOf(s, u, field) = {}
    BY <1>2, FailOfIs
  <2>3. FailOf(z, u, field) = {}
    BY <2>1, FailOfIs
  <2>4. QED
    BY <2>2, <2>3
<1>3. QED
    BY <1>1, <1>2

-----------------------------------------------------------------------------
(* Nobody is forgotten.                                                    *)

(* The other tasks are still in the queue, or where they waited, or were   *)
(* resumed.                                                                *)
Remains ==
    /\ Elems(Tail(queue)) \subseteq Elems(queue')
    /\ \A t \in Elems(waiting) :
          t.id = Completion \/ t \in Elems(queue') \cup Elems(waiting')

(* release_lane loses nobody.                                              *)
LEMMA ReleaseRemains ==
    ASSUME IsSeq(waiting), NEW before, NEW after, IsSeq(before), IsSeq(after),
           ReleaseLane(before, after), queued \in BOOLEAN
    PROVE  /\ Elems(before) \cup Elems(after) \subseteq Elems(queue')
           /\ \A t \in Elems(waiting) :
                 t.id = Completion \/ t \in Elems(queue') \cup Elems(waiting')
           /\ Elems(waiting') \subseteq Elems(waiting)
           /\ lane' = Free \/ lane' \in Ids(waiting)
           /\ queued' => queued
<1>1. CASE waiting = <<>>
  <2>1. lane' = Free /\ queue' = before \o after /\ waiting' = waiting /\ queued' = queued
    BY <1>1 DEF ReleaseLane
  <2>2. QED
    BY <2>1, CatIs
<1>2. CASE waiting # <<>>
  <2>1. PICK entry : entry = Head(waiting)
    OBVIOUS
  <2>2. /\ lane' = entry.id /\ waiting' = Tail(waiting)
        /\ queue' = before \o (IF entry.id = Completion THEN <<>> ELSE <<entry>>) \o after
        /\ queued' => queued
    BY <1>2, <2>1 DEF ReleaseLane
  <2>3. /\ Elems(waiting) = {entry} \cup Elems(waiting')
        /\ Ids(waiting) = {entry.id} \cup Ids(waiting')
    BY <1>2, <2>1, <2>2, TailIs
  <2>4. PICK more : more = (IF entry.id = Completion THEN <<>> ELSE <<entry>>)
    OBVIOUS
  <2>5. IsSeq(more) /\ (entry.id = Completion \/ entry \in Elems(more))
    BY <2>4, EmptyIs, OneIs
  <2>6. /\ IsSeq(before \o more)
        /\ Elems(before \o more) = Elems(before) \cup Elems(more)
    BY <2>5, CatIs
  <2>7. Elems(queue') = Elems(before) \cup Elems(more) \cup Elems(after)
    BY <2>2, <2>4, <2>6, CatIs
  <2>8. QED
    BY <2>2, <2>3, <2>5, <2>7
<1>3. QED
    BY <1>1, <1>2

(* The task goes to the back of the queue.                                 *)
LEMMA RequeueRemains ==
    ASSUME Here, queue # <<>>, NEW kids, NEW task, NextKids(kids),
           kids = <<>> \/ Fits(kids),
           queue' = Tail(queue) \o kids \o <<task>>, UNCHANGED laneVars
    PROVE  /\ Remains /\ Elems(kids) \cup {task} \subseteq Elems(queue')
           /\ Elems(waiting') \subseteq Elems(waiting)
           /\ lane' = lane /\ (queued' => queued)
<1>1. Structure /\ LaneInv
    BY DEF Here
<1>2. PICK front : front = Tail(queue) \o kids
    OBVIOUS
<1>3. IsSeq(front) /\ Elems(front) = Elems(Tail(queue)) \cup Elems(kids)
    BY <1>1, <1>2, ChildIs
<1>4. Elems(queue') = Elems(front) \cup {task}
    BY <1>2, <1>3, OneIs, CatIs
<1>5. waiting' = waiting /\ lane' = lane /\ queued' = queued
    BY DEF laneVars
<1>6. QED
    BY <1>3, <1>4, <1>5 DEF Remains

(* The same with the lane released.                                        *)
LEMMA ReleasingRemains ==
    ASSUME Here, queue # <<>>, NEW kids, NEW task, NextKids(kids),
           RequeueReleasing(task, kids)
    PROVE  /\ Remains /\ Elems(kids) \cup {task} \subseteq Elems(queue')
           /\ Elems(waiting') \subseteq Elems(waiting)
           /\ lane' = Free \/ lane' \in Ids(waiting)
           /\ queued' => queued
<1>1. Structure /\ LaneInv /\ Fits(kids)
    BY DEF Here, RequeueReleasing, Admit
<1>2. PICK front, back : front = Tail(queue) \o kids /\ back = <<task>>
    OBVIOUS
<1>3. IsSeq(front) /\ Elems(front) = Elems(Tail(queue)) \cup Elems(kids)
    BY <1>1, <1>2, ChildIs
<1>4. IsSeq(back) /\ Elems(back) = {task}
    BY <1>2, OneIs
<1>5. ReleaseLane(front, back) /\ IsSeq(waiting) /\ queued \in BOOLEAN
    BY <1>1, <1>2 DEF RequeueReleasing, Structure
<1>6. /\ Elems(front) \cup Elems(back) \subseteq Elems(queue')
      /\ \A t \in Elems(waiting) :
            t.id = Completion \/ t \in Elems(queue') \cup Elems(waiting')
      /\ Elems(waiting') \subseteq Elems(waiting)
      /\ lane' = Free \/ lane' \in Ids(waiting)
      /\ queued' => queued
    BY ONLY <1>3, <1>4, <1>5, ReleaseRemains
<1>7. QED
    BY <1>3, <1>4, <1>6 DEF Remains

(* The task is done.                                                       *)
LEMMA FinishRemains ==
    ASSUME Here, queue # <<>>, NEW kids, NextKids(kids), Finish(kids)
    PROVE  /\ Remains /\ Elems(kids) \subseteq Elems(queue')
           /\ Elems(waiting') \subseteq Elems(waiting)
           /\ \/ lane' = lane /\ lane # current.id
              \/ lane = current.id /\ (lane' = Free \/ lane' \in Ids(waiting))
           /\ queued' => queued
<1>1. Structure /\ LaneInv /\ Fits(kids)
    BY DEF Here, Finish, Admit
<1>2. PICK front, back : front = Tail(queue) \o kids /\ back = <<>>
    OBVIOUS
<1>3. IsSeq(front) /\ Elems(front) = Elems(Tail(queue)) \cup Elems(kids)
    BY <1>1, <1>2, ChildIs
<1>4. IsSeq(back) /\ Elems(back) = {} /\ IsSeq(waiting) /\ queued \in BOOLEAN
    BY <1>1, <1>2, EmptyIs DEF Structure
<1>5. CASE lane = current.id
  <2>1. ReleaseLane(front, back)
    BY <1>2, <1>5 DEF Finish
  <2>2. /\ Elems(front) \cup Elems(back) \subseteq Elems(queue')
        /\ \A t \in Elems(waiting) :
              t.id = Completion \/ t \in Elems(queue') \cup Elems(waiting')
        /\ Elems(waiting') \subseteq Elems(waiting)
        /\ lane' = Free \/ lane' \in Ids(waiting)
        /\ queued' => queued
    BY ONLY <1>3, <1>4, <2>1, ReleaseRemains
  <2>3. QED
    BY <1>3, <1>5, <2>2 DEF Remains
<1>6. CASE lane # current.id
  <2>1. queue' = front /\ waiting' = waiting /\ lane' = lane /\ queued' = queued
    BY <1>2, <1>6 DEF Finish, laneVars
  <2>2. QED
    BY <1>3, <1>6, <2>1 DEF Remains
<1>7. QED
    BY <1>5, <1>6

(* The task asks for the lane.                                             *)
LEMMA AcquireRemains ==
    ASSUME Here, queue # <<>>, NEW task, AcquireAndRequeue(task)
    PROVE  /\ Remains
           /\ {task, current} \cap (Elems(queue') \cup Elems(waiting')) # {}
           /\ pending' = pending
           /\ queued' = queued
           /\ \/ lane' = lane
              \/ lane = Free /\ lane' = current.id
<1>1. Structure /\ LaneInv
    BY DEF Here
<1>2. IsSeq(Tail(queue)) /\ IsSeq(waiting)
    BY <1>1, FrontIs DEF Structure
<1>3. CASE MayAcquire(current.id)
  <2>1. /\ lane' = current.id /\ queue' = Append(Tail(queue), task)
        /\ waiting' = waiting /\ queued' = queued /\ pending' = pending
    BY <1>3 DEF AcquireAndRequeue
  <2>2. queue' = Tail(queue) \o <<task>> /\ IsSeq(<<task>>) /\ Elems(<<task>>) = {task}
    BY <1>2, <2>1, AppendIs, OneIs
  <2>3. Elems(queue') = Elems(Tail(queue)) \cup {task}
    BY <1>2, <2>2, CatIs
  <2>4. QED
    BY <1>3, <2>1, <2>3 DEF Remains, MayAcquire
<1>4. CASE ~MayAcquire(current.id)
  <2>1. /\ lane' = lane /\ queue' = Tail(queue)
        /\ waiting' = Append(waiting, current) /\ queued' = queued /\ pending' = pending
    BY <1>4 DEF AcquireAndRequeue
  <2>2. PICK one : one = <<current>>
    OBVIOUS
  <2>3. waiting' = waiting \o one /\ IsSeq(one) /\ Elems(one) = {current}
    BY <1>2, <2>1, <2>2, AppendIs, OneIs
  <2>4. Elems(waiting') = Elems(waiting) \cup {current}
    BY <1>2, <2>3, CatIs
  <2>5. QED
    BY <2>1, <2>4 DEF Remains
<1>5. QED
    BY <1>3, <1>4

-----------------------------------------------------------------------------
(* A dispatch keeps the rows, if its own tasks do.                         *)

(* A child works within a part of its parent's row.                        *)
Child(k) ==
    /\ k.id = next.task /\ Shaped(k) /\ ~Owning(k)
    /\ k.scope # {} /\ k.scope \subseteq current.scope /\ Within(k)
KidsWithin(kids) == kids = <<>> \/ \E k : kids = <<k>> /\ Child(k)

(* A task that is not past its acquire has nothing to protect.             *)
LEMMA ApartIs ==
    ASSUME NEW t, Shaped(t), ~Owning(t)
    PROVE  Private(t) /\ Private(t)' /\ ~IsFail(t)
BY DEF Shaped, Owning, Private, Clipped, Staged, IsFail

(* The rows after the current task's children got theirs.                  *)
LEMMA AdmitIs ==
    ASSUME There, queue # <<>>, NEW kids, NEW done \in BOOLEAN, KidsWithin(kids),
           Admit(kids, done)
    PROVE  /\ C!Admit(current.id) /\ NextKids(kids) /\ Fits(kids)
           /\ pending'[current.id] = IF done THEN {} ELSE pending[current.id]
           /\ \A u \in Ids(queue) \cup Ids(waiting) :
                 u \in TaskId /\ u # current.id => pending'[u] = pending[u]
           /\ \A k \in Elems(kids) : k.scope = pending'[k.id] /\ k.scope # {} /\ Within(k)
                                     /\ Shaped(k) /\ ~Owning(k)
           /\ \A u \in TaskId : pending'[u] # {} => pending[u] # {} \/ u \in Ids(kids)
<1>1. Structure /\ LaneInv /\ WorkRows /\ pending \in [TaskId -> SUBSET World]
    BY DEF There, Here, Rows, C!Invariant, C!TypeOK, C!Condition
<1>2. /\ Fits(kids)
      /\ pending' = [t \in TaskId |->
                        IF done /\ t = current.id THEN {}
                        ELSE IF \E i \in DOMAIN kids : kids[i].id = t
                             THEN (CHOOSE k \in {kids[i] : i \in DOMAIN kids} : k.id = t).scope
                             ELSE pending[t]]
    BY DEF Admit
<1>3. /\ current.id \in TaskId /\ current.id \in Ids(queue)
      /\ next.task \in TaskId => next.task \notin Ids(queue) \cup Ids(waiting)
    BY <1>1, FrontIs
<1>4. pending[current.id] # {} /\ current.scope = pending[current.id]
    BY <1>1, FrontIs DEF WorkRows, Working, Tasks
<1>5. CASE kids = <<>>
  <2>1. \A t : ~ \E i \in DOMAIN kids : kids[i].id = t
    BY <1>5
  <2>2. pending' = [t \in TaskId |-> IF done /\ t = current.id THEN {} ELSE pending[t]]
    BY <1>2, <2>1
  <2>3. Elems(kids) = {} /\ Ids(kids) = {} /\ NextKids(kids)
    BY <1>5, EmptyIs DEF NextKids
  <2>4. C!Admit(current.id)
    BY <1>1, <1>3, <2>2 DEF C!Admit, C!Live, C!Condition
  <2>5. QED
    BY <1>1, <1>2, <1>3, <2>2, <2>3, <2>4
<1>6. CASE kids # <<>>
  <2>1. PICK k : kids = <<k>> /\ Child(k)
    BY <1>6 DEF KidsWithin
  <2>2. NextKids(kids) /\ Elems(kids) = {k} /\ Ids(kids) = {k.id} /\ k.id = next.task
    BY <2>1, OneIs DEF NextKids, Child
  <2>3. next.task \in TaskId
    BY <1>1, <1>2, <1>6, <2>2, TaskIds
  <2>4. \A t : (\E i \in DOMAIN kids : kids[i].id = t) <=> t = k.id
    BY <2>1
  <2>5. (CHOOSE z \in {kids[i] : i \in DOMAIN kids} : z.id = k.id) = k
    BY <2>2 DEF Elems
  <2>6. pending' = [t \in TaskId |-> IF done /\ t = current.id THEN {}
                                     ELSE IF t = k.id THEN k.scope ELSE pending[t]]
    <3> DEFINE Chosen(t) == CHOOSE z \in {kids[i] : i \in DOMAIN kids} : z.id = t
    <3>1. Chosen(k.id) = k
      BY <2>5
    <3>2. pending' = [t \in TaskId |->
                        IF done /\ t = current.id THEN {}
                        ELSE IF \E i \in DOMAIN kids : kids[i].id = t
                             THEN Chosen(t).scope ELSE pending[t]]
      BY <1>2
    <3> HIDE DEF Chosen
    <3>3. pending' = [t \in TaskId |->
                        IF done /\ t = current.id THEN {}
                        ELSE IF t = k.id THEN Chosen(t).scope ELSE pending[t]]
      BY <2>4, <3>2
    <3>4. QED
      BY <3>1, <3>3
  <2>7. pending[k.id] = {} /\ k.id # current.id
    BY <1>1, <1>3, <2>2, <2>3 DEF WorkRows
  <2>8. /\ k.scope \subseteq pending[current.id] /\ k.scope # {} /\ Within(k)
        /\ Shaped(k) /\ ~Owning(k)
    BY <1>4, <2>1 DEF Child
  <2>9. pending' \in [TaskId -> SUBSET World]
    BY <1>1, <1>3, <2>6, <2>8
  <2>10. C!Admit(current.id)
    BY <1>3, <2>2, <2>3, <2>6, <2>7, <2>8, <2>9 DEF C!Admit, C!Live, C!Condition
  <2>11. QED
    BY <1>2, <1>3, <2>2, <2>3, <2>6, <2>7, <2>8, <2>10
<1>7. QED
    BY <1>5, <1>6

(* A spawned task works within the row it is given.                        *)
LEMMA SpawnWithin ==
    ASSUME NEW kids, NEW task, NEW scope, kids = Spawned(scope, task),
           Shaped(task), ~Owning(task), Inside(task, scope), scope \subseteq current.scope
    PROVE  KidsWithin(kids)
<1>1. CASE scope = {}
    BY <1>1 DEF Spawned, KidsWithin
<1>2. CASE scope # {}
  <2>1. PICK k : k = [task EXCEPT !.id = next.task, !.scope = scope]
    OBVIOUS
  <2>2. kids = <<k>>
    BY <1>2, <2>1 DEF Spawned
  <2>3. /\ DOMAIN k = DOMAIN task
        /\ {"id", "scope", "kind"} \subseteq DOMAIN task
        /\ k.id = next.task /\ k.scope = scope /\ k.kind = task.kind
    BY <2>1 DEF Shaped, InitFields, BodyFields, ActivateFields, SearchFields, WakeFields
  <2>4. Shaped(k) /\ ~Owning(k) /\ Within(k)
    <3>1. CASE task.kind = "Body" /\ DOMAIN task = BodyFields
      <4>1. k.phase = task.phase /\ k.cond = task.cond
        BY <3>1, <2>1 DEF BodyFields
      <4>2. QED
        BY <2>3, <3>1, <4>1 DEF Shaped, Owning, Within, Inside
    <3>2. CASE task.kind = "Activate" /\ DOMAIN task = ActivateFields
      <4>1. k.cond = task.cond
        BY <3>2, <2>1 DEF ActivateFields
      <4>2. QED
        BY <2>3, <3>2, <4>1 DEF Shaped, Owning, Within, Inside
    <3>3. CASE task.kind = "Wake" /\ DOMAIN task = WakeFields
      <4>1. k.found = task.found
        BY <3>3, <2>1 DEF WakeFields
      <4>2. QED
        BY <2>3, <3>3, <4>1 DEF Shaped, Owning, Within, Inside
    <3>4. CASE task.kind = "Search" /\ DOMAIN task = SearchFields /\ task.transport \in BOOLEAN
      <4>1. /\ k.found = task.found /\ k.candidate = task.candidate
            /\ k.transport = task.transport /\ k.commit = task.commit
        BY <3>4, <2>1 DEF SearchFields
      <4>2. QED
        BY <2>3, <3>4, <4>1 DEF Shaped, Owning, Within, Inside
    <3>5. CASE task.kind = "Init" /\ DOMAIN task = InitFields
      BY <2>3, <3>5 DEF Shaped, Owning, Within, Inside
    <3>6. QED
      BY <3>1, <3>2, <3>3, <3>4, <3>5 DEF Shaped
  <2>5. QED
    BY <1>2, <2>2, <2>3, <2>4 DEF KidsWithin, Child
<1>3. QED
    BY <1>1, <1>2

(* No child at all is within.                                              *)
LEMMA NoKidsWithin == KidsWithin(<<>>) /\ Elems(<<>>) = {}
BY EmptyIs DEF KidsWithin

(* What a task is careful about stays so while nothing it sees changes.    *)
LEMMA PrivateStays ==
    ASSUME UNCHANGED <<state, active>>, NEW t, Private(t)
    PROVE  Private(t)'
BY DEF Private, Clipped, Staged, Facts

(* Failing bodies own the lane.                                            *)
LEMMA FailOwns ==
    ASSUME NEW t, IsFail(t)
    PROVE  Owning(t)
BY DEF IsFail, Owning

(* The rows of the tasks, after a dispatch.                                *)
LEMMA MovesKeep ==
    ASSUME There, queue # <<>>, NEW new, Dispatched(new), Remains,
           \/ state' = state /\ active' = active
           \/ lane = current.id,
           \A t \in new : Working(t)',
           \A u \in Ids(queue) \cup Ids(waiting) :
              u \in TaskId /\ u # current.id => pending'[u] = pending[u],
           Elems(waiting') \subseteq Elems(waiting) \/ pending' = pending,
           \A u \in TaskId : pending'[u] # {} =>
              \/ pending[u] # {} /\ u # current.id
              \/ \E t \in new \cup Elems(waiting') : t.id = u
    PROVE  WorkRows'
<1>1. Structure /\ LaneInv /\ WorkRows
    BY DEF There, Here, Rows
<1>2. /\ \A t \in Elems(Tail(queue)) :
            /\ Task(t) /\ t.id # current.id /\ t.id \in TaskId /\ (Owning(t) => lane = t.id)
            /\ t \in Elems(queue)
      /\ current \in Elems(queue) /\ current.id \in TaskId /\ Task(current)
      /\ Owning(current) => lane = current.id
      /\ Elems(queue) = {current} \cup Elems(Tail(queue))
      /\ current.id \notin Ids(waiting)
    BY <1>1, FrontIs
<1>3. /\ \A t \in Elems(waiting) : t.id = Completion \/ (Task(t) /\ ~Owning(t))
      /\ \A t \in Elems(waiting) : t.id = Completion \/ t.id \in TaskId
    BY <1>1, TaskIds DEF Structure, Task
<1>4. \A s : Ids(s) = {t.id : t \in Elems(s)}
    BY DEF Ids, Elems
<1>5. /\ \A t \in Elems(queue) : Working(t)
      /\ \A t \in Elems(waiting) : t.id # Completion => Working(t)
    BY <1>1 DEF WorkRows, Tasks
<1>6. ASSUME NEW t \in Elems(Tail(queue)) PROVE Working(t)'
  <2>1. pending'[t.id] = pending[t.id] /\ Working(t) /\ Shaped(t)
    BY <1>2, <1>4, <1>5 DEF Task
  <2>2. Private(t)'
    <3>1. CASE Owning(t)
      <4>1. state' = state /\ active' = active
        BY <1>2, <3>1
      <4>2. QED
        BY <2>1, <4>1, PrivateStays DEF Working
    <3>2. CASE ~Owning(t)
      BY <2>1, <3>2, ApartIs
    <3>3. QED
      BY <3>1, <3>2
  <2>3. QED
    BY <2>1, <2>2 DEF Working
<1>7. ASSUME NEW t \in Elems(waiting), t.id # Completion PROVE Working(t)'
  <2>1. /\ pending'[t.id] = pending[t.id] /\ Working(t) /\ Shaped(t) /\ ~Owning(t)
    BY <1>2, <1>3, <1>4, <1>5, <1>7 DEF Task
  <2>2. Private(t)'
    BY <2>1, ApartIs
  <2>3. QED
    BY <2>1, <2>2 DEF Working
<1>8. ASSUME NEW t \in Elems(waiting'), t.id # Completion PROVE Working(t)'
  <2>1. CASE t \in Elems(waiting)
    BY <1>7, <1>8, <2>1
  <2>2. CASE t \notin Elems(waiting)
    <3>1. t = current /\ lane # t.id /\ pending' = pending
      BY <1>8, <2>2 DEF Dispatched
    <3>2. Working(t) /\ Shaped(t) /\ ~Owning(t)
      BY <1>2, <1>5, <3>1 DEF Task
    <3>3. Private(t)'
      BY <3>2, ApartIs
    <3>4. QED
      BY <3>1, <3>2, <3>3 DEF Working
  <2>3. QED
    BY <2>1, <2>2
<1>9. \A t \in Elems(queue') : Working(t)'
    BY <1>6, <1>7 DEF Dispatched
<1>10. ASSUME NEW u \in TaskId, pending'[u] # {}
       PROVE  u \in Ids(queue') \cup Ids(waiting')
  <2>1. CASE \E t \in new \cup Elems(waiting') : t.id = u
    BY <1>4, <2>1 DEF Dispatched
  <2>2. CASE pending[u] # {} /\ u # current.id
    <3>1. u \in Ids(queue) \cup Ids(waiting)
      BY <1>1, <2>2 DEF WorkRows
    <3>2. PICK t \in Elems(queue) \cup Elems(waiting) : t.id = u
      BY <1>4, <3>1
    <3>3. t \in Elems(queue') \cup Elems(waiting')
      BY <1>2, <2>2, <3>2, TaskIds, <1>1 DEF Remains
    <3>4. QED
      BY <1>4, <3>2, <3>3
  <2>3. QED
    BY <1>10, <2>1, <2>2
<1>11. QED
    BY <1>8, <1>9, <1>10 DEF WorkRows, Tasks

(* The failing bodies, after a dispatch.                                   *)
LEMMA FailsAre ==
    ASSUME Here, queue # <<>>, NEW new, Dispatched(new), Remains
    PROVE  /\ IdsDistinct(queue) /\ IdsDistinct(queue')
           /\ current \in Elems(queue) /\ current \notin Elems(Tail(queue))
           /\ \A t : IsFail(t) =>
                 /\ t \in Elems(queue') <=> t \in Elems(Tail(queue)) \cup new
                 /\ t \in Elems(queue) <=> t = current \/ t \in Elems(Tail(queue))
<1>1. Structure /\ LaneInv
    BY DEF Here
<1>2. /\ current \in Elems(queue) /\ Elems(queue) = {current} \cup Elems(Tail(queue))
      /\ \A t \in Elems(Tail(queue)) : t.id # current.id
    BY <1>1, FrontIs
<1>3. \A t \in Elems(waiting) : t.id = Completion \/ ~IsFail(t)
    BY <1>1, FailOwns DEF Structure
<1>4. QED
    BY <1>1, <1>2, <1>3 DEF Dispatched, Remains, Structure

(* If no fail job was started or ended, their view is as it was.           *)
LEMMA FailsKeep ==
    ASSUME Here, queue # <<>>, NEW new, Dispatched(new), Remains,
           \A t \in new : ~IsFail(t), ~IsFail(current)
    PROVE  Failing' = Failing /\ Captured' = Captured /\ Failing[current.id] = {}
<1>1. /\ IdsDistinct(queue) /\ IdsDistinct(queue')
      /\ \A t : IsFail(t) => (t \in Elems(queue) <=> t \in Elems(queue'))
    BY FailsAre
<1>2. \A u, field : FailOf(queue, u, field) = FailOf(queue', u, field)
    BY <1>1, FailsStay
<1>3. /\ Failing' = Failing /\ Captured' = Captured
    BY <1>2, FailViews
<1>4. current.id \in TaskId /\ current \in Elems(queue) /\ Structure
    BY FrontIs DEF Here
<1>5. \A t \in Elems(queue) : ~(IsFail(t) /\ t.id = current.id)
  <2>1. \A t \in Elems(queue) : t.id = current.id => t = current
    BY <1>4 DEF Structure, IdsDistinct, Elems
  <2>2. QED
    BY <2>1
<1>6. FailOf(queue, current.id, "cond") = {}
    BY <1>1, <1>5, FailOfIs
<1>7. QED
    BY <1>3, <1>4, <1>6, FailViews

(* What the certificate sees of a step, the rows and the lane aside.       *)
Outside == UNCHANGED <<active, ready, observer, output, failed, published>>

(* The task keeps the lane, if it is not done, or gives it to whoever      *)
(* waits for it.                                                           *)
LaneGoes ==
    \/ lane' = lane /\ (lane = current.id => pending'[current.id] # {})
    \/ lane = current.id /\ (lane' = Free \/ lane' \in Ids(waiting))

Advanced == WorkRows' /\ CStep /\ (queued' => queued)

(* Who waits has a row, or is a certificate that wants the lane.           *)
LEMMA GrantIs ==
    ASSUME There, queue # <<>>, ready' = ready, LaneGoes,
           \A u \in Ids(queue) \cup Ids(waiting) :
              u \in TaskId /\ u # current.id => pending'[u] = pending[u]
    PROVE  C!LaneAfter(current.id)
<1>1. Structure /\ LaneInv /\ WorkRows /\ ReadyRows
    BY DEF There, Here, Rows
<1>2. CASE lane = current.id /\ (lane' = Free \/ lane' \in Ids(waiting))
  <2>1. CASE lane' = Free
    BY <1>1, <1>2, <2>1, FrontIs, TaskIds DEF C!LaneAfter, C!Grantable
  <2>2. CASE lane' \in Ids(waiting)
    <3>1. lane' \in TaskId \cup {Completion} /\ lane' # current.id
      BY <1>1, <2>2, LaneSays, FrontIs
    <3>2. CASE lane' = Completion
      <4>1. ready.phase = "Acquire"
        BY <1>1, <2>2, <3>2, LaneSays DEF ReadyRows
      <4>2. ReadyView'.phase = "Acquire"
        BY <4>1 DEF ReadyView
      <4>3. QED
        BY <1>2, <3>1, <3>2, <4>2 DEF C!LaneAfter, C!Grantable
    <3>3. CASE lane' \in TaskId
      <4>1. PICK t \in Elems(waiting) : t.id = lane'
        BY <2>2 DEF Ids, Elems
      <4>2. t.id # Completion
        BY <3>3, <4>1, <1>1, TaskIds
      <4>3. pending[t.id] # {}
        BY <1>1, <4>1, <4>2 DEF WorkRows, Working, Tasks
      <4>4. pending'[lane'] # {}
        BY <2>2, <3>1, <3>3, <4>1, <4>3
      <4>5. QED
        BY <1>2, <3>1, <3>3, <4>4 DEF C!LaneAfter, C!Grantable
    <3>4. QED
      BY <3>1, <3>2, <3>3
  <2>3. QED
    BY <1>2, <2>1, <2>2
<1>3. CASE lane' = lane /\ (lane = current.id => pending'[current.id] # {})
    BY <1>3 DEF C!LaneAfter
<1>4. QED
    BY <1>2, <1>3 DEF LaneGoes

(* The dispatched task has a row.                                          *)
LEMMA CurrentWorks ==
    ASSUME There, queue # <<>>
    PROVE  /\ Here /\ Structure /\ LaneInv /\ Working(current) /\ current.id \in TaskId
           /\ pending[current.id] # {} /\ current.scope = pending[current.id]
           /\ pending \in [TaskId -> SUBSET World] /\ current \in Tasks
<1>1. Structure /\ LaneInv /\ WorkRows /\ Here
    BY DEF There, Here, Rows
<1>2. current \in Tasks /\ current.id \in TaskId
    BY <1>1, FrontIs DEF Tasks
<1>3. QED
    BY <1>1, <1>2 DEF There, Rows, WorkRows, Working, C!Invariant, C!TypeOK, C!Condition

(* A step of a task that starts and ends no fail job.                      *)
LEMMA TaskStepIs ==
    ASSUME There, queue # <<>>, Outside, C!Admit(current.id), LaneGoes,
           \A u \in Ids(queue) \cup Ids(waiting) :
              u \in TaskId /\ u # current.id => pending'[u] = pending[u],
           Failing' = Failing, Captured' = Captured, Failing[current.id] = {}
    PROVE  CStep
<1>1. current.id \in TaskId /\ pending[current.id] # {}
    BY CurrentWorks
<1>2. C!LaneAfter(current.id)
    BY GrantIs DEF Outside
<1>3. ReadyView' = ReadyView /\ Delivering' = Delivering
    BY DEF Outside, ReadyView, Delivering
<1>4. C!TaskStep(current.id)
    BY <1>1, <1>2, <1>3 DEF C!TaskStep, C!Live, Outside
<1>5. QED
    BY <1>1, <1>4 DEF CStep, C!Next

(* The task goes on with its own work.                                     *)
LEMMA RequeueRows ==
    ASSUME There, queue # <<>>, Outside, state' = state, NEW task, NEW kids,
           KidsWithin(kids), Requeue(task, kids),
           task.id = current.id, task.scope = current.scope, Within(task), Private(task),
           ~IsFail(task), ~IsFail(current)
    PROVE  Advanced
<1>1. Here /\ Structure /\ LaneInv /\ current.id \in TaskId /\ current.id \in Ids(queue)
      /\ pending[current.id] # {} /\ current.scope = pending[current.id]
    BY CurrentWorks, FrontIs
<1>2. /\ C!Admit(current.id) /\ NextKids(kids) /\ Fits(kids)
      /\ pending'[current.id] = pending[current.id]
      /\ \A u \in Ids(queue) \cup Ids(waiting) :
            u \in TaskId /\ u # current.id => pending'[u] = pending[u]
      /\ \A k \in Elems(kids) : k.scope = pending'[k.id] /\ k.scope # {} /\ Within(k)
                                /\ Shaped(k) /\ ~Owning(k)
      /\ \A u \in TaskId : pending'[u] # {} => pending[u] # {} \/ u \in Ids(kids)
  <2>1. Admit(kids, FALSE)
    BY DEF Requeue
  <2>2. QED
    BY <2>1, AdmitIs
<1>3. queue' = Tail(queue) \o kids \o <<task>> /\ UNCHANGED laneVars
    BY DEF Requeue
<1>4. PICK new : new = Elems(kids) \cup {task}
    OBVIOUS
<1>5. Dispatched(new)
    BY <1>1, <1>2, <1>3, <1>4, RequeueIs
<1>6. /\ Remains /\ Elems(waiting') \subseteq Elems(waiting)
      /\ lane' = lane /\ (queued' => queued)
    BY <1>1, <1>2, <1>3, RequeueRemains
<1>7. \A t \in new : Working(t)' /\ ~IsFail(t)
  <2>1. ASSUME NEW k \in Elems(kids) PROVE Working(k)' /\ ~IsFail(k)
    BY <1>2, ApartIs DEF Working
  <2>2. Working(task)' /\ ~IsFail(task)
    BY <1>1, <1>2, PrivateStays DEF Working, Outside
  <2>3. QED
    BY <1>4, <2>1, <2>2
<1>8. \A u \in TaskId : pending'[u] # {} =>
         \/ pending[u] # {} /\ u # current.id
         \/ \E t \in new \cup Elems(waiting') : t.id = u
  <2>1. \A u \in Ids(kids) : \E k \in Elems(kids) : k.id = u
    BY DEF Ids, Elems
  <2>2. QED
    BY <1>2, <1>4, <2>1
<1>9. WorkRows'
    BY <1>2, <1>5, <1>6, <1>7, <1>8, MovesKeep DEF Outside
<1>10. Failing' = Failing /\ Captured' = Captured /\ Failing[current.id] = {}
    BY <1>1, <1>5, <1>6, <1>7, FailsKeep
<1>11. LaneGoes
    BY <1>1, <1>2, <1>6 DEF LaneGoes
<1>12. CStep
    BY <1>2, <1>10, <1>11, TaskStepIs
<1>13. QED
    BY <1>6, <1>9, <1>12 DEF Advanced

(* It goes on without the lane.                                            *)
LEMMA ReleasingRows ==
    ASSUME There, queue # <<>>, Outside, lane = current.id, NEW task, NEW kids,
           KidsWithin(kids), RequeueReleasing(task, kids),
           task.id = current.id, task.scope = current.scope, Within(task),
           Shaped(task), ~Owning(task), ~IsFail(current)
    PROVE  Advanced
<1>1. Here /\ Structure /\ LaneInv /\ current.id \in TaskId /\ current.id \in Ids(queue)
      /\ pending[current.id] # {} /\ current.scope = pending[current.id]
    BY CurrentWorks, FrontIs
<1>2. /\ C!Admit(current.id) /\ NextKids(kids) /\ Fits(kids)
      /\ pending'[current.id] = pending[current.id]
      /\ \A u \in Ids(queue) \cup Ids(waiting) :
            u \in TaskId /\ u # current.id => pending'[u] = pending[u]
      /\ \A k \in Elems(kids) : k.scope = pending'[k.id] /\ k.scope # {} /\ Within(k)
                                /\ Shaped(k) /\ ~Owning(k)
      /\ \A u \in TaskId : pending'[u] # {} => pending[u] # {} \/ u \in Ids(kids)
  <2>1. Admit(kids, FALSE)
    BY DEF RequeueReleasing
  <2>2. QED
    BY <2>1, AdmitIs
<1>4. PICK new : new = Elems(kids) \cup {task}
    OBVIOUS
<1>5. Dispatched(new)
    BY <1>1, <1>2, <1>4, RequeueReleasingIs
<1>6. /\ Remains /\ Elems(waiting') \subseteq Elems(waiting)
      /\ lane' = Free \/ lane' \in Ids(waiting)
      /\ queued' => queued
    BY <1>1, <1>2, ReleasingRemains
<1>7. \A t \in new : Working(t)' /\ ~IsFail(t)
  <2>1. ASSUME NEW k \in Elems(kids) PROVE Working(k)' /\ ~IsFail(k)
    BY <1>2, ApartIs DEF Working
  <2>2. Working(task)' /\ ~IsFail(task)
    BY <1>1, <1>2, ApartIs DEF Working
  <2>3. QED
    BY <1>4, <2>1, <2>2
<1>8. \A u \in TaskId : pending'[u] # {} =>
         \/ pending[u] # {} /\ u # current.id
         \/ \E t \in new \cup Elems(waiting') : t.id = u
  <2>1. \A u \in Ids(kids) : \E k \in Elems(kids) : k.id = u
    BY DEF Ids, Elems
  <2>2. QED
    BY <1>2, <1>4, <2>1
<1>9. WorkRows'
    BY <1>2, <1>5, <1>6, <1>7, <1>8, MovesKeep
<1>10. Failing' = Failing /\ Captured' = Captured /\ Failing[current.id] = {}
    BY <1>1, <1>5, <1>6, <1>7, FailsKeep
<1>11. LaneGoes
    BY <1>6 DEF LaneGoes
<1>12. CStep
    BY <1>2, <1>10, <1>11, TaskStepIs
<1>13. QED
    BY <1>6, <1>9, <1>12 DEF Advanced

(* What is left of a task that is done: its children.                      *)
LEMMA FinishWork ==
    ASSUME There, queue # <<>>,
           (state' = state /\ active' = active) \/ lane = current.id,
           NEW kids, KidsWithin(kids), Finish(kids)
    PROVE  /\ WorkRows' /\ C!Admit(current.id) /\ LaneGoes /\ (queued' => queued)
           /\ \A u \in Ids(queue) \cup Ids(waiting) :
                 u \in TaskId /\ u # current.id => pending'[u] = pending[u]
           /\ Dispatched(Elems(kids)) /\ Remains /\ \A t \in Elems(kids) : ~IsFail(t)
<1>1. Here /\ Structure /\ LaneInv /\ current.id \in TaskId /\ current.id \in Ids(queue)
      /\ pending[current.id] # {} /\ current.scope = pending[current.id]
    BY CurrentWorks, FrontIs
<1>2. /\ C!Admit(current.id) /\ NextKids(kids) /\ Fits(kids)
      /\ pending'[current.id] = {}
      /\ \A u \in Ids(queue) \cup Ids(waiting) :
            u \in TaskId /\ u # current.id => pending'[u] = pending[u]
      /\ \A k \in Elems(kids) : k.scope = pending'[k.id] /\ k.scope # {} /\ Within(k)
                                /\ Shaped(k) /\ ~Owning(k)
      /\ \A u \in TaskId : pending'[u] # {} => pending[u] # {} \/ u \in Ids(kids)
  <2>1. Admit(kids, TRUE)
    BY DEF Finish
  <2>2. QED
    BY <2>1, AdmitIs
<1>4. PICK new : new = Elems(kids)
    OBVIOUS
<1>5. Dispatched(new)
    BY <1>1, <1>2, <1>4, FinishIs
<1>6. /\ Remains /\ Elems(waiting') \subseteq Elems(waiting)
      /\ \/ lane' = lane /\ lane # current.id
         \/ lane = current.id /\ (lane' = Free \/ lane' \in Ids(waiting))
      /\ queued' => queued
    BY <1>1, <1>2, FinishRemains
<1>7. \A t \in new : Working(t)' /\ ~IsFail(t)
    BY <1>2, <1>4, ApartIs DEF Working
<1>8. \A u \in TaskId : pending'[u] # {} =>
         \/ pending[u] # {} /\ u # current.id
         \/ \E t \in new \cup Elems(waiting') : t.id = u
  <2>1. \A u \in Ids(kids) : \E k \in Elems(kids) : k.id = u
    BY DEF Ids, Elems
  <2>2. QED
    BY <1>2, <1>4, <2>1
<1>9. WorkRows'
    BY <1>2, <1>5, <1>6, <1>7, <1>8, MovesKeep
<1>10. LaneGoes
    BY <1>6 DEF LaneGoes
<1>11. QED
    BY <1>2, <1>4, <1>5, <1>6, <1>7, <1>9, <1>10

(* It is done without having failed.                                       *)
LEMMA FinishRows ==
    ASSUME There, queue # <<>>, Outside, state' = state \/ lane = current.id,
           NEW kids, KidsWithin(kids), Finish(kids), ~IsFail(current)
    PROVE  Advanced
<1>1. /\ WorkRows' /\ C!Admit(current.id) /\ LaneGoes /\ (queued' => queued)
      /\ \A u \in Ids(queue) \cup Ids(waiting) :
            u \in TaskId /\ u # current.id => pending'[u] = pending[u]
      /\ Dispatched(Elems(kids)) /\ Remains /\ \A t \in Elems(kids) : ~IsFail(t)
    BY FinishWork DEF Outside
<1>2. Here
    BY DEF There
<1>3. Failing' = Failing /\ Captured' = Captured /\ Failing[current.id] = {}
    BY <1>1, <1>2, FailsKeep
<1>4. CStep
    BY <1>1, <1>3, TaskStepIs
<1>5. QED
    BY <1>1, <1>4 DEF Advanced

(* It asks for the lane.                                                   *)
LEMMA AcquireRows ==
    ASSUME There, queue # <<>>, Outside, state' = state, NEW task, AcquireAndRequeue(task),
           task.id = current.id, task.scope = current.scope, Within(task), Private(task),
           ~IsFail(task), ~IsFail(current)
    PROVE  Advanced
<1>1. /\ Here /\ Structure /\ LaneInv /\ current.id \in TaskId /\ current.id \in Ids(queue)
      /\ pending[current.id] # {} /\ current.scope = pending[current.id]
      /\ Working(current)
    BY CurrentWorks, FrontIs
<1>2. /\ Remains
      /\ {task, current} \cap (Elems(queue') \cup Elems(waiting')) # {}
      /\ pending' = pending /\ queued' = queued
      /\ \/ lane' = lane
         \/ lane = Free /\ lane' = current.id
    BY <1>1, AcquireRemains
<1>3. PICK new : Dispatched(new) /\ new \subseteq {task}
  <2>1. Dispatched({task}) \/ Dispatched({})
    BY <1>1, AcquireIs
  <2>2. QED
    BY <2>1
<1>4. \A t \in new : Working(t)' /\ ~IsFail(t)
  <2>1. Private(task)'
    BY PrivateStays DEF Outside
  <2>2. Working(task)'
    BY <1>1, <1>2, <2>1 DEF Working
  <2>3. QED
    BY <1>3, <2>2
<1>5. WorkRows'
  <2>1. \A t \in Elems(queue') \cup Elems(waiting') : t.id = current.id =>
           t \in new \cup Elems(waiting')
    <3>1. \A t \in Elems(Tail(queue)) : t.id # current.id
      BY <1>1, FrontIs
    <3>2. \A t \in Elems(waiting) : t.id # current.id
      BY <1>1, FrontIs DEF Ids, Elems
    <3>3. QED
      BY <1>3, <3>1, <3>2 DEF Dispatched
  <2>2. \E t \in new \cup Elems(waiting') : t.id = current.id
    BY <1>2, <2>1
  <2>3. \A u \in TaskId : pending'[u] # {} =>
           \/ pending[u] # {} /\ u # current.id
           \/ \E t \in new \cup Elems(waiting') : t.id = u
    BY <1>2, <2>2
  <2>4. \A u \in Ids(queue) \cup Ids(waiting) :
            u \in TaskId /\ u # current.id => pending'[u] = pending[u]
    BY <1>2
  <2>5. QED
    <3>1. /\ state' = state /\ active' = active
          /\ Dispatched(new) /\ Remains /\ \A t \in new : Working(t)'
      BY <1>2, <1>3, <1>4 DEF Outside
    <3>2. Elems(waiting') \subseteq Elems(waiting) \/ pending' = pending
      BY <1>2
    <3>3. QED
      BY ONLY There, queue # <<>>, <2>3, <2>4, <3>1, <3>2, MovesKeep
<1>6. Failing' = Failing /\ Captured' = Captured
  <2>1. Here /\ Dispatched(new) /\ Remains /\ \A t \in new : ~IsFail(t)
    BY <1>1, <1>2, <1>3, <1>4
  <2>2. QED
    BY ONLY queue # <<>>, ~IsFail(current), <2>1, FailsKeep
<1>7. ReadyView' = ReadyView /\ Delivering' = Delivering
    BY DEF Outside, ReadyView, Delivering
<1>8. ASSUME lane' = lane PROVE CStep
    BY <1>2, <1>6, <1>7, <1>8 DEF CStep, C!vars, Outside
<1>9. ASSUME lane = Free, lane' = current.id PROVE CStep
  <2>1. C!TaskAcquire(current.id)
    BY <1>1, <1>2, <1>6, <1>7, <1>9 DEF C!TaskAcquire, C!Live, Outside
  <2>2. QED
    BY <1>1, <2>1 DEF CStep, C!Next
<1>10. QED
    BY <1>2, <1>5, <1>8, <1>9 DEF Advanced

-----------------------------------------------------------------------------
(* The rows, under the actions of the tasks.                               *)

(* Who only goes on with its own work changes nothing the certificate sees.*)
LEMMA OwnRows ==
    ASSUME NEW kind, Own(kind)
    PROVE  Outside /\ state' = state /\ queue # <<>> /\ current.kind = kind
BY TaskService DEF Own, Dispatch, others, Outside, current

(* The same for a body,                                                  *)
LEMMA BodyOwnRows ==
    ASSUME NEW phase, BodyOwn(phase)
    PROVE  /\ Outside /\ state' = state /\ queue # <<>> /\ current.kind = "Body"
           /\ current.phase = phase /\ current.cond # {}
BY TaskService DEF BodyOwn, BodyIn, Dispatch, others, Outside, current, b

(* and for a commit.                                                     *)
LEMMA CommitOwnRows ==
    ASSUME NEW phase, CommitOwn(phase)
    PROVE  /\ Outside /\ state' = state /\ queue # <<>> /\ current.kind = "Search"
           /\ c # None /\ c.phase = phase /\ c.cond # {}
BY TaskService DEF CommitOwn, CommitIn, Dispatch, others, Outside, current

(* A body is spawned within the condition it is spawned in.                *)
LEMMA BodyKidWithin ==
    ASSUME NEW kids, NEW ins, NEW env, NEW cond, kids = Spawned(cond, Body(ins, env, cond)),
           cond \subseteq current.scope
    PROVE  KidsWithin(kids)
<1>1. PICK task : task = Body(ins, env, cond)
    OBVIOUS
<1>2. /\ task.kind = "Body" /\ DOMAIN task = BodyFields /\ task.phase = "Dispatch"
      /\ task.cond = cond
    BY <1>1 DEF Body, BodyFields
<1>3. Shaped(task) /\ ~Owning(task) /\ Inside(task, cond)
    BY <1>2 DEF Shaped, Owning, Inside
<1>4. kids = Spawned(cond, task)
    BY <1>1
<1>5. QED
    BY <1>3, <1>4, SpawnWithin

(* The same for a half of the arms.                                      *)
LEMMA RangeKidWithin ==
    ASSUME NEW kids, NEW body, NEW start, NEW end, NEW cond,
           kids = Spawned(cond, BodyRange(body, start, end, cond)),
           cond \subseteq current.scope
    PROVE  KidsWithin(kids)
<1>1. PICK task : task = BodyRange(body, start, end, cond)
    OBVIOUS
<1>2. /\ task.kind = "Body" /\ DOMAIN task = BodyFields /\ task.phase = "Dispatch"
      /\ task.cond = cond
  <2>1. CASE end - start = 1
    BY <1>1, <2>1 DEF BodyRange, Body, BodyFields
  <2>2. CASE end - start # 1
    BY <1>1, <2>2 DEF BodyRange, Body, BodyFields
  <2>3. QED
    BY <2>1, <2>2
<1>3. Shaped(task) /\ ~Owning(task) /\ Inside(task, cond)
    BY <1>2 DEF Shaped, Owning, Inside
<1>4. kids = Spawned(cond, task)
    BY <1>1
<1>5. QED
    BY <1>3, <1>4, SpawnWithin

(* A body goes on, with fewer worlds perhaps.                              *)
LEMMA BodyAdvances ==
    ASSUME There, queue # <<>>, Outside, state' = state, current.kind = "Body",
           current.phase # "Fail", NEW task, NEW kids, KidsWithin(kids), Requeue(task, kids),
           task.kind = "Body", task.id = current.id, task.scope = current.scope,
           task.cond \subseteq current.cond, task.phase # "Fail",
           task.phase = "Apply" => task.cond \subseteq active
    PROVE  Advanced
<1>1. Within(current)
    BY CurrentWorks DEF Working
<1>2. Within(task) /\ Private(task)
    BY <1>1 DEF Within, Inside, Private, Clipped, Staged
<1>3. ~IsFail(task) /\ ~IsFail(current)
    BY DEF IsFail
<1>4. QED
    BY <1>2, <1>3, RequeueRows

(* A task that has not failed is done without children.                    *)
LEMMA DoneAdvances ==
    ASSUME There, queue # <<>>, Outside, state' = state, ~IsFail(current), Finish(<<>>)
    PROVE  Advanced
<1>1. PICK kids : kids = <<>>
    OBVIOUS
<1>2. KidsWithin(kids) /\ Finish(kids)
    BY <1>1, NoKidsWithin
<1>3. QED
    BY <1>2, FinishRows

(* A task that keeps its work and takes one more variable.                 *)
LEMMA VariableAdvances ==
    ASSUME There, queue # <<>>, Outside, state' = state, NEW task,
           queue' = Append(Tail(queue), task), UNCHANGED laneVars, pending' = pending,
           task.id = current.id, task.scope = current.scope, Within(task), Private(task),
           ~IsFail(task), ~IsFail(current)
    PROVE  Advanced
<1>1. Here /\ Structure /\ LaneInv /\ current.id \in TaskId
      /\ pending[current.id] # {} /\ current.scope = pending[current.id]
    BY CurrentWorks
<1>2. IsSeq(Tail(queue))
    BY <1>1, FrontIs
<1>3. PICK kids : kids = <<>>
    OBVIOUS
<1>4. queue' = Tail(queue) \o kids \o <<task>>
    BY <1>2, <1>3, AppendIs, EmptyIs
<1>5. NextKids(kids) /\ Elems(kids) = {}
    BY <1>3, EmptyIs DEF NextKids
<1>6. PICK new : new = {task}
    OBVIOUS
<1>7. Dispatched(new)
  <2>1. Dispatched(Elems(kids) \cup {task})
    BY <1>1, <1>3, <1>4, <1>5, RequeueIs
  <2>2. QED
    BY <1>5, <1>6, <2>1
<1>8. Remains /\ Elems(waiting') \subseteq Elems(waiting) /\ lane' = lane
      /\ (queued' => queued)
    BY <1>1, <1>3, <1>4, <1>5, RequeueRemains
<1>9. \A t \in new : Working(t)' /\ ~IsFail(t)
    BY <1>1, <1>6, PrivateStays DEF Working, Outside
<1>10. \A u \in TaskId : pending'[u] # {} =>
         \/ pending[u] # {} /\ u # current.id
         \/ \E t \in new \cup Elems(waiting') : t.id = u
    BY <1>6
<1>11. /\ state' = state /\ active' = active
       /\ \A u \in Ids(queue) \cup Ids(waiting) :
             u \in TaskId /\ u # current.id => pending'[u] = pending[u]
    BY DEF Outside
<1>12. WorkRows'
    BY <1>7, <1>8, <1>9, <1>10, <1>11, MovesKeep
<1>13. Failing' = Failing /\ Captured' = Captured
    BY <1>1, <1>7, <1>8, <1>9, FailsKeep
<1>14. ReadyView' = ReadyView /\ Delivering' = Delivering
    BY DEF Outside, ReadyView, Delivering
<1>15. CStep
    BY <1>8, <1>13, <1>14 DEF CStep, C!vars, Outside
<1>16. QED
    BY <1>8, <1>12, <1>15 DEF Advanced

(* A job that is not done.                                                 *)
LEMMA PendingAdvances ==
    ASSUME There, TaskPending
    PROVE  Advanced
<1>0. queue # <<>> /\ Outside /\ state' = state /\ Requeue(current, <<>>)
    BY TaskService DEF TaskPending, Outside, viewVars
<1>1. Here /\ Structure /\ LaneInv /\ Working(current) /\ current.id \in TaskId
      /\ pending[current.id] # {} /\ current.scope = pending[current.id]
      /\ pending \in [TaskId -> SUBSET World]
    BY <1>0, CurrentWorks
<1>2. PICK task, kids : task = current /\ kids = <<>>
    OBVIOUS
<1>3. /\ Admit(kids, FALSE) /\ queue' = Tail(queue) \o kids \o <<task>>
      /\ UNCHANGED laneVars
    BY <1>0, <1>2 DEF Requeue
<1>4. NextKids(kids) /\ Elems(kids) = {} /\ Fits(kids)
    BY <1>2, <1>3, EmptyIs DEF NextKids, Admit
<1>5. pending' = pending
  <2>1. \A t : ~ \E i \in DOMAIN kids : kids[i].id = t
    BY <1>2
  <2>2. pending' = [t \in TaskId |-> pending[t]]
    BY <1>3, <2>1 DEF Admit
  <2>3. QED
    BY <1>1, <2>2
<1>6. PICK new : new = {task}
    OBVIOUS
<1>7. Dispatched(new)
  <2>1. Dispatched(Elems(kids) \cup {task})
    BY <1>0, <1>1, <1>2, <1>3, <1>4, RequeueIs
  <2>2. QED
    BY <1>4, <1>6, <2>1
<1>8. Remains /\ Elems(waiting') \subseteq Elems(waiting) /\ lane' = lane
      /\ (queued' => queued)
    BY <1>0, <1>1, <1>3, <1>4, RequeueRemains
<1>9. \A t \in new : Working(t)'
  <2>1. Private(task)'
    BY <1>0, <1>1, <1>2, PrivateStays DEF Outside, Working
  <2>2. Working(task)
    BY <1>1, <1>2
  <2>3. Working(task)'
    BY <1>5, <2>1, <2>2 DEF Working
  <2>4. QED
    BY <1>6, <2>3
<1>10. \A u \in TaskId : pending'[u] # {} =>
         \/ pending[u] # {} /\ u # current.id
         \/ \E t \in new \cup Elems(waiting') : t.id = u
    BY <1>2, <1>5, <1>6
<1>11. /\ state' = state /\ active' = active
       /\ \A u \in Ids(queue) \cup Ids(waiting) :
             u \in TaskId /\ u # current.id => pending'[u] = pending[u]
    BY <1>0, <1>5 DEF Outside
<1>12. WorkRows'
    BY <1>0, <1>7, <1>8, <1>9, <1>10, <1>11, MovesKeep
<1>13. Failing' = Failing /\ Captured' = Captured
  <2>1. /\ IdsDistinct(queue) /\ IdsDistinct(queue')
        /\ \A t : IsFail(t) => (t \in Elems(queue) <=> t \in Elems(queue'))
    BY <1>0, <1>1, <1>2, <1>6, <1>7, <1>8, FailsAre
  <2>2. \A u, field : FailOf(queue, u, field) = FailOf(queue', u, field)
    BY <2>1, FailsStay
  <2>3. QED
    BY <2>2, FailViews
<1>14. ReadyView' = ReadyView /\ Delivering' = Delivering
    BY <1>0 DEF Outside, ReadyView, Delivering
<1>15. CStep
    BY <1>0, <1>5, <1>8, <1>13, <1>14 DEF CStep, C!vars, Outside
<1>16. QED
    BY <1>8, <1>12, <1>15 DEF Advanced

(* The query's variables, then its body.                                 *)
LEMMA InitTickAdvances ==
    ASSUME There, InitTick
    PROVE  Advanced
<1>1. Outside /\ state' = state /\ queue # <<>> /\ current.kind = "Init"
    BY OwnRows DEF InitTick
<1>2. DOMAIN current = InitFields /\ ~IsFail(current)
    BY <1>1, CurrentIs DEF Shaped, IsFail, There
<1>3. CASE Len(current.env) < QueryVars
  <2>1. PICK task : task = [current EXCEPT !.env = Append(@, next.var)]
    OBVIOUS
  <2>2. queue' = Append(Tail(queue), task) /\ UNCHANGED laneVars /\ pending' = pending
    BY <1>3, <2>1 DEF InitTick
  <2>3. task.id = current.id /\ task.kind = "Init" /\ task.scope = current.scope
    BY <1>1, <1>2, <2>1 DEF InitFields
  <2>4. Within(task) /\ Private(task) /\ ~IsFail(task)
    BY <2>3 DEF Within, Inside, Private, Clipped, Staged, IsFail
  <2>5. QED
    BY <1>1, <1>2, <2>2, <2>3, <2>4, VariableAdvances
<1>4. CASE ~(Len(current.env) < QueryVars)
  <2>1. PICK kids, cond : /\ kids = Spawned(cond, Body(Query, current.env, cond))
                          /\ cond = current.scope
    OBVIOUS
  <2>2. Finish(kids)
    BY <1>4, <2>1 DEF InitTick
  <2>3. KidsWithin(kids)
    BY <2>1, BodyKidWithin
  <2>4. QED
    BY <1>1, <1>2, <2>2, <2>3, FinishRows
<1>5. QED
    BY <1>3, <1>4

(* A body without worlds is done.                                        *)
LEMMA BodyEmptyAdvances ==
    ASSUME There, BodyEmpty
    PROVE  Advanced
<1>1. Outside /\ state' = state /\ queue # <<>> /\ current.kind = "Body" /\ current.cond = {}
      /\ Finish(<<>>)
    BY OwnRows DEF BodyEmpty, b
<1>2. ~IsFail(current)
    BY <1>1, CurrentWorks DEF Working, Private, Clipped, IsFail
<1>3. QED
    BY <1>1, <1>2, DoneAdvances

(* An instruction is read.                                               *)
LEMMA BodyDispatchAdvances ==
    ASSUME There, BodyDispatch
    PROVE  Advanced
<1>1. Outside /\ state' = state /\ queue # <<>> /\ current.kind = "Body"
      /\ current.phase = "Dispatch" /\ ~IsFail(current)
    BY BodyOwnRows DEF BodyDispatch, IsFail
<1>2. DOMAIN current = BodyFields
    BY <1>1, BodyIs DEF There
<1>3. CASE Ins.op = "True"
    BY <1>1, <1>3, DoneAdvances DEF BodyDispatch
<1>4. CASE Ins.op # "True"
  <2>1. PICK task, kids, phase :
           /\ phase = (CASE Ins.op = "And" -> "Expand" [] Ins.op = "Post" -> "Arguments"
                         [] OTHER -> "Acquire")
           /\ task = [current EXCEPT !.phase = phase] /\ kids = <<>>
    OBVIOUS
  <2>2. Requeue(task, kids)
    BY <1>4, <2>1 DEF BodyDispatch, b
  <2>3. /\ task.kind = "Body" /\ task.id = current.id /\ task.scope = current.scope
        /\ task.phase = phase /\ task.cond = current.cond
    BY <1>1, <1>2, <2>1 DEF BodyFields
  <2>4. phase \in {"Expand", "Arguments", "Acquire"}
    BY <2>1
  <2>5. QED
    BY <1>1, <2>1, <2>2, <2>3, <2>4, NoKidsWithin, BodyAdvances
<1>5. QED
    BY <1>3, <1>4

(* An argument is read.                                                  *)
LEMMA BodyArgumentsAdvances ==
    ASSUME There, BodyArguments
    PROVE  Advanced
<1>1. Outside /\ state' = state /\ queue # <<>> /\ current.kind = "Body"
      /\ current.phase = "Arguments"
    BY BodyOwnRows DEF BodyArguments
<1>2. DOMAIN current = BodyFields
    BY <1>1, BodyIs DEF There
<1>3. PICK task, kids : /\ kids = <<>> /\ Requeue(task, kids)
                        /\ \/ task = [current EXCEPT !.phase = "Acquire"]
                           \/ task = [current EXCEPT !.index = @ + 1]
    BY DEF BodyArguments, b
<1>4. /\ task.kind = "Body" /\ task.id = current.id /\ task.scope = current.scope
      /\ task.phase \in {"Acquire", "Arguments"} /\ task.cond = current.cond
    BY <1>1, <1>2, <1>3 DEF BodyFields
<1>5. QED
    BY <1>1, <1>3, <1>4, NoKidsWithin, BodyAdvances

(* A conjunct is spawned in the worlds of the conjunction.               *)
LEMMA BodyExpandAdvances ==
    ASSUME There, BodyExpand
    PROVE  Advanced
<1>1. Outside /\ state' = state /\ queue # <<>> /\ current.kind = "Body"
      /\ current.phase = "Expand" /\ ~IsFail(current)
    BY BodyOwnRows DEF BodyExpand, IsFail
<1>2. DOMAIN current = BodyFields /\ current.cond \subseteq current.scope
    BY <1>1, BodyIs, CurrentWorks DEF There, Working, Within, Inside
<1>3. CASE b.index > Len(Ins.items)
    BY <1>1, <1>3, DoneAdvances DEF BodyExpand
<1>4. CASE ~(b.index > Len(Ins.items))
  <2>1. PICK task, kids, ins, env, cond :
           /\ task = [current EXCEPT !.index = @ + 1]
           /\ ins = Ins.items[current.index] /\ env = current.env /\ cond = current.cond
           /\ kids = Spawned(cond, Body(ins, env, cond))
    OBVIOUS
  <2>2. Requeue(task, kids)
    BY <1>4, <2>1 DEF BodyExpand, b
  <2>3. KidsWithin(kids)
    BY <1>2, <2>1, BodyKidWithin
  <2>4. /\ task.kind = "Body" /\ task.id = current.id /\ task.scope = current.scope
        /\ task.phase = "Expand" /\ task.cond = current.cond
    BY <1>1, <1>2, <2>1 DEF BodyFields
  <2>5. QED
    BY <1>1, <2>2, <2>3, <2>4, BodyAdvances
<1>5. QED
    BY <1>3, <1>4

(* The body is clipped to `active', with the lane.                       *)
LEMMA BodyAcquireAdvances ==
    ASSUME There, BodyAcquire
    PROVE  Advanced
<1>1. Outside /\ state' = state /\ queue # <<>> /\ current.kind = "Body"
      /\ current.phase = "Acquire" /\ ~IsFail(current)
    BY BodyOwnRows DEF BodyAcquire, IsFail
<1>2. DOMAIN current = BodyFields /\ current.cond \subseteq current.scope
    BY <1>1, BodyIs, CurrentWorks DEF There, Working, Within, Inside
<1>3. PICK task : /\ AcquireAndRequeue(task)
                  /\ \/ task = [current EXCEPT !.phase = "Apply", !.cond = @ \cap active]
                     \/ task = [current EXCEPT !.phase = "Filter", !.act = active]
    BY DEF BodyAcquire, b
<1>4. /\ task.kind = "Body" /\ task.id = current.id /\ task.scope = current.scope
      /\ task.phase \in {"Apply", "Filter"} /\ task.cond \subseteq current.cond
      /\ task.phase = "Apply" => task.cond \subseteq active
    BY <1>1, <1>2, <1>3 DEF BodyFields
<1>5. Within(task) /\ Private(task) /\ ~IsFail(task)
    BY <1>2, <1>4 DEF Within, Inside, Private, Clipped, Staged, IsFail
<1>6. QED
    BY <1>1, <1>3, <1>4, <1>5, AcquireRows

(* The same by a job; `active' is what it was when the job started.      *)
LEMMA BodyFilterAdvances ==
    ASSUME There, BodyFilter
    PROVE  Advanced
<1>1. Outside /\ state' = state /\ queue # <<>> /\ current.kind = "Body"
      /\ current.phase = "Filter"
    BY BodyOwnRows DEF BodyFilter
<1>2. DOMAIN current = BodyFields /\ current.act = active
    BY <1>1, BodyIs DEF There, Owning, Held
<1>3. PICK task, kids : /\ task = [current EXCEPT !.phase = "Apply", !.cond = @ \cap current.act]
                        /\ kids = <<>> /\ Requeue(task, kids)
    BY DEF BodyFilter, b
<1>4. /\ task.kind = "Body" /\ task.id = current.id /\ task.scope = current.scope
      /\ task.phase = "Apply" /\ task.cond = current.cond \cap active
    BY <1>1, <1>2, <1>3 DEF BodyFields
<1>5. QED
    BY <1>1, <1>3, <1>4, NoKidsWithin, BodyAdvances

(* The left half of the arms is a part of the worlds,                    *)
LEMMA BodyLeftAdvances ==
    ASSUME There, BodyLeft
    PROVE  Advanced
<1>1. Outside /\ state' = state /\ queue # <<>> /\ current.kind = "Body"
      /\ current.phase = "Left"
    BY BodyOwnRows DEF BodyLeft
<1>2. DOMAIN current = BodyFields /\ current.cond \subseteq current.scope
    BY <1>1, BodyIs, CurrentWorks DEF There, Working, Within, Inside
<1>3. PICK task, kids, cond, start, end :
         /\ task = [current EXCEPT !.phase = "Right"]
         /\ cond = current.cond \cap Decision(current.choice)
         /\ start = current.index /\ end = Split
         /\ kids = Spawned(cond, BodyRange(current, start, end, cond))
         /\ Requeue(task, kids)
    BY DEF BodyLeft, b
<1>4. KidsWithin(kids)
  <2>1. PICK body : body = current
    OBVIOUS
  <2>2. kids = Spawned(cond, BodyRange(body, start, end, cond)) /\ cond \subseteq current.scope
    BY <1>2, <1>3, <2>1
  <2>3. QED
    BY <2>2, RangeKidWithin
<1>5. /\ task.kind = "Body" /\ task.id = current.id /\ task.scope = current.scope
      /\ task.phase = "Right" /\ task.cond = current.cond
    BY <1>1, <1>2, <1>3 DEF BodyFields
<1>6. QED
    BY <1>1, <1>3, <1>4, <1>5, BodyAdvances

(* and so is the right half.                                             *)
LEMMA BodyRightAdvances ==
    ASSUME There, BodyRight
    PROVE  Advanced
<1>1. Outside /\ state' = state /\ queue # <<>> /\ current.kind = "Body"
      /\ current.phase = "Right" /\ ~IsFail(current)
    BY BodyOwnRows DEF BodyRight, IsFail
<1>2. current.cond \subseteq current.scope
    BY <1>1, CurrentWorks DEF Working, Within, Inside
<1>3. PICK kids, cond, start, end, body :
         /\ cond = current.cond \ Decision(current.choice)
         /\ start = Split /\ end = current.end /\ body = current
         /\ kids = Spawned(cond, BodyRange(body, start, end, cond))
         /\ Finish(kids)
    BY DEF BodyRight, b
<1>4. KidsWithin(kids)
    BY <1>2, <1>3, RangeKidWithin
<1>5. QED
    BY <1>1, <1>3, <1>4, FinishRows

(* A choice is born, or the only arm spawned.                            *)
LEMMA BodyChoiceAdvances ==
    ASSUME There, BodyChoice
    PROVE  Advanced
<1>1. Outside /\ state' = state /\ queue # <<>> /\ current.kind = "Body"
      /\ current.phase = "Choice" /\ ~IsFail(current)
    BY TaskService DEF BodyChoice, BodyIn, Dispatch, Outside, viewVars, current, b, IsFail
<1>2. DOMAIN current = BodyFields /\ current.cond \subseteq current.scope
    BY <1>1, BodyIs, CurrentWorks DEF There, Working, Within, Inside
<1>3. PICK end : end = (IF b.end = 0 THEN Len(Ins.items) + 1 ELSE b.end)
    OBVIOUS
<1>4. CASE current.index + 1 = end
  <2>1. PICK kids, ins, env, cond :
           /\ ins = Ins.items[current.index] /\ env = current.env /\ cond = current.cond
           /\ kids = Spawned(cond, Body(ins, env, cond))
    OBVIOUS
  <2>2. Finish(kids)
    BY <1>3, <1>4, <2>1 DEF BodyChoice, b
  <2>3. KidsWithin(kids)
    BY <1>2, <2>1, BodyKidWithin
  <2>4. QED
    BY <1>1, <2>2, <2>3, FinishRows
<1>5. CASE current.index + 1 # end
  <2>1. PICK task, kids :
           /\ kids = <<>>
           /\ task = [current EXCEPT !.phase = "Left", !.end = end, !.choice = births + 1]
    OBVIOUS
  <2>2. Requeue(task, kids)
    BY <1>3, <1>5, <2>1 DEF BodyChoice, b
  <2>3. /\ task.kind = "Body" /\ task.id = current.id /\ task.scope = current.scope
        /\ task.phase = "Left" /\ task.cond = current.cond
    BY <1>1, <1>2, <2>1 DEF BodyFields
  <2>4. QED
    BY <1>1, <2>1, <2>2, <2>3, NoKidsWithin, BodyAdvances
<1>6. QED
    BY <1>4, <1>5

(* Other tasks' fail jobs, when only the dispatched task starts or ends    *)
(* one.                                                                    *)
LEMMA FailsOfOthers ==
    ASSUME Here, queue # <<>>, NEW new, Dispatched(new), Remains,
           \A t \in new : IsFail(t) => t.id = current.id
    PROVE  /\ \A u, field : u # current.id => FailOf(queue', u, field) = FailOf(queue, u, field)
           /\ IdsDistinct(queue) /\ IdsDistinct(queue')
<1>1. /\ IdsDistinct(queue) /\ IdsDistinct(queue')
      /\ \A t : IsFail(t) /\ t.id # current.id =>
            (t \in Elems(queue') <=> t \in Elems(queue))
    BY FailsAre
<1> SUFFICES ASSUME NEW u, NEW field, u # current.id
             PROVE  FailOf(queue', u, field) = FailOf(queue, u, field)
    BY <1>1
<1>2. CASE \E t \in Elems(queue) : IsFail(t) /\ t.id = u
  <2>1. PICK t \in Elems(queue) : IsFail(t) /\ t.id = u
    BY <1>2
  <2>2. t \in Elems(queue')
    BY <1>1, <2>1
  <2>3. FailOf(queue, u, field) = t[field]
    BY <1>1, <2>1, FailOfIs
  <2>4. FailOf(queue', u, field) = t[field]
    BY <1>1, <2>1, <2>2, FailOfIs
  <2>5. QED
    BY <2>3, <2>4
<1>3. CASE \A t \in Elems(queue) : ~(IsFail(t) /\ t.id = u)
  <2>1. \A t \in Elems(queue') : ~(IsFail(t) /\ t.id = u)
    BY <1>1, <1>3
  <2>2. FailOf(queue, u, field) = {}
    BY <1>1, <1>3, FailOfIs
  <2>3. FailOf(queue', u, field) = {}
    BY <1>1, <2>1, FailOfIs
  <2>4. QED
    BY <2>2, <2>3
<1>4. QED
    BY <1>2, <1>3

(* A fail job is started: within the row of its task and the active worlds.*)
LEMMA FailStarts ==
    ASSUME There, queue # <<>>, Outside, state' = state, current.kind = "Body",
           current.phase = "Apply", current.cond # {}, NEW task,
           task = [current EXCEPT !.phase = "Fail", !.base = None, !.act = active],
           NEW kids, kids = <<>>, Requeue(task, kids)
    PROVE  Advanced
<1>1. /\ Here /\ Structure /\ LaneInv /\ Working(current) /\ current.id \in TaskId
      /\ pending[current.id] # {} /\ current.scope = pending[current.id]
      /\ pending \in [TaskId -> SUBSET World] /\ current \in Elems(queue)
      /\ \A t \in Elems(Tail(queue)) : t.id # current.id
    BY CurrentWorks, FrontIs
<1>2. DOMAIN current = BodyFields /\ lane = current.id
    BY <1>1, BodyIs DEF Owning
<1>3. /\ task.kind = "Body" /\ task.id = current.id /\ task.scope = current.scope
      /\ task.phase = "Fail" /\ task.cond = current.cond /\ task.act = active
    BY <1>2 DEF BodyFields
<1>4. /\ current.cond \subseteq active /\ current.cond \subseteq current.scope
    BY <1>1 DEF Working, Within, Inside, Private, Clipped
<1>5. /\ Admit(kids, FALSE) /\ queue' = Tail(queue) \o kids \o <<task>>
      /\ UNCHANGED laneVars
    BY DEF Requeue
<1>6. NextKids(kids) /\ Elems(kids) = {} /\ Fits(kids)
    BY <1>5, EmptyIs DEF NextKids, Admit
<1>7. pending' = pending
  <2>1. \A t : ~ \E i \in DOMAIN kids : kids[i].id = t
    OBVIOUS
  <2>2. pending' = [t \in TaskId |-> pending[t]]
    BY <1>5, <2>1 DEF Admit
  <2>3. QED
    BY <1>1, <2>2
<1>8. PICK new : new = {task}
    OBVIOUS
<1>9. Dispatched(new)
  <2>1. Dispatched(Elems(kids) \cup {task})
    BY <1>1, <1>3, <1>5, <1>6, RequeueIs
  <2>2. QED
    BY <1>6, <1>8, <2>1
<1>10. Remains /\ Elems(waiting') \subseteq Elems(waiting) /\ lane' = lane
      /\ (queued' => queued)
    BY <1>1, <1>5, <1>6, RequeueRemains
<1>11. \A t \in new : Working(t)'
  <2>1. Private(task)'
    BY <1>3, <1>4 DEF Private, Clipped, Staged, Outside
  <2>2. Within(task)
    BY <1>3, <1>4 DEF Within, Inside
  <2>3. Working(task)'
    BY <1>1, <1>3, <1>7, <2>1, <2>2 DEF Working
  <2>4. QED
    BY <1>8, <2>3
<1>12. \A u \in TaskId : pending'[u] # {} =>
         \/ pending[u] # {} /\ u # current.id
         \/ \E t \in new \cup Elems(waiting') : t.id = u
    BY <1>3, <1>7, <1>8
<1>13. /\ state' = state /\ active' = active
       /\ \A u \in Ids(queue) \cup Ids(waiting) :
             u \in TaskId /\ u # current.id => pending'[u] = pending[u]
    BY <1>7 DEF Outside
<1>14. WorkRows'
    BY <1>9, <1>10, <1>11, <1>12, <1>13, MovesKeep
<1>15. /\ \A u, field : u # current.id => FailOf(queue', u, field) = FailOf(queue, u, field)
       /\ IdsDistinct(queue) /\ IdsDistinct(queue')
    BY <1>1, <1>3, <1>8, <1>9, <1>10, FailsOfOthers
<1>16. \A t \in Elems(queue) : ~(IsFail(t) /\ t.id = current.id)
  <2>1. \A t \in Elems(queue) : t.id = current.id => t = current
    BY <1>1 DEF Structure, IdsDistinct, Elems
  <2>2. QED
    BY <2>1 DEF IsFail
<1>17. FailOf(queue, current.id, "cond") = {}
    BY <1>15, <1>16, FailOfIs
<1>18. \A field : FailOf(queue', current.id, field) = task[field]
  <2>1. task \in Elems(queue') /\ IsFail(task)
    BY <1>3, <1>8, <1>9 DEF Dispatched, IsFail
  <2>2. QED
    BY ONLY <1>3, <1>15, <2>1, FailOfIs
<1>19. /\ Failing' = [Failing EXCEPT ![current.id] = current.cond]
       /\ Captured' = [Captured EXCEPT ![current.id] = active]
  <2>1. /\ FailOf(queue', current.id, "cond") = current.cond
        /\ FailOf(queue', current.id, "act") = active
    BY ONLY <1>3, <1>18
  <2>2. QED
    BY ONLY <1>1, <1>15, <2>1, FailViews
<1>21. Failing[current.id] = {}
    BY <1>1, <1>17, FailViews
<1>22. ReadyView' = ReadyView /\ Delivering' = Delivering
    BY DEF Outside, ReadyView, Delivering
<1>23. current.cond \in (SUBSET (pending[current.id] \cap active)) \ {{}}
    BY <1>1, <1>4
<1>24. C!FailStart(current.id)
  <2>1. \E w \in (SUBSET (pending[current.id] \cap active)) \ {{}} :
           Failing' = [Failing EXCEPT ![current.id] = w]
    BY ONLY <1>19, <1>23
  <2>2. QED
    BY ONLY Outside, <2>1, <1>2, <1>7, <1>10, <1>19, <1>21, <1>22 DEF C!FailStart, Outside
<1>25. CStep
    BY <1>1, <1>24 DEF CStep, C!Next
<1>26. QED
    BY <1>10, <1>14, <1>25 DEF Advanced

(* The operation starts; a fail job starts with the lane.                *)
LEMMA BodyApplyAdvances ==
    ASSUME There, BodyApply
    PROVE  Advanced
<1>1. /\ Outside /\ state' = state /\ queue # <<>> /\ current.kind = "Body"
      /\ current.phase = "Apply" /\ current.cond # {}
    BY BodyOwnRows DEF BodyApply
<1>2. DOMAIN current = BodyFields /\ BodyPlace(current)
    BY <1>1, BodyIs DEF There
<1>3. PICK kids, phase, base, act :
         /\ kids = <<>>
         /\ phase = (CASE Ins.op = "Post"  -> "Post"
                       [] Ins.op = "Equal" -> "Merge"
                       [] Ins.op = "Fail"  -> "Fail"
                       [] Ins.op = "Or"    -> "Choice")
         /\ base = (IF Ins.op \in {"Post", "Equal"} THEN state.graph ELSE None)
         /\ act = (IF Ins.op = "Fail" THEN active ELSE {})
    OBVIOUS
<1>4. PICK task : /\ task = [current EXCEPT !.phase = phase, !.base = base, !.act = act]
                  /\ Requeue(task, kids)
    BY <1>3 DEF BodyApply, b
<1>5. CASE Ins.op = "Fail"
  <2>1. task = [current EXCEPT !.phase = "Fail", !.base = None, !.act = active]
    BY <1>3, <1>4, <1>5
  <2>2. QED
    BY <1>1, <1>3, <1>4, <2>1, FailStarts
<1>6. CASE Ins.op # "Fail"
  <2>1. /\ task.kind = "Body" /\ task.id = current.id /\ task.scope = current.scope
        /\ task.phase = phase /\ task.cond = current.cond
    BY <1>1, <1>2, <1>4 DEF BodyFields
  <2>2. Ins.op \in {"Post", "Equal", "Or"}
    BY <1>1, <1>2, <1>6 DEF BodyPlace, Ins, b
  <2>3. phase \in {"Post", "Merge", "Choice"}
    BY <1>3, <2>2
  <2>4. QED
    BY <1>1, <1>3, <1>4, <2>1, <2>3, NoKidsWithin, BodyAdvances
<1>7. QED
    BY <1>5, <1>6

(* The activation of a fact works where the fact is.                     *)
LEMMA BodyPostAdvances ==
    ASSUME There, BodyPost
    PROVE  Advanced
<1>1. Outside /\ queue # <<>> /\ current.kind = "Body" /\ current.phase = "Post"
      /\ ~IsFail(current)
    BY TaskService DEF BodyPost, BodyIn, Dispatch, Outside, viewVars, current, b, IsFail
<1>2. /\ DOMAIN current = BodyFields /\ lane = current.id
      /\ current.cond \subseteq current.scope
    BY <1>1, BodyIs, CurrentWorks DEF There, Owning, Working, Within, Inside
<1>3. PICK graph :
         graph = Posted(b.base, Ins.rel, [p \in DOMAIN Ins.args |-> b.env[Ins.args[p]]], b.cond)
    OBVIOUS
<1>4. PICK task, kids : /\ task = Activate(graph, Len(graph.facts), current.cond, FALSE)
                        /\ kids = Spawned(current.cond, task)
    OBVIOUS
<1>5. Finish(kids)
    BY <1>3, <1>4 DEF BodyPost, b
<1>6. /\ task.kind = "Activate" /\ DOMAIN task = ActivateFields /\ task.cond = current.cond
    BY <1>4 DEF Activate, ActivateFields
<1>7. PICK scope : scope = current.cond
    OBVIOUS
<1>8. /\ Shaped(task) /\ ~Owning(task) /\ Inside(task, scope)
      /\ kids = Spawned(scope, task) /\ scope \subseteq current.scope
    BY <1>2, <1>4, <1>6, <1>7 DEF Shaped, Owning, Inside
<1>9. KidsWithin(kids)
    BY <1>8, SpawnWithin
<1>10. QED
    BY <1>1, <1>2, <1>5, <1>9, FinishRows

(* What is woken is woken where something was merged.                      *)
LEMMA WokenWithin ==
    ASSUME NEW g, NEW loser
    PROVE  \A f \in Woken(g, loser) : f.cond \subseteq DOMAIN loser
BY DEF Woken

(* The wake of a merge works where the variables differed.               *)
LEMMA BodyMergeAdvances ==
    ASSUME There, BodyMerge
    PROVE  Advanced
<1>1. Outside /\ queue # <<>> /\ current.kind = "Body" /\ current.phase = "Merge"
      /\ ~IsFail(current)
    BY TaskService DEF BodyMerge, BodyIn, Dispatch, Outside, viewVars, current, b, IsFail
<1>2. /\ DOMAIN current = BodyFields /\ lane = current.id
      /\ current.cond \subseteq current.scope
    BY <1>1, BodyIs, CurrentWorks DEF There, Owning, Working, Within, Inside
<1>3. PICK x, y, changed : /\ x = b.env[Ins.x] /\ y = b.env[Ins.y]
                           /\ changed = Changed(b.base, x, y, b.cond)
    OBVIOUS
<1>4. changed \subseteq current.cond
    BY <1>3 DEF Changed, b
<1>5. PICK loser \in [changed -> {x, y}] :
         Finish(Spawned(changed, Wake(Merged(b.base, x, y, loser), Woken(b.base, loser))))
    BY <1>3 DEF BodyMerge
<1>6. PICK base : base = b.base
    OBVIOUS
<1>7. PICK task, kids, found : /\ found = Woken(base, loser)
                               /\ task = Wake(Merged(base, x, y, loser), found)
                               /\ kids = Spawned(changed, task)
    OBVIOUS
<1>8. Finish(kids)
    BY <1>5, <1>6, <1>7
<1>9. task.kind = "Wake" /\ DOMAIN task = WakeFields /\ task.found = found
    BY <1>7 DEF Wake, WakeFields
<1>10. \A f \in found : f.cond \subseteq changed
  <2>1. DOMAIN loser = changed
    BY <1>5
  <2>2. QED
    BY <1>7, <2>1, WokenWithin
<1>11. Shaped(task) /\ ~Owning(task) /\ Inside(task, changed) /\ changed \subseteq current.scope
    BY <1>2, <1>4, <1>9, <1>10 DEF Shaped, Owning, Inside
<1>12. KidsWithin(kids)
    BY <1>7, <1>11, SpawnWithin
<1>13. QED
    BY <1>1, <1>2, <1>8, <1>12, FinishRows

(* The result of a fail job becomes `active'.                              *)
LEMMA BodyFailAdvances ==
    ASSUME There, BodyFail
    PROVE  Advanced
<1>1. /\ queue # <<>> /\ current.kind = "Body" /\ current.phase = "Fail"
      /\ current.cond # {} /\ Finish(<<>>)
      /\ active' = current.act \ current.cond /\ failed' = failed \cup current.cond
      /\ UNCHANGED <<state, ready, observer, output, published>>
    BY TaskService DEF BodyFail, BodyIn, Dispatch, viewVars, current, b
<1>2. DOMAIN current = BodyFields /\ lane = current.id /\ current.act = active
    BY <1>1, BodyIs DEF There, Owning, Held
<1>3. /\ Here /\ current.id \in TaskId /\ pending[current.id] # {}
    BY <1>1, CurrentWorks
<1>4. PICK kids : kids = <<>> /\ Finish(kids)
    BY <1>1
<1>5. KidsWithin(kids) /\ Elems(kids) = {}
    BY <1>4, NoKidsWithin
<1>6. PICK new : new = Elems(kids)
    OBVIOUS
<1>7. /\ WorkRows' /\ C!Admit(current.id) /\ LaneGoes /\ (queued' => queued)
      /\ \A u \in Ids(queue) \cup Ids(waiting) :
            u \in TaskId /\ u # current.id => pending'[u] = pending[u]
      /\ Dispatched(new) /\ Remains
    BY <1>1, <1>2, <1>4, <1>5, <1>6, FinishWork
<1>8. C!LaneAfter(current.id)
    BY <1>1, <1>7, GrantIs
<1>9. /\ \A u, field : u # current.id => FailOf(queue', u, field) = FailOf(queue, u, field)
      /\ IdsDistinct(queue) /\ IdsDistinct(queue')
    BY <1>1, <1>3, <1>5, <1>6, <1>7, FailsOfOthers
<1>10. \A field : FailOf(queue, current.id, field) = current[field]
  <2>1. current \in Elems(queue) /\ IsFail(current)
    BY <1>1, <1>3, <1>7, FailsAre DEF IsFail
  <2>2. PICK t : t = current
    OBVIOUS
  <2>3. t \in Elems(queue) /\ IsFail(t) /\ t.id = current.id
    BY <2>1, <2>2
  <2>4. \A field : FailOf(queue, current.id, field) = t[field]
    BY <1>9, <2>3, FailOfIs
  <2>5. QED
    BY <2>2, <2>4
<1>11. \A t \in Elems(queue') : ~(IsFail(t) /\ t.id = current.id)
  <2>1. \A t \in Elems(Tail(queue)) : t.id # current.id
    BY <1>1, <1>3, FrontIs DEF Here
  <2>2. \A t : IsFail(t) => (t \in Elems(queue') <=> t \in Elems(Tail(queue)) \cup new)
    BY <1>1, <1>3, <1>7, FailsAre
  <2>3. QED
    BY <1>5, <1>6, <2>1, <2>2
<1>12. \A field : FailOf(queue', current.id, field) = {}
    BY <1>9, <1>11, FailOfIs
<1>13. /\ Failing' = [Failing EXCEPT ![current.id] = {}]
       /\ Captured' = [Captured EXCEPT ![current.id] = {}]
       /\ Failing[current.id] = current.cond /\ Captured[current.id] = active
    BY <1>2, <1>3, <1>9, <1>10, <1>12, FailViews
<1>14. ReadyView' = ReadyView /\ Delivering' = Delivering
    BY <1>1 DEF ReadyView, Delivering
<1>15. C!FailFinish(current.id)
    BY <1>1, <1>2, <1>7, <1>8, <1>13, <1>14 DEF C!FailFinish, C!Remainder
<1>16. CStep
    BY <1>3, <1>15 DEF CStep, C!Next
<1>17. QED
    BY <1>7, <1>16 DEF Advanced

(* A reader goes on, outside the lane or in it.                            *)
LEMMA ReaderAdvances ==
    ASSUME There, queue # <<>>, Outside, state' = state, ~IsFail(current),
           NEW task, NEW kids, KidsWithin(kids), Requeue(task, kids),
           task.kind # "Body", task.id = current.id, task.scope = current.scope,
           Within(task), Staged(task)
    PROVE  Advanced
<1>1. Private(task) /\ ~IsFail(task)
    BY DEF Private, Clipped, IsFail
<1>2. QED
    BY <1>1, RequeueRows

(* What is discovered is discovered in the scope.                          *)
LEMMA DiscoveredWithin ==
    ASSUME NEW g, NEW r, NEW h, NEW o, NEW scope
    PROVE  \A m \in Discovered(g, r, h, o, scope) : m.cond \subseteq scope
<1> SUFFICES ASSUME NEW m \in Discovered(g, r, h, o, scope) PROVE m.cond \subseteq scope
    OBVIOUS
<1>1. CASE DirectAnchor(r)
    BY <1>1 DEF Discovered
<1>2. CASE ~DirectAnchor(r)
  <2>1. m \in Matches(g, r, h, o, scope)
    BY <1>2 DEF Discovered
  <2>2. QED
    BY <2>1 DEF Matches
<1>3. QED
    BY <1>1, <1>2

(* A search finds matches where the fact is.                             *)
LEMMA ActivateTickAdvances ==
    ASSUME There, ActivateTick
    PROVE  Advanced
<1>1. Outside /\ state' = state /\ queue # <<>> /\ current.kind = "Activate"
      /\ ~IsFail(current)
    BY OwnRows DEF ActivateTick, IsFail
<1>2. DOMAIN current = ActivateFields /\ current.cond \subseteq current.scope
    BY <1>1, CurrentIs, CurrentWorks DEF Shaped, There, Working, Within, Inside
<1>3. CASE current.triggers = {}
    BY <1>1, <1>3, DoneAdvances DEF ActivateTick
<1>4. CASE current.triggers # {}
  <2>1. PICK x : x = FirstTrigger(current.triggers)
    OBVIOUS
  <2>2. PICK g, occ, cond, scope :
           g = current.graph /\ occ = current.occ /\ cond = current.cond /\ scope = current.scope
    OBVIOUS
  <2>3. PICK task, found, kid, kids :
           /\ task = [current EXCEPT !.triggers = @ \ {x}]
           /\ found = Discovered(g, x[1], x[2], occ, cond)
           /\ kid = Search(x[1], found)
           /\ kids = Spawned(scope, kid)
    OBVIOUS
  <2>4. Requeue(task, kids)
    BY <1>4, <2>1, <2>2, <2>3 DEF ActivateTick
  <2>5. \A m \in found : m.cond \subseteq cond
    BY <2>3, DiscoveredWithin
  <2>6. /\ kid.kind = "Search" /\ DOMAIN kid = SearchFields /\ kid.found = found
        /\ kid.candidate = None /\ kid.transport = FALSE /\ kid.commit = None
    BY <2>3 DEF Search, SearchFields
  <2>7. Shaped(kid) /\ ~Owning(kid) /\ Inside(kid, scope)
    BY <1>2, <2>2, <2>5, <2>6 DEF Shaped, Owning, Inside
  <2>8. KidsWithin(kids)
    BY <2>2, <2>3, <2>7, SpawnWithin
  <2>9. /\ task.kind = "Activate" /\ task.id = current.id /\ task.scope = current.scope
        /\ task.cond = current.cond
    BY <1>1, <1>2, <2>3 DEF ActivateFields
  <2>10. Within(task) /\ Staged(task)
    BY <1>2, <2>9 DEF Within, Inside, Staged
  <2>11. QED
    BY <1>1, <2>4, <2>8, <2>9, <2>10, ReaderAdvances
<1>5. QED
    BY <1>3, <1>4

(* A woken occurrence is activated where it was woken.                   *)
LEMMA WakeTickAdvances ==
    ASSUME There, WakeTick
    PROVE  Advanced
<1>1. Outside /\ state' = state /\ queue # <<>> /\ current.kind = "Wake" /\ ~IsFail(current)
    BY OwnRows DEF WakeTick, IsFail
<1>2. /\ DOMAIN current = WakeFields
      /\ \A f \in current.found : f.cond \subseteq current.scope
    BY <1>1, CurrentIs, CurrentWorks DEF Shaped, There, Working, Within, Inside
<1>3. CASE current.found = {}
    BY <1>1, <1>3, DoneAdvances DEF WakeTick
<1>4. CASE current.found # {}
  <2>0. PICK f \in current.found :
           LET rest == [current EXCEPT !.found = @ \ {f}]
               rel == current.graph.facts[f.occ].rel
           IN Requeue(rest, IF Triggers(rel, TRUE) = {} THEN <<>>
                            ELSE Spawned(current.scope,
                                         Activate(current.graph, f.occ, f.cond, TRUE)))
    BY <1>4 DEF WakeTick
  <2>1. PICK task, kid, scope, kids :
           /\ task = [current EXCEPT !.found = @ \ {f}]
           /\ kid = Activate(current.graph, f.occ, f.cond, TRUE)
           /\ scope = current.scope
           /\ kids = (IF Triggers(current.graph.facts[f.occ].rel, TRUE) = {} THEN <<>>
                      ELSE Spawned(scope, kid))
    OBVIOUS
  <2>2. Requeue(task, kids)
    BY <2>0, <2>1
  <2>3. kid.kind = "Activate" /\ DOMAIN kid = ActivateFields /\ kid.cond = f.cond
    BY <2>1 DEF Activate, ActivateFields
  <2>4. Shaped(kid) /\ ~Owning(kid) /\ Inside(kid, scope)
    BY <1>2, <2>1, <2>3 DEF Shaped, Owning, Inside
  <2>5. KidsWithin(kids)
    <3>1. CASE kids = <<>>
      BY <3>1 DEF KidsWithin
    <3>2. CASE kids = Spawned(scope, kid)
      BY <2>1, <2>4, <3>2, SpawnWithin
    <3>3. QED
      BY <2>1, <3>1, <3>2
  <2>6. /\ task.kind = "Wake" /\ task.id = current.id /\ task.scope = current.scope
        /\ task.found \subseteq current.found
    BY <1>1, <1>2, <2>1 DEF WakeFields
  <2>7. Within(task) /\ Staged(task)
    BY <1>2, <2>6 DEF Within, Inside, Staged
  <2>8. QED
    BY <1>1, <2>2, <2>5, <2>6, <2>7, ReaderAdvances
<1>5. QED
    BY <1>3, <1>4

(* A search is within its row, and so is what it has found.                *)
LEMMA SearchWithin ==
    ASSUME There, queue # <<>>, current.kind = "Search"
    PROVE  /\ DOMAIN current = SearchFields /\ current.transport \in BOOLEAN
           /\ \A f \in current.found : f.cond \subseteq current.scope
           /\ current.candidate # None => current.candidate.cond \subseteq current.scope
           /\ c # None => c.cond \subseteq current.scope
           /\ Staged(current) /\ ~IsFail(current) /\ Here
BY SearchIs, CurrentWorks DEF There, Working, Within, Inside, Private, IsFail, c

(* A match is taken up.                                                  *)
LEMMA SearchTickAdvances ==
    ASSUME There, SearchTick
    PROVE  Advanced
<1>1. Outside /\ state' = state /\ queue # <<>> /\ current.kind = "Search"
      /\ current.candidate = None /\ current.commit = None
    BY OwnRows DEF SearchTick
<1>2. /\ DOMAIN current = SearchFields /\ ~IsFail(current)
      /\ \A f \in current.found : f.cond \subseteq current.scope
    BY <1>1, SearchWithin
<1>3. CASE current.found = {}
    BY <1>1, <1>2, <1>3, DoneAdvances DEF SearchTick
<1>4. CASE current.found # {}
  <2>0. PICK m \in current.found :
           Requeue([current EXCEPT !.found = @ \ {m}, !.candidate = m], <<>>)
    BY <1>4 DEF SearchTick
  <2>1. PICK task, kids : /\ task = [current EXCEPT !.found = @ \ {m}, !.candidate = m]
                          /\ kids = <<>>
    OBVIOUS
  <2>2. Requeue(task, kids)
    BY <2>0, <2>1
  <2>3. /\ task.kind = "Search" /\ task.id = current.id /\ task.scope = current.scope
        /\ task.found \subseteq current.found /\ task.candidate = m /\ task.commit = None
    BY <1>1, <1>2, <2>1 DEF SearchFields
  <2>4. Within(task) /\ Staged(task)
    BY <1>2, <2>3 DEF Within, Inside, Staged
  <2>5. KidsWithin(kids)
    BY <2>1, NoKidsWithin
  <2>6. QED
    BY <1>1, <1>2, <2>2, <2>3, <2>4, <2>5, ReaderAdvances
<1>5. QED
    BY <1>3, <1>4

(* It asks for the lane.                                                 *)
LEMMA SearchAcquireAdvances ==
    ASSUME There, SearchAcquire
    PROVE  Advanced
<1>1. Outside /\ state' = state /\ queue # <<>> /\ current.kind = "Search"
    BY OwnRows DEF SearchAcquire
<1>2. /\ DOMAIN current = SearchFields /\ ~IsFail(current) /\ Staged(current)
      /\ \A f \in current.found : f.cond \subseteq current.scope
      /\ current.candidate # None => current.candidate.cond \subseteq current.scope
      /\ current.commit # None => current.commit.cond \subseteq current.scope
    BY <1>1, SearchWithin DEF c
<1>3. PICK task : task = [current EXCEPT !.transport = TRUE] /\ AcquireAndRequeue(task)
    BY DEF SearchAcquire
<1>4. /\ task.kind = "Search" /\ task.id = current.id /\ task.scope = current.scope
      /\ task.found = current.found /\ task.candidate = current.candidate
      /\ task.commit = current.commit
    BY <1>1, <1>2, <1>3 DEF SearchFields
<1>5. Within(task) /\ Private(task) /\ ~IsFail(task)
    BY <1>1, <1>2, <1>4 DEF Within, Inside, Private, Clipped, Staged, IsFail
<1>6. QED
    BY <1>1, <1>2, <1>3, <1>4, <1>5, AcquireRows

(* The commit starts with nothing staged.                                *)
LEMMA SearchBeginAdvances ==
    ASSUME There, SearchBegin
    PROVE  Advanced
<1>1. Outside /\ state' = state /\ queue # <<>> /\ current.kind = "Search"
      /\ current.transport
    BY OwnRows DEF SearchBegin
<1>2. /\ DOMAIN current = SearchFields /\ ~IsFail(current)
      /\ \A f \in current.found : f.cond \subseteq current.scope
      /\ current.candidate # None => current.candidate.cond \subseteq current.scope
      /\ current.candidate # None
  <2>1. current.candidate # None
    BY <1>1, SearchIs DEF There, Static
  <2>2. QED
    BY <1>1, <2>1, SearchWithin
<1>3. PICK k : k = [phase |-> "Start", base |-> state, staged |-> state,
                    occs |-> current.candidate.occs, env |-> current.candidate.vars,
                    cond |-> current.candidate.cond, act |-> active, head |-> 1]
    OBVIOUS
<1>4. PICK task, kids : /\ task = [current EXCEPT !.candidate = None, !.transport = FALSE,
                                                  !.commit = k]
                        /\ kids = <<>>
                        /\ Requeue(task, kids)
    BY <1>3 DEF SearchBegin
<1>5. /\ task.kind = "Search" /\ task.id = current.id /\ task.scope = current.scope
      /\ task.found = current.found /\ task.candidate = None /\ task.commit = k
    BY <1>1, <1>2, <1>4 DEF SearchFields
<1>6. k.cond = current.candidate.cond /\ k.staged = state
    BY <1>3
<1>7. Within(task) /\ Staged(task)
    BY <1>2, <1>5, <1>6 DEF Within, Inside, Staged, Facts
<1>8. KidsWithin(kids)
    BY <1>4, NoKidsWithin
<1>9. QED
    BY <1>1, <1>2, <1>4, <1>5, <1>7, <1>8, ReaderAdvances

-----------------------------------------------------------------------------
(* What a commit stages stays within the row of its search.                *)
StagedIn(k, scope) ==
    /\ k.cond \subseteq scope
    /\ k.staged.graph.rep = state.graph.rep
    /\ \A o \in DOMAIN Facts : Facts[o].live \subseteq k.staged.graph.facts[o].live \cup scope

(* A commit in progress.                                                 *)
LEMMA CommitWithin ==
    ASSUME There, queue # <<>>, current.kind = "Search", c # None
    PROVE  /\ StagedIn(c, current.scope) /\ lane = current.id /\ ~IsFail(current)
           /\ Committing(rule, c) /\ Tuple(rule, c.occs) /\ Here
BY SearchWithin, CommitIs DEF Staged, StagedIn, c

(* The commit goes on.                                                     *)
LEMMA CommitAdvances ==
    ASSUME There, queue # <<>>, Outside, state' = state, current.kind = "Search", c # None,
           NEW k, Requeue(Commit(k), <<>>), StagedIn(k, current.scope)
    PROVE  Advanced
<1>1. /\ DOMAIN current = SearchFields /\ ~IsFail(current)
      /\ \A f \in current.found : f.cond \subseteq current.scope
      /\ current.candidate # None => current.candidate.cond \subseteq current.scope
    BY SearchWithin
<1>2. PICK task, kids : task = Commit(k) /\ kids = <<>>
    OBVIOUS
<1>3. /\ task.kind = "Search" /\ task.id = current.id /\ task.scope = current.scope
      /\ task.found = current.found /\ task.candidate = current.candidate
      /\ task.commit = k
    BY <1>1, <1>2 DEF Commit, SearchFields
<1>4. Within(task) /\ Staged(task)
    BY <1>1, <1>3 DEF Within, Inside, Staged, StagedIn
<1>5. Requeue(task, kids) /\ KidsWithin(kids)
    BY <1>2, NoKidsWithin
<1>6. QED
    BY <1>1, <1>3, <1>4, <1>5, ReaderAdvances

(* The commit is over: the search is what it was before.                   *)
LEMMA CommitOverIs ==
    ASSUME There, queue # <<>>, current.kind = "Search", c # None, NEW task,
           task = Commit(None)
    PROVE  /\ task.id = current.id /\ task.scope = current.scope /\ Within(task)
           /\ Shaped(task) /\ ~Owning(task) /\ ~IsFail(current) /\ lane = current.id
<1>1. /\ DOMAIN current = SearchFields /\ ~IsFail(current) /\ Here
      /\ \A f \in current.found : f.cond \subseteq current.scope
      /\ current.candidate # None => current.candidate.cond \subseteq current.scope
    BY SearchWithin
<1>2. lane = current.id /\ current.transport = FALSE
    BY <1>1, CommitIs
<1>3. /\ task.kind = "Search" /\ DOMAIN task = SearchFields /\ task.id = current.id
      /\ task.scope = current.scope /\ task.transport = FALSE
      /\ task.found = current.found /\ task.candidate = current.candidate
      /\ task.commit = None
    BY <1>1, <1>2 DEF Commit, SearchFields
<1>4. QED
    BY <1>1, <1>2, <1>3 DEF Within, Inside, Shaped, Owning

(* The match is dropped.                                                   *)
LEMMA RejectAdvances ==
    ASSUME There, queue # <<>>, Outside, state' = state, current.kind = "Search", c # None,
           CommitReject
    PROVE  Advanced
<1>1. PICK task, kids : task = Commit(None) /\ kids = <<>>
    OBVIOUS
<1>2. RequeueReleasing(task, kids) /\ KidsWithin(kids)
    BY <1>1, NoKidsWithin DEF CommitReject
<1>3. /\ task.id = current.id /\ task.scope = current.scope /\ Within(task)
      /\ Shaped(task) /\ ~Owning(task) /\ ~IsFail(current) /\ lane = current.id
    BY <1>1, CommitOverIs
<1>4. QED
    BY <1>2, <1>3, ReleasingRows

(* A commit without worlds is given up.                                  *)
LEMMA CommitEmptyAdvances ==
    ASSUME There, CommitEmpty
    PROVE  Advanced
<1>1. Outside /\ state' = state /\ queue # <<>> /\ current.kind = "Search" /\ c # None
      /\ CommitReject
    BY OwnRows DEF CommitEmpty
<1>2. QED
    BY <1>1, RejectAdvances

(* It is clipped to `active'.                                            *)
LEMMA CommitStartAdvances ==
    ASSUME There, CommitStart
    PROVE  Advanced
<1>1. Outside /\ state' = state /\ queue # <<>> /\ current.kind = "Search" /\ c # None
    BY CommitOwnRows DEF CommitStart
<1>2. StagedIn(c, current.scope) /\ Committing(rule, c)
    BY <1>1, CommitWithin
<1>3. PICK k : /\ k = [c EXCEPT !.phase = "Head", !.cond = @ \cap c.act]
               /\ Requeue(Commit(k), <<>>)
    BY DEF CommitStart
<1>4. k.cond = c.cond \cap c.act /\ k.staged = c.staged
    BY <1>2, <1>3 DEF Committing, CommitFields
<1>5. StagedIn(k, current.scope)
    BY <1>2, <1>4 DEF StagedIn
<1>6. QED
    BY <1>1, <1>3, <1>5, CommitAdvances

(* A head is checked.                                                    *)
LEMMA CommitHeadAdvances ==
    ASSUME There, CommitHead
    PROVE  Advanced
<1>1. Outside /\ state' = state /\ queue # <<>> /\ current.kind = "Search" /\ c # None
    BY CommitOwnRows DEF CommitHead
<1>2. StagedIn(c, current.scope) /\ Committing(rule, c)
    BY <1>1, CommitWithin
<1>3. CASE CommitReject
    BY <1>1, <1>3, RejectAdvances
<1>4. CASE ~CommitReject
  <2>1. PICK fits : fits = FitsHead(c.base.graph, rule, c.head, c.occs[c.head], c.env)
    OBVIOUS
  <2>2. PICK k : /\ k = [c EXCEPT !.head = @ + 1, !.cond = @ \cap fits]
                 /\ Requeue(Commit(k), <<>>)
    BY <1>4, <2>1 DEF CommitHead
  <2>3. k.cond = c.cond \cap fits /\ k.staged = c.staged
    BY <1>2, <2>2 DEF Committing, CommitFields
  <2>4. StagedIn(k, current.scope)
    BY <1>2, <2>3 DEF StagedIn
  <2>5. QED
    BY <1>1, <2>2, <2>4, CommitAdvances
<1>5. QED
    BY <1>3, <1>4

(* All heads are checked.                                                *)
LEMMA CommitHeadsDoneAdvances ==
    ASSUME There, CommitHeadsDone
    PROVE  Advanced
<1>1. Outside /\ state' = state /\ queue # <<>> /\ current.kind = "Search" /\ c # None
    BY CommitOwnRows DEF CommitHeadsDone
<1>2. StagedIn(c, current.scope) /\ Committing(rule, c)
    BY <1>1, CommitWithin
<1>3. PICK k : k = [c EXCEPT !.phase = "History"] /\ Requeue(Commit(k), <<>>)
    BY DEF CommitHeadsDone
<1>4. k.cond = c.cond /\ k.staged = c.staged
    BY <1>2, <1>3 DEF Committing, CommitFields
<1>5. StagedIn(k, current.scope)
    BY <1>2, <1>4 DEF StagedIn
<1>6. QED
    BY <1>1, <1>3, <1>5, CommitAdvances

(* The history is read.                                                  *)
LEMMA CommitHistoryAdvances ==
    ASSUME There, CommitHistory
    PROVE  Advanced
<1>1. Outside /\ state' = state /\ queue # <<>> /\ current.kind = "Search" /\ c # None
    BY CommitOwnRows DEF CommitHistory
<1>2. StagedIn(c, current.scope) /\ Committing(rule, c)
    BY <1>1, CommitWithin
<1>3. PICK recorded, head : /\ recorded = Recorded(c.base.history, rule, c.occs)
                            /\ head = Rules[rule].kept + 1
    OBVIOUS
<1>4. PICK k : /\ \/ k = [c EXCEPT !.phase = "Record", !.cond = @ \ recorded]
                  \/ k = [c EXCEPT !.phase = "Consume", !.head = head]
               /\ Requeue(Commit(k), <<>>)
    BY <1>3 DEF CommitHistory
<1>5. k.cond \subseteq c.cond /\ k.staged = c.staged
  <2>1. DOMAIN c = CommitFields
    BY <1>2 DEF Committing
  <2>2. CASE k = [c EXCEPT !.phase = "Record", !.cond = @ \ recorded]
    <3>1. k.cond = c.cond \ recorded /\ k.staged = c.staged
      BY ONLY <2>1, <2>2 DEF CommitFields
    <3>2. QED
      BY ONLY <3>1
  <2>3. CASE k = [c EXCEPT !.phase = "Consume", !.head = head]
    <3>1. k.cond = c.cond /\ k.staged = c.staged
      BY ONLY <2>1, <2>3 DEF CommitFields
    <3>2. QED
      BY ONLY <3>1
  <2>4. QED
    BY <1>4, <2>2, <2>3
<1>6. StagedIn(k, current.scope)
    BY <1>2, <1>5 DEF StagedIn
<1>7. QED
    BY <1>1, <1>4, <1>6, CommitAdvances

(* The application is staged in the history.                             *)
LEMMA CommitRecordAdvances ==
    ASSUME There, CommitRecord
    PROVE  Advanced
<1>1. Outside /\ state' = state /\ queue # <<>> /\ current.kind = "Search" /\ c # None
    BY CommitOwnRows DEF CommitRecord
<1>2. StagedIn(c, current.scope) /\ Committing(rule, c)
    BY <1>1, CommitWithin
<1>3. PICK history :
         history = c.base.history \cup {<<rule, c.occs, w>> : w \in c.cond}
    OBVIOUS
<1>4. PICK k : /\ k = [c EXCEPT !.phase = "Fresh", !.staged.history = history]
               /\ Requeue(Commit(k), <<>>)
    BY <1>3 DEF CommitRecord
<1>5. k.cond = c.cond /\ k.staged.graph = c.staged.graph
    BY <1>2, <1>4 DEF Committing, CommitFields
<1>6. StagedIn(k, current.scope)
    BY <1>2, <1>5 DEF StagedIn
<1>7. QED
    BY <1>1, <1>4, <1>6, CommitAdvances

(* The removal of a head is staged, in the worlds of the commit.         *)
LEMMA CommitConsumeAdvances ==
    ASSUME There, CommitConsume
    PROVE  Advanced
<1>1. Outside /\ state' = state /\ queue # <<>> /\ current.kind = "Search" /\ c # None
      /\ c.phase = "Consume"
    BY CommitOwnRows DEF CommitConsume
<1>2. StagedIn(c, current.scope) /\ Committing(rule, c)
    BY <1>1, CommitWithin
<1>3. CASE c.head > Len(c.occs)
  <2>1. PICK k : k = [c EXCEPT !.phase = "Fresh"] /\ Requeue(Commit(k), <<>>)
    BY <1>3 DEF CommitConsume
  <2>2. k.cond = c.cond /\ k.staged = c.staged
    BY <1>2, <2>1 DEF Committing, CommitFields
  <2>3. StagedIn(k, current.scope)
    BY <1>2, <2>2 DEF StagedIn
  <2>4. QED
    BY <1>1, <2>1, <2>3, CommitAdvances
<1>4. CASE ~(c.head > Len(c.occs))
  <2>1. PICK g, o, new : /\ g = c.staged.graph /\ o = c.occs[c.head]
                         /\ new = WithLiveness(g, o, g.facts[o].live \ c.cond)
    OBVIOUS
  <2>2. PICK k : /\ k = [c EXCEPT !.head = @ + 1, !.staged.graph = new]
                 /\ Requeue(Commit(k), <<>>)
    BY <1>4, <2>1 DEF CommitConsume
  <2>3. k.cond = c.cond /\ k.staged.graph = new
    BY <1>2, <2>2 DEF Committing, CommitFields
  <2>4. /\ DOMAIN g = {"facts", "rep"} /\ Shrunk(Facts, g.facts)
    BY <1>2, <2>1 DEF Committing
  <2>5. new.rep = g.rep
    BY <2>1, <2>4 DEF WithLiveness
  <2>6. \A q \in DOMAIN Facts : g.facts[q].live \subseteq new.facts[q].live \cup c.cond
    <3>1. \A q \in DOMAIN g.facts : q # o => new.facts[q] = g.facts[q]
      BY <2>1, <2>4 DEF WithLiveness
    <3>2. o \in DOMAIN g.facts =>
             new.facts[o] = [g.facts[o] EXCEPT !.live = g.facts[o].live \ c.cond]
      BY <2>1, <2>4 DEF WithLiveness
    <3>3. o \in DOMAIN g.facts => new.facts[o].live = g.facts[o].live \ c.cond
      BY <2>4, <3>2 DEF Shrunk
    <3>4. DOMAIN g.facts = DOMAIN Facts
      BY <2>4 DEF Shrunk
    <3>5. QED
      BY <3>1, <3>3, <3>4
  <2>7. StagedIn(k, current.scope)
    BY <1>2, <2>1, <2>3, <2>5, <2>6 DEF StagedIn
  <2>8. QED
    BY <1>1, <2>2, <2>7, CommitAdvances
<1>5. QED
    BY <1>3, <1>4

(* A fresh variable.                                                     *)
LEMMA CommitFreshAdvances ==
    ASSUME There, CommitFresh
    PROVE  Advanced
<1>1. Outside /\ state' = state /\ queue # <<>> /\ current.kind = "Search" /\ c # None
    BY CommitOwnRows DEF CommitFresh
<1>2. StagedIn(c, current.scope) /\ Committing(rule, c)
    BY <1>1, CommitWithin
<1>3. PICK k : k = [c EXCEPT !.env = Append(@, next.var)]
    OBVIOUS
<1>4. k.cond = c.cond /\ k.staged = c.staged
    BY <1>2, <1>3 DEF Committing, CommitFields
<1>5. PICK task : task = Commit(k)
    OBVIOUS
<1>6. queue' = Append(Tail(queue), task) /\ UNCHANGED laneVars /\ pending' = pending
    BY <1>3, <1>5 DEF CommitFresh
<1>7. /\ DOMAIN current = SearchFields /\ ~IsFail(current)
      /\ \A f \in current.found : f.cond \subseteq current.scope
      /\ current.candidate # None => current.candidate.cond \subseteq current.scope
    BY <1>1, SearchWithin
<1>8. /\ task.kind = "Search" /\ task.id = current.id /\ task.scope = current.scope
      /\ task.found = current.found /\ task.candidate = current.candidate
      /\ task.commit = k
    BY <1>1, <1>5, <1>7 DEF Commit, SearchFields
<1>9. Within(task) /\ Private(task) /\ ~IsFail(task)
    BY <1>2, <1>4, <1>7, <1>8
    DEF Within, Inside, Private, Clipped, Staged, StagedIn, IsFail
<1>10. QED
    BY <1>1, <1>6, <1>7, <1>8, <1>9, VariableAdvances

(* The body works where the rule was applied.                            *)
LEMMA CommitAppliedAdvances ==
    ASSUME There, CommitApplied
    PROVE  Advanced
<1>1. Outside /\ queue # <<>> /\ current.kind = "Search" /\ c # None
    BY TaskService DEF CommitApplied, CommitIn, Dispatch, Outside, viewVars, current
<1>2. StagedIn(c, current.scope)
    BY <1>1, CommitWithin
<1>3. PICK task, kids, ins, env, cond :
         /\ task = Commit(None)
         /\ ins = Rules[rule].body /\ env = c.env /\ cond = c.cond
         /\ kids = Spawned(cond, Body(ins, env, cond))
    OBVIOUS
<1>4. RequeueReleasing(task, kids)
    BY <1>3 DEF CommitApplied
<1>5. KidsWithin(kids)
    BY <1>2, <1>3, BodyKidWithin DEF StagedIn
<1>6. /\ task.id = current.id /\ task.scope = current.scope /\ Within(task)
      /\ Shaped(task) /\ ~Owning(task) /\ ~IsFail(current) /\ lane = current.id
    BY <1>1, <1>3, CommitOverIs
<1>7. QED
    BY <1>1, <1>4, <1>5, <1>6, ReleasingRows

-----------------------------------------------------------------------------
(* The steps of the certificate.                                           *)

Completed == WorkRows' /\ ReadyRows' /\ CStep

(* The owners are distinct, as Certificate assumes.                        *)
LEMMA OwnersAreDistinct ==
    /\ Completion \notin TaskId
    /\ Free \notin TaskId
    /\ Completion # Free
BY EngineOwnersDistinct DEF TaskId

(* The tasks are where they were, or were resumed; their rows and jobs are *)
(* as they were.                                                           *)
LEMMA AsideRows ==
    ASSUME There, Structure', state' = state, pending' = pending,
           active' = active \/ lane = Completion,
           \A t \in Elems(queue') : t \in Tasks,
           \A t \in Elems(waiting') : t.id = Completion \/ t \in Elems(waiting),
           \A t \in Tasks : t \in Elems(queue') \cup Elems(waiting')
    PROVE  WorkRows' /\ Failing' = Failing /\ Captured' = Captured
<1>1. Structure /\ LaneInv /\ WorkRows
    BY DEF There, Here, Rows
<1>2. /\ \A t \in Elems(queue) : Task(t) /\ t.id \in TaskId /\ (Owning(t) => lane = t.id)
      /\ \A t \in Elems(waiting) : t.id = Completion \/ (Task(t) /\ ~Owning(t))
      /\ Completion \notin TaskId
    BY <1>1, TaskIds DEF Structure, Task
<1>3. \A t \in Tasks' : t \in Tasks
    BY DEF Tasks
<1>4. ASSUME NEW t \in Tasks PROVE Working(t)'
  <2>1. Working(t) /\ Shaped(t) /\ (Owning(t) => lane = t.id /\ t.id \in TaskId)
    BY <1>1, <1>2 DEF WorkRows, Tasks, Task
  <2>2. Private(t)'
    <3>1. CASE active' = active
      BY <2>1, <3>1, PrivateStays DEF Working
    <3>2. CASE ~Owning(t)
      BY <2>1, <3>2, ApartIs
    <3>3. QED
      BY <1>2, <2>1, <3>1, <3>2
  <2>3. QED
    BY <2>1, <2>2 DEF Working
<1>5. \A s : Ids(s) = {t.id : t \in Elems(s)}
    BY DEF Ids, Elems
<1>6. ASSUME NEW u \in TaskId, pending'[u] # {}
      PROVE  u \in Ids(queue') \cup Ids(waiting')
  <2>1. u \in Ids(queue) \cup Ids(waiting)
    BY <1>1, <1>6 DEF WorkRows
  <2>2. PICK t \in Elems(queue) \cup Elems(waiting) : t.id = u
    BY <1>5, <2>1
  <2>3. t \in Tasks
    BY <1>2, <2>2 DEF Tasks
  <2>4. QED
    BY <1>5, <2>2, <2>3
<1>7. WorkRows'
    BY <1>3, <1>4, <1>6 DEF WorkRows
<1>8. ASSUME NEW t, IsFail(t) PROVE t \in Elems(queue) <=> t \in Elems(queue')
  <2>1. Owning(t)
    BY <1>8, FailOwns
  <2>2. t \in Elems(waiting) => t.id = Completion
    BY <1>2, <2>1
  <2>3. t \in Elems(waiting') => t.id = Completion
    BY <2>2
  <2>4. t \in Elems(queue) => t \in Tasks /\ t.id # Completion
    BY <1>2 DEF Tasks
  <2>5. t \in Tasks => t.id # Completion
    BY <1>2 DEF Tasks
  <2>6. QED
    BY <2>2, <2>3, <2>4, <2>5 DEF Tasks
<1>9. \A u, field : FailOf(queue, u, field) = FailOf(queue', u, field)
    BY <1>1, <1>8, FailsStay DEF Structure
<1>10. QED
    BY <1>7, <1>9, FailViews

(* Nothing moves.                                                          *)
LEMMA StandingRows ==
    ASSUME There, Structure', UNCHANGED <<state, pending, active, queue, waiting>>
    PROVE  WorkRows' /\ Failing' = Failing /\ Captured' = Captured
<1>1. /\ \A t \in Elems(queue') : t \in Tasks
      /\ \A t \in Elems(waiting') : t.id = Completion \/ t \in Elems(waiting)
      /\ \A t \in Tasks : t \in Elems(queue') \cup Elems(waiting')
    BY DEF Tasks
<1>2. QED
    BY <1>1, AsideRows

(* The certificate is at work only while nothing is being delivered.       *)
LEMMA CompletingIs ==
    ASSUME There, Service = "completion"
    PROVE  /\ C!CanComplete /\ observer = None /\ output = None
           /\ Here /\ Structure /\ LaneInv /\ DOMAIN ready = ReadyFields
           /\ ready.rows \in [TaskId -> SUBSET World]
           /\ active \subseteq World /\ pending \in [TaskId -> SUBSET World]
           /\ published \in [World -> Nat]
<1>1. CanComplete
    BY DEF Service
<1>2. ready # NoReady => ready.phase # "None"
    BY DEF There, Rows, ReadyRows
<1>3. C!CanComplete
    BY <1>1, <1>2 DEF CanComplete, C!CanComplete, ReadyView, Delivering
<1>4. C!TypeOK
    BY DEF There, Rows, C!Invariant
<1>5. ready.rows \in [TaskId -> SUBSET World]
    BY <1>4 DEF C!TypeOK, C!Ready, C!Condition, ReadyView
<1>6. QED
    BY <1>1, <1>3, <1>4, <1>5 DEF CanComplete, C!TypeOK, C!Condition, There, Here, Structure

(* The next row, or the difference.                                        *)
LEMMA NextRowSays ==
    ASSUME NEW base, DOMAIN base = ReadyFields, NEW r, r = NextRow(base)
    PROVE  /\ r.rows = base.rows /\ r.blocked = base.blocked /\ r.scope = base.scope
           /\ r.act = base.act
           /\ \/ /\ r.phase = "Difference" /\ r.row = base.row
                 /\ \A t \in TaskId : r.rows[t] = {}
              \/ r.phase = "Scan" /\ r.row \in TaskId /\ r.rows[r.row] # {}
<1> DEFINE rest == {t \in TaskId : base.rows[t] # {}}
<1>1. CASE rest = {}
  <2>1. r = [base EXCEPT !.phase = "Difference"]
    BY <1>1 DEF NextRow
  <2>2. QED
    BY <1>1, <2>1 DEF ReadyFields
<1>2. CASE rest # {}
  <2>1. rest \in SUBSET Nat
    BY DEF TaskId
  <2>2. PICK row : row = CHOOSE t \in rest : \A u \in rest : t <= u
    OBVIOUS
  <2>3. row \in rest
    <3> HIDE DEF rest
    <3>1. \E t \in rest : \A u \in rest : t <= u
      BY <1>2, <2>1, LeastNatural
    <3>2. QED
      BY <2>2, <3>1
  <2>4. r = [base EXCEPT !.phase = "Scan", !.row = row]
    BY <1>2, <2>2 DEF NextRow
  <2>5. QED
    BY <2>3, <2>4 DEF ReadyFields
<1>3. QED
    BY <1>1, <1>2

(* The rows are frozen.                                                    *)
LEMMA CaptureRows ==
    ASSUME There, program' = program, Capture
    PROVE  Completed
<1>1. /\ C!CanComplete /\ Here /\ Structure /\ LaneInv /\ observer = None /\ output = None
      /\ ready.phase = "None"
    BY CompletingIs DEF Capture, CompletionIn
<1>2. Structure'
    BY <1>1, CaptureKeeps DEF Kept
<1>3. /\ UNCHANGED <<active, lane, waiting, queued, observer, output, published, state, queue,
                     pending, failed>>
      /\ ready' = NextRow([NoReady EXCEPT !.rows = pending, !.scope = active])
    BY DEF Capture, laneVars, viewVars, taskVars
<1>4. WorkRows' /\ Failing' = Failing /\ Captured' = Captured
    BY <1>2, <1>3, StandingRows
<1>5. PICK base : base = [NoReady EXCEPT !.rows = pending, !.scope = active]
    OBVIOUS
<1>6. /\ DOMAIN base = ReadyFields /\ base.rows = pending /\ base.scope = active
      /\ base.blocked = {} /\ base.row = 0
    BY <1>5 DEF NoReady, ReadyFields
<1>7. /\ ready'.rows = pending /\ ready'.blocked = {} /\ ready'.scope = active
      /\ \/ /\ ready'.phase = "Difference" /\ ready'.row = 0
            /\ \A t \in TaskId : ready'.rows[t] = {}
         \/ ready'.phase = "Scan" /\ ready'.row \in TaskId /\ ready'.rows[ready'.row] # {}
    BY <1>3, <1>5, <1>6, NextRowSays
<1>8. ~queued
    BY <1>1 DEF There, Rows, ReadyRows
<1>9. ReadyRows'
    BY <1>3, <1>7, <1>8 DEF ReadyRows
<1>10. ReadyView' = [phase |-> "Scan", rows |-> pending, blocked |-> {}, scope |-> active,
                     base |-> {}]
    BY <1>7 DEF ReadyView
<1>11. Delivering' = Delivering /\ ReadyView.phase = "None"
    BY <1>1, <1>3 DEF Delivering, ReadyView
<1>12. C!Capture
    BY <1>1, <1>3, <1>4, <1>10, <1>11 DEF C!Capture
<1>13. QED
    BY <1>4, <1>9, <1>12 DEF Completed, CStep, C!Next, C!CompletionStep

(* A certificate that is dropped is none.                                  *)
LEMMA DroppedIs ==
    ASSUME ready' = NoReady
    PROVE  /\ ReadyView' = C!NoReady
           /\ ~queued' => ReadyRows'
BY DEF ReadyView, C!NoReady, NoReady, ReadyRows

(* Views with the same fields are the same.                                *)
LEMMA SameView ==
    ASSUME NEW x, NEW y,
           x = [f \in {"phase", "rows", "blocked", "scope", "base"} |-> x[f]],
           y = [f \in {"phase", "rows", "blocked", "scope", "base"} |-> y[f]],
           x.phase = y.phase, x.rows = y.rows, x.blocked = y.blocked, x.scope = y.scope,
           x.base = y.base
    PROVE  x = y
<1>1. \A f \in {"phase", "rows", "blocked", "scope", "base"} : x[f] = y[f]
    OBVIOUS
<1>2. QED
    BY ONLY <1>1, x = [f \in {"phase", "rows", "blocked", "scope", "base"} |-> x[f]],
            y = [f \in {"phase", "rows", "blocked", "scope", "base"} |-> y[f]]

(* A row is joined.                                                        *)
LEMMA ScanRows ==
    ASSUME There, program' = program, Scan
    PROVE  Completed
<1>1. /\ C!CanComplete /\ Here /\ Structure /\ LaneInv /\ observer = None /\ output = None
      /\ ready.phase = "Scan" /\ DOMAIN ready = ReadyFields
      /\ ready.rows \in [TaskId -> SUBSET World]
    BY CompletingIs DEF Scan, CompletionIn
<1>2. Structure'
    BY <1>1, ScanKeeps DEF Kept
<1>3. /\ UNCHANGED <<active, lane, waiting, queued, observer, output, published, state, queue,
                     pending, failed>>
    BY DEF Scan, laneVars, viewVars, taskVars
<1>4. WorkRows' /\ Failing' = Failing /\ Captured' = Captured
    BY <1>2, <1>3, StandingRows
<1>5. ReadyRows /\ ~queued
    BY <1>1 DEF There, Rows, ReadyRows
<1>6. Delivering' = Delivering /\ ReadyView.phase = "Scan"
    BY <1>1, <1>3 DEF Delivering, ReadyView
<1>7. CASE ready.row = 0
  <2>1. ready' = NextRow(ready)
    BY <1>7 DEF Scan
  <2>2. /\ ready'.rows = ready.rows /\ ready'.blocked = ready.blocked
        /\ ready'.scope = ready.scope
        /\ \/ /\ ready'.phase = "Difference" /\ ready'.row = 0
              /\ \A t \in TaskId : ready'.rows[t] = {}
           \/ ready'.phase = "Scan" /\ ready'.row \in TaskId /\ ready'.rows[ready'.row] # {}
    BY <1>1, <1>7, <2>1, NextRowSays
  <2>3. ReadyRows'
    BY <1>3, <1>5, <2>2 DEF ReadyRows
  <2>4. ReadyView' = ReadyView
    BY <1>1, <2>2 DEF ReadyView
  <2>5. CStep
    BY <1>3, <1>4, <1>6, <2>4 DEF CStep, C!vars
  <2>6. QED
    BY <1>4, <2>3, <2>5 DEF Completed
<1>8. CASE ready.row # 0
  <2>1. PICK t \in TaskId : t = ready.row /\ ready.rows[t] # {}
    BY <1>5, <1>8 DEF ReadyRows
  <2>2. PICK joined : joined = ready.blocked \cup ready.rows[t]
    OBVIOUS
  <2>3. ready' = IF joined \in {World, ready.scope} THEN NoReady
                 ELSE [ready EXCEPT !.rows[t] = {}, !.row = 0, !.blocked = joined]
    BY <1>8, <2>1, <2>2 DEF Scan, Blocked
  <2>4. ReadyView.rows = ready.rows /\ ReadyView.blocked = ready.blocked
        /\ ReadyView.scope = ready.scope
    BY DEF ReadyView
  <2>5. CASE joined \in {World, ready.scope}
    <3>1. ReadyView' = C!NoReady /\ ReadyRows'
      BY <1>3, <1>5, <2>3, <2>5, DroppedIs
    <3>2. C!ScanRow
      BY <1>1, <1>3, <1>4, <1>6, <2>1, <2>2, <2>4, <2>5, <3>1 DEF C!ScanRow, C!Dropped
    <3>3. QED
      BY <1>4, <3>1, <3>2 DEF Completed, CStep, C!Next, C!CompletionStep
  <2>6. CASE joined \notin {World, ready.scope}
    <3>1. /\ ready'.phase = "Scan" /\ ready'.row = 0 /\ ready'.blocked = joined
          /\ ready'.rows = [ready.rows EXCEPT ![t] = {}] /\ ready'.scope = ready.scope
      BY <1>1, <2>3, <2>6 DEF ReadyFields
    <3>2. ReadyRows'
      BY <1>3, <1>5, <3>1 DEF ReadyRows
    <3>6. PICK x : x = [ReadyView EXCEPT !.rows[t] = {}, !.blocked = joined]
      OBVIOUS
    <3>7. PICK y : y = ReadyView'
      OBVIOUS
    <3>8. /\ x.phase = "Scan" /\ x.rows = [ready.rows EXCEPT ![t] = {}] /\ x.blocked = joined
          /\ x.scope = ready.scope /\ x.base = {}
          /\ x = [f \in {"phase", "rows", "blocked", "scope", "base"} |-> x[f]]
      BY <1>1, <3>6 DEF ReadyView
    <3>9. /\ y.phase = "Scan" /\ y.rows = [ready.rows EXCEPT ![t] = {}] /\ y.blocked = joined
          /\ y.scope = ready.scope /\ y.base = {}
          /\ y = [f \in {"phase", "rows", "blocked", "scope", "base"} |-> y[f]]
      BY <3>1, <3>7 DEF ReadyView
    <3>10. x = y
      BY <3>8, <3>9, SameView
    <3>3. ReadyView' = [ReadyView EXCEPT !.rows[t] = {}, !.blocked = joined]
      BY <3>6, <3>7, <3>10
    <3>4. C!ScanRow
      BY <1>1, <1>3, <1>4, <1>6, <2>1, <2>2, <2>4, <2>6, <3>3 DEF C!ScanRow
    <3>5. QED
      BY <1>4, <3>2, <3>4 DEF Completed, CStep, C!Next, C!CompletionStep
  <2>7. QED
    BY <2>5, <2>6
<1>9. QED
    BY <1>7, <1>8

(* What no row covers.                                                     *)
LEMMA DifferenceRows ==
    ASSUME There, program' = program, Difference
    PROVE  Completed
<1>1. /\ C!CanComplete /\ Here /\ Structure /\ LaneInv /\ observer = None /\ output = None
      /\ ready.phase = "Difference" /\ DOMAIN ready = ReadyFields
    BY CompletingIs DEF Difference, CompletionIn
<1>2. Structure'
    BY <1>1, DifferenceKeeps DEF Kept
<1>3. /\ UNCHANGED <<active, lane, waiting, queued, observer, output, published, state, queue,
                     pending, failed>>
    BY DEF Difference, laneVars, viewVars, taskVars
<1>4. WorkRows' /\ Failing' = Failing /\ Captured' = Captured
    BY <1>2, <1>3, StandingRows
<1>5. ReadyRows /\ ~queued /\ ready.row = 0
    BY <1>1 DEF There, Rows, ReadyRows
<1>6. Delivering' = Delivering
    BY <1>3 DEF Delivering
<1>7. /\ ReadyView.phase = "Scan" /\ ReadyView.scope = ready.scope
      /\ ReadyView.blocked = ready.blocked /\ C!Scanned
    BY <1>1, <1>5 DEF ReadyView, C!Scanned, ReadyRows
<1>8. PICK scope : scope = ready.scope \ ready.blocked
    OBVIOUS
<1>9. CASE scope = {}
  <2>1. ready' = NoReady
    BY <1>8, <1>9 DEF Difference
  <2>2. ReadyView' = C!NoReady /\ ReadyRows'
    BY <1>3, <1>5, <2>1, DroppedIs
  <2>3. C!Difference
    BY <1>1, <1>3, <1>4, <1>6, <1>7, <1>8, <1>9, <2>2 DEF C!Difference, C!Dropped
  <2>4. QED
    BY <1>4, <2>2, <2>3 DEF Completed, CStep, C!Next, C!CompletionStep
<1>10. CASE scope # {}
  <2>1. ready' = [ready EXCEPT !.phase = "Acquire", !.scope = scope]
    BY <1>8, <1>10 DEF Difference
  <2>2. /\ ready'.phase = "Acquire" /\ ready'.scope = scope /\ ready'.row = 0
        /\ ready'.rows = ready.rows /\ ready'.blocked = ready.blocked
    BY <1>1, <1>5, <2>1 DEF ReadyFields
  <2>3. ReadyRows'
    BY <2>2 DEF ReadyRows
  <2>6. PICK x : x = [ReadyView EXCEPT !.phase = "Acquire", !.scope = scope]
    OBVIOUS
  <2>7. PICK y : y = ReadyView'
    OBVIOUS
  <2>9. /\ x.phase = "Acquire" /\ x.rows = ready.rows /\ x.blocked = ready.blocked
        /\ x.scope = scope /\ x.base = {}
        /\ x = [f \in {"phase", "rows", "blocked", "scope", "base"} |-> x[f]]
    BY <1>1, <2>6 DEF ReadyView
  <2>10. /\ y.phase = "Acquire" /\ y.rows = ready.rows /\ y.blocked = ready.blocked
         /\ y.scope = scope /\ y.base = {}
         /\ y = [f \in {"phase", "rows", "blocked", "scope", "base"} |-> y[f]]
    BY <2>2, <2>7 DEF ReadyView
  <2>11. x = y
    BY <2>9, <2>10, SameView
  <2>4. ReadyView' = [ReadyView EXCEPT !.phase = "Acquire", !.scope = scope]
    BY <2>6, <2>7, <2>11
  <2>5. C!Difference
    BY <1>1, <1>3, <1>4, <1>6, <1>7, <1>8, <1>10, <2>4 DEF C!Difference
  <2>8. QED
    BY <1>4, <2>3, <2>5 DEF Completed, CStep, C!Next, C!CompletionStep
<1>11. QED
    BY <1>9, <1>10

(* The certificate asks for the lane.                                      *)
LEMMA ReadyAcquireRows ==
    ASSUME There, program' = program, ReadyAcquire
    PROVE  Completed
<1>1. /\ C!CanComplete /\ Here /\ Structure /\ LaneInv /\ observer = None /\ output = None
      /\ ready.phase = "Acquire" /\ DOMAIN ready = ReadyFields
    BY CompletingIs DEF ReadyAcquire, CompletionIn
<1>2. Structure'
    BY <1>1, ReadyAcquireKeeps DEF Kept
<1>3. UNCHANGED <<active, observer, output, published, state, queue, pending, failed>>
    BY DEF ReadyAcquire, viewVars, taskVars
<1>4. ReadyRows /\ ready.row = 0
    BY <1>1 DEF There, Rows, ReadyRows
<1>5. Delivering' = Delivering /\ ReadyView.phase = "Acquire"
    BY <1>1, <1>3 DEF Delivering, ReadyView
<1>6. CASE MayAcquire(Completion)
  <2>1. /\ lane' = Completion /\ ~queued' /\ waiting' = waiting
        /\ ready' = [ready EXCEPT !.phase = "Transport"]
    BY <1>6 DEF ReadyAcquire
  <2>2. WorkRows' /\ Failing' = Failing /\ Captured' = Captured
    BY <1>2, <1>3, <2>1, StandingRows
  <2>3. /\ ready'.phase = "Transport" /\ ready'.row = 0 /\ ready'.rows = ready.rows
        /\ ready'.blocked = ready.blocked /\ ready'.scope = ready.scope
    BY <1>1, <1>4, <2>1 DEF ReadyFields
  <2>4. ReadyRows'
    BY <2>1, <2>3 DEF ReadyRows
  <2>5. PICK x : x = [ReadyView EXCEPT !.phase = "Filter"]
    OBVIOUS
  <2>6. PICK y : y = ReadyView'
    OBVIOUS
  <2>7. /\ x.phase = "Filter" /\ x.rows = ready.rows /\ x.blocked = ready.blocked
        /\ x.scope = ready.scope /\ x.base = {}
        /\ x = [f \in {"phase", "rows", "blocked", "scope", "base"} |-> x[f]]
    BY <1>1, <2>5 DEF ReadyView
  <2>8. /\ y.phase = "Filter" /\ y.rows = ready.rows /\ y.blocked = ready.blocked
        /\ y.scope = ready.scope /\ y.base = {}
        /\ y = [f \in {"phase", "rows", "blocked", "scope", "base"} |-> y[f]]
    BY <2>3, <2>6 DEF ReadyView
  <2>9. x = y
    BY <2>7, <2>8, SameView
  <2>10. ReadyView' = [ReadyView EXCEPT !.phase = "Filter"]
    BY <2>5, <2>6, <2>9
  <2>11. lane \in {Free, Completion}
    BY <1>6 DEF MayAcquire
  <2>12. C!ReadyAcquire
    BY <1>1, <1>3, <1>5, <2>1, <2>2, <2>10, <2>11 DEF C!ReadyAcquire
  <2>13. QED
    BY <2>2, <2>4, <2>12 DEF Completed, CStep, C!Next, C!CompletionStep
<1>7. CASE ~MayAcquire(Completion)
  <2>1. /\ lane' = lane /\ ready' = ready
        /\ waiting' = IF queued THEN waiting ELSE Append(waiting, [id |-> Completion])
    BY <1>7 DEF ReadyAcquire
  <2>2. Elems(waiting') \subseteq Elems(waiting) \cup {[id |-> Completion]}
        /\ Elems(waiting) \subseteq Elems(waiting')
    <3>1. CASE queued
      BY <2>1, <3>1
    <3>2. CASE ~queued
      <4>1. IsSeq(waiting)
        BY <1>1 DEF Structure
      <4>2. waiting' = waiting \o <<[id |-> Completion]>>
        BY <2>1, <3>2, <4>1, AppendIs
      <4>3. QED
        BY <4>1, <4>2, OneIs, CatIs
    <3>3. QED
      BY <3>1, <3>2
  <2>3. /\ \A t \in Elems(queue') : t \in Tasks
        /\ \A t \in Elems(waiting') : t.id = Completion \/ t \in Elems(waiting)
        /\ \A t \in Tasks : t \in Elems(queue') \cup Elems(waiting')
    <3>1. [id |-> Completion].id = Completion
      OBVIOUS
    <3>2. QED
      BY <1>3, <2>2, <3>1 DEF Tasks
  <2>4. WorkRows' /\ Failing' = Failing /\ Captured' = Captured
    BY <1>2, <1>3, <2>3, AsideRows
  <2>5. ReadyRows'
    BY <1>1, <1>4, <2>1 DEF ReadyRows
  <2>6. ReadyView' = ReadyView
    BY <2>1 DEF ReadyView
  <2>7. CStep
    BY <1>3, <1>5, <2>1, <2>4, <2>6 DEF CStep, C!vars
  <2>8. QED
    BY <2>4, <2>5, <2>7 DEF Completed
<1>8. QED
    BY <1>6, <1>7

(* `active' is captured.                                                   *)
LEMMA ReadyTransportRows ==
    ASSUME There, program' = program, ReadyTransport
    PROVE  Completed
<1>1. /\ Here /\ Structure /\ ready.phase = "Transport" /\ DOMAIN ready = ReadyFields
    BY CompletingIs DEF ReadyTransport, CompletionIn
<1>2. Structure'
    BY <1>1, ReadyTransportKeeps DEF Kept
<1>3. /\ UNCHANGED <<active, lane, waiting, queued, observer, output, published, state, queue,
                     pending, failed>>
      /\ ready' = [ready EXCEPT !.phase = "Filter", !.act = active]
    BY DEF ReadyTransport, laneVars, viewVars, taskVars
<1>4. WorkRows' /\ Failing' = Failing /\ Captured' = Captured
    BY <1>2, <1>3, StandingRows
<1>5. ~queued /\ ready.row = 0
    BY <1>1 DEF There, Rows, ReadyRows
<1>6. /\ ready'.phase = "Filter" /\ ready'.row = 0 /\ ready'.rows = ready.rows
      /\ ready'.blocked = ready.blocked /\ ready'.scope = ready.scope
    BY <1>1, <1>3, <1>5 DEF ReadyFields
<1>7. ReadyRows'
    BY <1>3, <1>5, <1>6 DEF ReadyRows
<1>8. ReadyView' = ReadyView /\ Delivering' = Delivering
    BY <1>1, <1>3, <1>6 DEF ReadyView, Delivering
<1>9. CStep
    BY <1>3, <1>4, <1>8 DEF CStep, C!vars
<1>10. QED
    BY <1>4, <1>7, <1>9 DEF Completed

(* The certificate gives the lane to whoever waits for it.                 *)
LEMMA ReadyReleaseRows ==
    ASSUME There, Structure', lane = Completion, ReleaseLane(queue, <<>>),
           UNCHANGED <<state, pending>>
    PROVE  /\ WorkRows' /\ Failing' = Failing /\ Captured' = Captured
           /\ lane' \in {Free} \cup {u \in TaskId : pending'[u] # {}}
           /\ queued' => queued
<1>1. Structure /\ LaneInv /\ WorkRows
    BY DEF There, Here, Rows
<1>2. IsSeq(queue) /\ IsSeq(waiting) /\ queued \in BOOLEAN /\ IdsDistinct(queue)
    BY <1>1 DEF Structure
<1>3. PICK before : before = queue
    OBVIOUS
<1>4. IsSeq(<<>>) /\ Elems(<<>>) = {} /\ IsSeq(before) /\ ReleaseLane(before, <<>>)
    BY <1>2, <1>3, EmptyIs
<1>5. /\ Elems(before) \cup Elems(<<>>) \subseteq Elems(queue')
      /\ \A t \in Elems(waiting) :
            t.id = Completion \/ t \in Elems(queue') \cup Elems(waiting')
      /\ Elems(waiting') \subseteq Elems(waiting)
      /\ lane' = Free \/ lane' \in Ids(waiting)
      /\ queued' => queued
    BY ONLY <1>2, <1>4, ReleaseRemains
<1>6. \A t \in Elems(queue') : t \in Tasks
  <2>1. PICK kept : kept = Ids(queue)
    OBVIOUS
  <2>2. /\ Ids(<<>>) = {} /\ IdsDistinct(<<>>)
    BY EmptyIs
  <2>3. Ids(queue) \subseteq TaskId /\ Ids(waiting) \cap Ids(queue) = {}
    BY <1>1, LaneSays
  <2>4. /\ Ids(before) \cap Ids(<<>>) = {}
        /\ (Ids(before) \cup Ids(<<>>)) \cap Ids(waiting) = {}
        /\ Ids(before) \cup Ids(<<>>) \subseteq TaskId
        /\ kept \subseteq Ids(before) \cup Ids(<<>>)
        /\ (Ids(before) \cup Ids(<<>>)) \cap Ids(queue) \subseteq kept
        /\ kept \in SUBSET Ids(queue)
        /\ IdsDistinct(before)
    BY <1>2, <1>3, <2>1, <2>2, <2>3
  <2>5. \A t \in Elems(queue') : \/ t \in Elems(before) \cup Elems(<<>>)
                                 \/ t \in Elems(waiting) /\ t.id # Completion
    BY ONLY <1>1, <1>4, <2>2, <2>4, ReleaseIs
  <2>6. QED
    BY <1>3, <1>4, <2>5 DEF Tasks
<1>7. \A t \in Tasks : t \in Elems(queue') \cup Elems(waiting')
    BY <1>3, <1>5 DEF Tasks
<1>8. WorkRows' /\ Failing' = Failing /\ Captured' = Captured
    BY <1>5, <1>6, <1>7, AsideRows
<1>9. ASSUME lane' \in Ids(waiting)
      PROVE  lane' \in TaskId /\ pending'[lane'] # {}
  <2>1. lane' \in TaskId
    BY <1>1, <1>9, LaneSays
  <2>2. PICK t \in Elems(waiting) : t.id = lane'
    BY <1>9 DEF Ids, Elems
  <2>3. t.id # Completion
    BY <1>1, <2>1, <2>2, TaskIds
  <2>4. pending[t.id] # {}
    BY <1>1, <2>2, <2>3 DEF WorkRows, Working, Tasks
  <2>5. QED
    BY <2>1, <2>2, <2>4
<1>10. QED
    BY <1>5, <1>8, <1>9

(* The scope is filtered by `active'.                                      *)
LEMMA ReadyFilterRows ==
    ASSUME There, program' = program, ReadyFilter
    PROVE  Completed
<1>1. /\ C!CanComplete /\ Here /\ Structure /\ LaneInv /\ Knowledge
      /\ observer = None /\ output = None
      /\ ready.phase = "Filter" /\ DOMAIN ready = ReadyFields
    BY CompletingIs DEF ReadyFilter, CompletionIn, Here
<1>2. Structure'
    BY <1>1, ReadyFilterKeeps DEF Kept
<1>3. UNCHANGED <<active, observer, output, published, state, pending, failed>>
    BY DEF ReadyFilter, viewVars
<1>4. ~queued /\ ready.row = 0
    BY <1>1 DEF There, Rows, ReadyRows
<1>5. ready.act = active /\ lane = Completion
    BY <1>1 DEF Knowledge, Structure
<1>6. /\ Delivering' = Delivering /\ ReadyView.phase = "Filter"
      /\ ReadyView.scope = ready.scope
    BY <1>1, <1>3 DEF Delivering, ReadyView
<1>7. PICK scope : scope = ready.scope \cap active
    OBVIOUS
<1>8. CASE scope = {}
  <2>1. ready' = NoReady /\ ReleaseLane(queue, <<>>)
    BY <1>5, <1>7, <1>8 DEF ReadyFilter
  <2>2. /\ WorkRows' /\ Failing' = Failing /\ Captured' = Captured
        /\ lane' \in {Free} \cup {u \in TaskId : pending'[u] # {}}
        /\ queued' => queued
    BY <1>2, <1>3, <1>5, <2>1, ReadyReleaseRows
  <2>3. ReadyView' = C!NoReady /\ ReadyRows'
    BY <1>4, <2>1, <2>2, DroppedIs
  <2>4. lane' \in C!Grantable
    BY <2>2 DEF C!Grantable
  <2>5. C!Filter
    BY <1>1, <1>3, <1>6, <1>7, <1>8, <2>2, <2>3, <2>4 DEF C!Filter, C!Dropped
  <2>6. QED
    BY <2>2, <2>3, <2>5 DEF Completed, CStep, C!Next, C!CompletionStep
<1>9. CASE scope # {}
  <2>1. /\ ready' = [ready EXCEPT !.phase = "Publish", !.scope = scope, !.act = active]
        /\ UNCHANGED <<lane, waiting, queued, queue>>
    BY <1>5, <1>7, <1>9 DEF ReadyFilter, laneVars
  <2>2. WorkRows' /\ Failing' = Failing /\ Captured' = Captured
    BY <1>2, <1>3, <2>1, StandingRows
  <2>3. /\ ready'.phase = "Publish" /\ ready'.row = 0 /\ ready'.rows = ready.rows
        /\ ready'.blocked = ready.blocked /\ ready'.scope = scope /\ ready'.act = active
    BY <1>1, <1>4, <2>1 DEF ReadyFields
  <2>4. ReadyRows'
    BY <1>4, <2>1, <2>3 DEF ReadyRows
  <2>5. PICK x : x = [ReadyView EXCEPT !.phase = "Publish", !.scope = scope, !.base = active]
    OBVIOUS
  <2>6. PICK y : y = ReadyView'
    OBVIOUS
  <2>7. /\ x.phase = "Publish" /\ x.rows = ready.rows /\ x.blocked = ready.blocked
        /\ x.scope = scope /\ x.base = active
        /\ x = [f \in {"phase", "rows", "blocked", "scope", "base"} |-> x[f]]
    BY <1>1, <2>5 DEF ReadyView
  <2>8. /\ y.phase = "Publish" /\ y.rows = ready.rows /\ y.blocked = ready.blocked
        /\ y.scope = scope /\ y.base = active
        /\ y = [f \in {"phase", "rows", "blocked", "scope", "base"} |-> y[f]]
    BY <2>3, <2>6 DEF ReadyView
  <2>9. x = y
    BY <2>7, <2>8, SameView
  <2>10. ReadyView' = [ReadyView EXCEPT !.phase = "Publish", !.scope = scope, !.base = active]
    BY <2>5, <2>6, <2>9
  <2>11. C!Filter
    BY <1>1, <1>3, <1>6, <1>7, <1>9, <2>1, <2>2, <2>10 DEF C!Filter
  <2>12. QED
    BY <2>2, <2>4, <2>11 DEF Completed, CStep, C!Next, C!CompletionStep
<1>10. QED
    BY <1>8, <1>9

(* The completion.                                                         *)
LEMMA PublishRows ==
    ASSUME There, program' = program, Publish
    PROVE  Completed
<1>1. /\ C!CanComplete /\ Here /\ Structure /\ LaneInv /\ Knowledge
      /\ observer = None /\ output = None
      /\ ready.phase = "Publish" /\ DOMAIN ready = ReadyFields
      /\ published \in [World -> Nat]
    BY CompletingIs DEF Publish, CompletionIn, Here
<1>2. Structure'
    BY <1>1, PublishKeeps DEF Kept
<1>3. /\ UNCHANGED <<output, state, pending, failed>>
      /\ active' = ready.act \ ready.scope /\ observer' = Answers(ready.scope)
      /\ published' = [w \in World |-> published[w] + (IF w \in ready.scope THEN 1 ELSE 0)]
      /\ ready' = NoReady /\ ReleaseLane(queue, <<>>)
    BY DEF Publish
<1>4. ~queued /\ births \in 0 .. MaxChoice
    BY <1>1 DEF There, Rows, ReadyRows, AnswerRows
<1>5. lane = Completion
    BY <1>1 DEF Structure
<1>6. /\ WorkRows' /\ Failing' = Failing /\ Captured' = Captured
      /\ lane' \in {Free} \cup {u \in TaskId : pending'[u] # {}}
      /\ queued' => queued
    BY <1>2, <1>3, <1>5, ReadyReleaseRows
<1>7. ReadyView' = C!NoReady /\ ReadyRows'
    BY <1>3, <1>4, <1>6, DroppedIs
<1>8. ReadyView.phase = "Publish" /\ ReadyView.scope = ready.scope /\ ReadyView.base = ready.act
    BY <1>1 DEF ReadyView
<1>9. ready.scope \subseteq World
    BY <1>8 DEF There, Rows, C!Invariant, C!TypeOK, C!Ready, C!Condition
<1>10. Answers(ready.scope) \in SUBSET AllAnswers
    BY <1>4, <1>9 DEF Answers, AllAnswers
<1>11. Delivering' = TRUE
    BY <1>3, <1>10, NoneIsNoAnswer DEF Delivering
<1>12. lane' \in C!Grantable
    BY <1>6 DEF C!Grantable
<1>13. published' = [w \in World |-> IF w \in ReadyView.scope THEN published[w] + 1
                                     ELSE published[w]]
    BY <1>1, <1>3, <1>8
<1>14. active' = C!Unpublished
    BY <1>3, <1>8 DEF C!Unpublished
<1>15. C!Publish
    BY <1>1, <1>3, <1>6, <1>7, <1>8, <1>11, <1>12, <1>13, <1>14 DEF C!Publish
<1>16. QED
    BY <1>6, <1>7, <1>15 DEF Completed, CStep, C!Next, C!CompletionStep

(* What the certificate and the tasks do not see.                          *)
LEMMA ApartRows ==
    ASSUME There, Structure',
           UNCHANGED <<state, pending, active, queue, lane, waiting, queued, ready, failed,
                       published>>
    PROVE  /\ WorkRows' /\ ReadyRows'
           /\ Delivering' = Delivering \/ (Delivering /\ ~Delivering') => CStep
<1>1. WorkRows' /\ Failing' = Failing /\ Captured' = Captured
    BY StandingRows
<1>2. ReadyRows'
    BY DEF There, Rows, ReadyRows
<1>3. ReadyView' = ReadyView
    BY DEF ReadyView
<1>4. ASSUME Delivering' = Delivering PROVE CStep
    BY <1>1, <1>3, <1>4 DEF CStep, C!vars
<1>5. ASSUME Delivering, ~Delivering' PROVE CStep
  <2>1. Delivering' = FALSE
    BY <1>5 DEF Delivering
  <2>2. C!Delivered
    BY <1>1, <1>3, <1>5, <2>1 DEF C!Delivered
  <2>3. QED
    BY <2>2 DEF CStep, C!Next
<1>6. QED
    BY <1>1, <1>2, <1>4, <1>5

(* The client and the observer.                                            *)
LEMMA DeliveryRows ==
    ASSUME There, Structure', Observation \/ Idle \/ TakeOutput \/ CompletionPending
                               \/ UNCHANGED vars
    PROVE  Completed
<1>1. UNCHANGED <<state, pending, active, queue, lane, waiting, queued, ready, failed, published>>
    BY DEF Observation, Idle, TakeOutput, CompletionPending, vars, taskVars, laneVars, viewVars
<1>2. Delivering' = Delivering \/ (Delivering /\ ~Delivering')
  <2>1. CASE Idle \/ CompletionPending \/ UNCHANGED vars
    <3>1. UNCHANGED <<observer, output>>
      BY <2>1 DEF Idle, CompletionPending, vars, viewVars
    <3>2. QED
      BY <3>1 DEF Delivering
  <2>2. CASE TakeOutput
    BY <2>2 DEF TakeOutput, Delivering
  <2>3. CASE Observation
    <3>1. CanObserve
      BY <2>3 DEF Observation, Service
    <3>2. observer # None /\ output = None /\ observer \in SUBSET AllAnswers
      BY <3>1 DEF CanObserve, There, Rows, AnswerRows
    <3>3. CASE observer = {}
      BY <2>3, <3>2, <3>3 DEF Observation, Delivering
    <3>4. CASE observer # {}
      <4>1. PICK answer \in observer : output' = answer
        BY <2>3, <3>4 DEF Observation
      <4>2. output' # None
        BY <3>2, <4>1, NoneIsNoAnswer
      <4>3. QED
        BY <3>2, <4>2 DEF Delivering
    <3>5. QED
      BY <3>3, <3>4
  <2>4. QED
    BY <2>1, <2>2, <2>3
<1>3. WorkRows' /\ ReadyRows' /\ CStep
    BY <1>1, <1>2, ApartRows
<1>4. QED
    BY <1>3 DEF Completed

(* What a task leaves to the observer, and to the certificate.             *)
Unseen ==
    /\ UNCHANGED <<ready, observer, output, published, answers>>
    /\ births' = births \/ (births < MaxChoice /\ births' = births + 1)

(* A dispatch of a task is no business of the observer.                  *)
LEMMA TasksUnseen ==
    ASSUME InitTick \/ BodyTick \/ ReaderTick \/ CommitTick \/ TaskPending
    PROVE  Unseen
<1>1. CASE InitTick
    BY <1>1 DEF InitTick, Own, others, Unseen
<1>2. CASE BodyTick
  <2>1. CASE BodyPost \/ BodyMerge \/ BodyFail \/ BodyChoice
    BY <2>1 DEF BodyPost, BodyMerge, BodyFail, BodyChoice, viewVars, Unseen
  <2>2. CASE ~(BodyPost \/ BodyMerge \/ BodyFail \/ BodyChoice)
    BY <1>2, <2>2
       DEF BodyTick, BodyEmpty, BodyDispatch, BodyArguments, BodyExpand, BodyAcquire,
           BodyFilter, BodyApply, BodyLeft, BodyRight, BodyOwn, Own, others, Unseen
  <2>3. QED
    BY <2>1, <2>2
<1>3. CASE ReaderTick
    BY <1>3 DEF ReaderTick, ActivateTick, WakeTick, SearchTick, SearchAcquire, SearchBegin,
                Own, others, Unseen
<1>4. CASE CommitTick
  <2>1. CASE CommitApplied
    BY <2>1 DEF CommitApplied, viewVars, Unseen
  <2>2. CASE ~CommitApplied
    BY <1>4, <2>2
       DEF CommitTick, CommitEmpty, CommitStart, CommitHead, CommitHeadsDone, CommitHistory,
           CommitRecord, CommitConsume, CommitFresh, CommitOwn, Own, others, Unseen
  <2>3. QED
    BY <2>1, <2>2
<1>5. CASE TaskPending
    BY <1>5 DEF TaskPending, viewVars, Unseen
<1>6. QED
    BY <1>1, <1>2, <1>3, <1>4, <1>5

(* Every dispatch of a task is a step of Certificate.                      *)
LEMMA TasksAdvance ==
    ASSUME There, InitTick \/ BodyTick \/ ReaderTick \/ CommitTick \/ TaskPending
    PROVE  Advanced
<1>1. CASE InitTick \/ TaskPending
    BY <1>1, InitTickAdvances, PendingAdvances
<1>2. CASE BodyTick
    BY <1>2, BodyEmptyAdvances, BodyDispatchAdvances, BodyArgumentsAdvances,
       BodyExpandAdvances, BodyAcquireAdvances, BodyFilterAdvances, BodyApplyAdvances,
       BodyPostAdvances, BodyMergeAdvances, BodyFailAdvances, BodyChoiceAdvances,
       BodyLeftAdvances, BodyRightAdvances DEF BodyTick
<1>3. CASE ReaderTick
    BY <1>3, ActivateTickAdvances, WakeTickAdvances, SearchTickAdvances,
       SearchAcquireAdvances, SearchBeginAdvances DEF ReaderTick
<1>4. CASE CommitTick
    BY <1>4, CommitEmptyAdvances, CommitStartAdvances, CommitHeadAdvances,
       CommitHeadsDoneAdvances, CommitHistoryAdvances, CommitRecordAdvances,
       CommitConsumeAdvances, CommitFreshAdvances, CommitAppliedAdvances DEF CommitTick
<1>5. QED
    BY <1>1, <1>2, <1>3, <1>4

(* A task's answers are those of before.                                   *)
LEMMA UnseenAnswers ==
    ASSUME AnswerRows, Unseen
    PROVE  AnswerRows'
<1>1. births' \in 0 .. MaxChoice
    BY EngineBounds DEF AnswerRows, Unseen
<1>2. QED
    BY <1>1 DEF AnswerRows, Unseen

(* Answers are published once and for all.                                 *)
LEMMA PublishAnswers ==
    ASSUME There, Publish
    PROVE  AnswerRows'
<1>1. Here /\ ready.phase = "Publish" /\ published \in [World -> Nat]
    BY CompletingIs DEF Publish, CompletionIn
<1>2. /\ observer' = Answers(ready.scope) /\ births' = births
      /\ published' = [w \in World |-> published[w] + (IF w \in ready.scope THEN 1 ELSE 0)]
      /\ answers' = Append(answers, [scope |-> ready.scope, state |-> state])
    BY DEF Publish
<1>3. AnswerRows
    BY DEF There, Rows
<1>4. ready.scope \subseteq World
    BY DEF ReadyView, There, Rows, C!Invariant, C!TypeOK, C!Ready, C!Condition
<1>5. observer' \in SUBSET AllAnswers
    BY <1>2, <1>3, <1>4 DEF Answers, AllAnswers, AnswerRows
<1>6. \A w \in World : published[w] > 0 \/ w \in ready.scope => published'[w] > 0
    BY <1>1, <1>2
<1>7. ASSUME NEW i \in DOMAIN answers', NEW w \in answers'[i].scope
      PROVE  w \in World /\ published'[w] > 0
  <2>1. answers \in Seq(Elems(answers))
    BY <1>3 DEF AnswerRows, IsSeq
  <2>2. CASE i \in DOMAIN answers
    <3>1. answers'[i] = answers[i]
      BY <1>2, <2>1, <2>2
    <3>2. QED
      BY <1>3, <1>6, <1>7, <2>2, <3>1 DEF AnswerRows
  <2>3. CASE i \notin DOMAIN answers
    <3>1. answers'[i] = [scope |-> ready.scope, state |-> state]
      BY <1>2, <1>7, <2>1, <2>3
    <3>2. QED
      BY <1>4, <1>6, <1>7, <3>1
  <2>4. QED
    BY <2>2, <2>3
<1>8. IsSeq(answers')
  <2>1. PICK last : last = [scope |-> ready.scope, state |-> state]
    OBVIOUS
  <2>2. IsSeq(answers) /\ IsSeq(<<last>>)
    BY <1>3, OneIs DEF AnswerRows
  <2>3. answers' = answers \o <<last>>
    BY <1>2, <2>1, <2>2, AppendIs
  <2>4. QED
    BY <2>2, <2>3, CatIs
<1>9. QED
    BY <1>2, <1>3, <1>5, <1>7, <1>8 DEF AnswerRows

(* The certificate's other steps and the observer.                         *)
LEMMA OtherAnswers ==
    ASSUME AnswerRows,
           \/ Capture \/ Scan \/ Difference \/ ReadyAcquire \/ ReadyTransport \/ ReadyFilter
           \/ CompletionPending \/ Observation \/ Idle \/ TakeOutput \/ UNCHANGED vars
    PROVE  AnswerRows'
<1>1. births' = births /\ published' = published /\ answers' = answers
    BY DEF Capture, Scan, Difference, ReadyAcquire, ReadyTransport, ReadyFilter,
           CompletionPending, Observation, Idle, TakeOutput, vars, viewVars, taskVars
<1>2. observer' = None \/ observer' \in SUBSET AllAnswers
  <2>1. CASE Observation
    <3>1. observer # None
      BY <2>1 DEF Observation, Service, CanObserve
    <3>2. observer \in SUBSET AllAnswers
      BY <3>1 DEF AnswerRows
    <3>3. QED
      BY <2>1, <3>2 DEF Observation
  <2>2. CASE ~Observation
    <3>1. observer' = observer
      BY <2>2 DEF Capture, Scan, Difference, ReadyAcquire, ReadyTransport, ReadyFilter,
             CompletionPending, Idle, TakeOutput, vars, viewVars
    <3>2. QED
      BY <3>1 DEF AnswerRows
  <2>3. QED
    BY <2>1, <2>2
<1>3. QED
    BY <1>1, <1>2 DEF AnswerRows

(* Every step of the engine is a step of Certificate.                      *)
LEMMA RowsKeep ==
    ASSUME There, [Next]_vars
    PROVE  Rows' /\ CStep
<1>1. Here /\ Rows /\ AnswerRows /\ ReadyRows /\ C!Invariant
    BY DEF There, Rows
<1>2. Structure' /\ program' = program
    BY <1>1, NextKeeps DEF Kept
<1>3. WorkRows' /\ ReadyRows' /\ AnswerRows' /\ CStep
  <2>1. CASE InitTick \/ BodyTick \/ ReaderTick \/ CommitTick \/ TaskPending
    <3>1. Advanced
      BY <2>1, TasksAdvance
    <3>2. Unseen
      BY <2>1, TasksUnseen
    <3>3. ReadyRows'
      BY <1>1, <3>1, <3>2 DEF ReadyRows, Advanced, Unseen
    <3>4. AnswerRows'
      BY <1>1, <3>2, UnseenAnswers
    <3>5. QED
      BY <3>1, <3>3, <3>4 DEF Advanced
  <2>2. CASE \/ Capture \/ Scan \/ Difference \/ ReadyAcquire \/ ReadyTransport \/ ReadyFilter
    <3>1. Completed
      BY <1>2, <2>2, CaptureRows, ScanRows, DifferenceRows, ReadyAcquireRows,
         ReadyTransportRows, ReadyFilterRows
    <3>2. AnswerRows'
      BY <1>1, <2>2, OtherAnswers
    <3>3. QED
      BY <3>1, <3>2 DEF Completed
  <2>3. CASE Publish
    BY <1>2, <2>3, PublishRows, PublishAnswers DEF Completed
  <2>4. CASE Observation \/ Idle \/ TakeOutput \/ CompletionPending \/ UNCHANGED vars
    <3>1. Completed
      BY <1>2, <2>4, DeliveryRows
    <3>2. AnswerRows'
      BY <1>1, <2>4, OtherAnswers
    <3>3. QED
      BY <3>1, <3>2 DEF Completed
  <2>5. QED
    BY <2>1, <2>2, <2>3, <2>4 DEF Next, Advance, CompletionTick
<1>4. C!Invariant'
    BY <1>1, <1>3, OwnersAreDistinct, C!NextInvariant DEF CStep
<1>5. QED
    BY <1>3, <1>4 DEF Rows

(* The query's task works in all worlds, in the root's only row.           *)
LEMMA RowsStart ==
    ASSUME Init
    PROVE  Rows /\ C!Init
<1>1. PICK t : t = InitTask
    OBVIOUS
<1>2. /\ t.kind = "Init" /\ t.id = 1 /\ t.scope = World
    BY <1>1 DEF InitTask
<1>3. /\ queue = <<t>> /\ waiting = <<>> /\ lane = Free /\ queued = FALSE /\ active = World
      /\ pending = [u \in TaskId |-> IF u = 1 THEN World ELSE {}]
      /\ ready = NoReady /\ observer = None /\ output = None /\ births = 0
      /\ failed = {} /\ published = [w \in World |-> 0] /\ answers = <<>>
      /\ program \in Programs
    BY <1>1 DEF Init
<1>4. /\ Elems(queue) = {t} /\ Ids(queue) = {1}
      /\ Elems(waiting) = {} /\ IsSeq(answers)
    BY <1>2, <1>3, OneIs, EmptyIs
<1>5. 1 \in TaskId
  <2>1. program.tasks \in 1 .. MaxTask /\ MaxTask \in Nat
    BY <1>3, EngineBounds
  <2>2. QED
    BY <2>1 DEF TaskId
<1>6. Tasks = {t}
    BY <1>2, <1>4 DEF Tasks
<1>7. ~IsFail(t) /\ Within(t) /\ Private(t)
    BY <1>2 DEF IsFail, Within, Inside, Private, Clipped, Staged
<1>8. World # {}
    BY SomeWorld
<1>9. Working(t)
    BY <1>2, <1>3, <1>5, <1>7, <1>8 DEF Working
<1>10. WorkRows
    BY <1>3, <1>4, <1>6, <1>9 DEF WorkRows
<1>11. ReadyRows
    BY <1>3 DEF ReadyRows, NoReady
<1>12. AnswerRows
    BY <1>3, <1>4, EngineBounds DEF AnswerRows
<1>13. ReadyView = C!NoReady
    BY <1>3 DEF ReadyView, NoReady, C!NoReady
<1>14. Failing = [u \in TaskId |-> {}] /\ Captured = [u \in TaskId |-> {}]
    BY <1>2, <1>3 DEF Failing, Captured, FailJob
<1>15. Delivering = FALSE
    BY <1>3 DEF Delivering
<1>16. C!Init
    BY <1>3, <1>5, <1>13, <1>14, <1>15 DEF C!Init
<1>17. C!Invariant
    BY <1>16, OwnersAreDistinct, C!InitInvariant
<1>18. QED
    BY <1>10, <1>11, <1>12, <1>16, <1>17 DEF Rows

-----------------------------------------------------------------------------
(* Answers.                                                                *)

(* Two graphs say the same of a world.                                     *)
LiveIn(g, w) == {o \in Occurrence(g) : w \in g.facts[o].live}
SameWorld(g, h, w) == g.rep[w] = h.rep[w] /\ LiveIn(g, w) = LiveIn(h, w)

(* The state changes in no world outside the dispatched task's row.        *)
Locally ==
    \/ state' = state
    \/ /\ current.id \in TaskId
       /\ \A w \in World : w \notin pending[current.id] => SameWorld(state.graph, state'.graph, w)

(* A post.                                                                 *)
LEMMA PostLocally ==
    ASSUME There, program' = program, BodyPost
    PROVE  Locally
<1>1. queue # <<>> /\ current.kind = "Body" /\ current.phase = "Post"
    BY TaskService DEF BodyPost, BodyIn, Dispatch, current, b
<1>2. /\ current.base = state.graph /\ current.id \in TaskId /\ Graphs
      /\ current.cond \subseteq pending[current.id]
    BY <1>1, BodyIs, CurrentWorks
       DEF There, Here, Knowledge, Owning, Held, Working, Within, Inside
<1>3. PICK x, graph : /\ x.live = current.cond
                      /\ graph = [state.graph EXCEPT !.facts = Append(@, x)]
                      /\ state' = [state EXCEPT !.graph = graph]
  <2>1. PICK x : x = [rel |-> Ins.rel, args |-> [p \in DOMAIN Ins.args |-> b.env[Ins.args[p]]],
                      live |-> b.cond]
    OBVIOUS
  <2>2. x.live = current.cond
    BY <2>1 DEF b
  <2>3. PICK graph : graph = [state.graph EXCEPT !.facts = Append(@, x)]
    OBVIOUS
  <2>4. Posted(b.base, Ins.rel, [p \in DOMAIN Ins.args |-> b.env[Ins.args[p]]], b.cond) = graph
    BY <1>2, <2>1, <2>3 DEF Posted, b
  <2>5. state' = [state EXCEPT !.graph = graph]
    BY <2>4 DEF BodyPost
  <2>6. QED
    BY <2>2, <2>3, <2>5
<1>4. /\ state'.graph = graph /\ graph.rep = state.graph.rep
      /\ graph.facts = Append(Facts, x)
    BY <1>2, <1>3 DEF Graphs, Facts
<1>5. /\ DOMAIN Facts = 1 .. Len(Facts) /\ Len(Facts) \in Nat
      /\ DOMAIN graph.facts = 1 .. Len(Facts) + 1
      /\ graph.facts[Len(Facts) + 1] = x
      /\ \A o \in DOMAIN Facts : graph.facts[o] = Facts[o]
  <2>1. Facts \in Seq(Elems(Facts) \cup {x})
    BY <1>2 DEF Graphs
  <2>2. QED
    BY <1>4, <2>1
<1>6. ASSUME NEW w \in World, w \notin pending[current.id]
      PROVE  SameWorld(state.graph, graph, w)
  <2>1. w \notin x.live
    BY <1>2, <1>3, <1>6
  <2>2. \A o : o \in DOMAIN graph.facts <=> o \in DOMAIN Facts \/ o = Len(Facts) + 1
    BY <1>5
  <2>3. \A o : o \in LiveIn(graph, w) <=> o \in LiveIn(state.graph, w)
    BY <1>5, <2>1, <2>2 DEF LiveIn, Occurrence, Facts
  <2>4. LiveIn(graph, w) = LiveIn(state.graph, w)
    BY <2>3
  <2>5. QED
    BY <1>4, <2>4 DEF SameWorld
<1>7. QED
    BY <1>2, <1>4, <1>6 DEF Locally

(* A merge.                                                                *)
LEMMA MergeLocally ==
    ASSUME There, program' = program, BodyMerge
    PROVE  Locally
<1>1. queue # <<>> /\ current.kind = "Body" /\ current.phase = "Merge"
    BY TaskService DEF BodyMerge, BodyIn, Dispatch, current, b
<1>2. /\ current.base = state.graph /\ current.id \in TaskId /\ Graphs
      /\ current.cond \subseteq pending[current.id]
    BY <1>1, BodyIs, CurrentWorks
       DEF There, Here, Knowledge, Owning, Held, Working, Within, Inside
<1>3. PICK x, y, changed : /\ x = b.env[Ins.x] /\ y = b.env[Ins.y]
                           /\ changed = Changed(b.base, x, y, b.cond)
    OBVIOUS
<1>4. changed \subseteq current.cond
    BY <1>3 DEF Changed, b
<1>5. PICK loser \in [changed -> {x, y}] :
         state' = [state EXCEPT !.graph = Merged(b.base, x, y, loser)]
    BY <1>3 DEF BodyMerge
<1>6. PICK g, graph : g = state.graph /\ graph = Merged(g, x, y, loser)
    OBVIOUS
<1>7. state'.graph = graph /\ DOMAIN g = {"facts", "rep"}
    BY <1>2, <1>5, <1>6 DEF Graphs, b
<1>8. graph.facts = g.facts
    BY <1>6, <1>7 DEF Merged
<1>9. ASSUME NEW w \in World, w \notin DOMAIN loser
      PROVE  graph.rep[w] = g.rep[w]
    BY <1>6, <1>7, <1>9 DEF Merged
<1>10. ASSUME NEW w \in World, w \notin pending[current.id]
       PROVE  SameWorld(state.graph, graph, w)
  <2>1. w \notin DOMAIN loser
    BY <1>2, <1>4, <1>5, <1>10
  <2>2. QED
    BY <1>6, <1>8, <1>9, <2>1 DEF SameWorld, LiveIn, Occurrence
<1>11. QED
    BY <1>2, <1>7, <1>10 DEF Locally

(* An application.                                                         *)
LEMMA ApplyLocally ==
    ASSUME There, program' = program, CommitApplied
    PROVE  Locally
<1>1. /\ queue # <<>> /\ current.kind = "Search" /\ c # None /\ state' = c.staged
      /\ Committing(rule, c)
    BY CommitReadyIs DEF There
<1>2. /\ StagedIn(c, current.scope) /\ current.id \in TaskId
      /\ current.scope = pending[current.id]
    BY <1>1, CommitWithin, CurrentWorks
<1>3. /\ state'.graph = c.staged.graph /\ state'.graph.rep = state.graph.rep
      /\ Shrunk(Facts, state'.graph.facts)
      /\ \A o \in DOMAIN Facts :
            Facts[o].live \subseteq state'.graph.facts[o].live \cup pending[current.id]
    BY <1>1, <1>2 DEF Committing, StagedIn
<1>4. ASSUME NEW w \in World, w \notin pending[current.id]
      PROVE  SameWorld(state.graph, state'.graph, w)
  <2>1. \A o : o \in LiveIn(state'.graph, w) <=> o \in LiveIn(state.graph, w)
    BY <1>3, <1>4 DEF LiveIn, Occurrence, Facts, Shrunk
  <2>2. LiveIn(state'.graph, w) = LiveIn(state.graph, w)
    BY <2>1
  <2>3. QED
    BY <1>3, <2>2 DEF SameWorld
<1>5. QED
    BY <1>2, <1>4 DEF Locally

(* Every step.                                                             *)
LEMMA NextLocally ==
    ASSUME There, program' = program, [Next]_vars
    PROVE  Locally
<1>1. CASE BodyPost \/ BodyMerge \/ CommitApplied
    BY <1>1, PostLocally, MergeLocally, ApplyLocally
<1>2. CASE InitTick \/ ReaderTick \/ TaskPending
    BY <1>2 DEF InitTick, ReaderTick, ActivateTick, WakeTick, SearchTick, SearchAcquire,
                SearchBegin, TaskPending, Own, others, Locally
<1>3. CASE BodyTick /\ ~(BodyPost \/ BodyMerge)
    BY <1>3
       DEF BodyTick, BodyEmpty, BodyDispatch, BodyArguments, BodyExpand, BodyAcquire,
           BodyFilter, BodyApply, BodyFail, BodyChoice, BodyLeft, BodyRight, BodyOwn, Own,
           others, Locally
<1>4. CASE CommitTick /\ ~CommitApplied
    BY <1>4
       DEF CommitTick, CommitEmpty, CommitStart, CommitHead, CommitHeadsDone, CommitHistory,
           CommitRecord, CommitConsume, CommitFresh, CommitOwn, Own, others, Locally
<1>5. CASE CompletionTick
    BY <1>5 DEF CompletionTick, Capture, Scan, Difference, ReadyAcquire, ReadyTransport,
                ReadyFilter, Publish, CompletionPending, taskVars, Locally
<1>6. CASE Observation \/ Idle \/ TakeOutput \/ UNCHANGED vars
    BY <1>6 DEF Observation, Idle, TakeOutput, vars, taskVars, Locally
<1>7. QED
    BY <1>1, <1>2, <1>3, <1>4, <1>5, <1>6 DEF Next, Advance

(* Answers are those of before, or one more on the state of now.           *)
LEMMA AnswersGrow ==
    ASSUME There, [Next]_vars
    PROVE  \/ answers' = answers
           \/ /\ state' = state /\ ready.scope \subseteq World
              /\ answers' = Append(answers, [scope |-> ready.scope, state |-> state])
<1>1. CASE InitTick \/ BodyTick \/ ReaderTick \/ CommitTick \/ TaskPending
    BY <1>1, TasksUnseen DEF Unseen
<1>2. CASE Publish
  <2>1. ready.scope \subseteq World
    BY DEF ReadyView, There, Rows, C!Invariant, C!TypeOK, C!Ready, C!Condition
  <2>2. QED
    BY <1>2, <2>1 DEF Publish
<1>3. CASE \/ Capture \/ Scan \/ Difference \/ ReadyAcquire \/ ReadyTransport \/ ReadyFilter
           \/ CompletionPending \/ Observation \/ Idle \/ TakeOutput \/ UNCHANGED vars
    BY <1>3 DEF Capture, Scan, Difference, ReadyAcquire, ReadyTransport, ReadyFilter,
           CompletionPending, Observation, Idle, TakeOutput, vars, viewVars
<1>4. QED
    BY <1>1, <1>2, <1>3 DEF Next, Advance, CompletionTick

(* Nobody works in a published world any more, so nobody changes it.       *)
LEMMA AnswersKeep ==
    ASSUME There, AnswersDoNotChange, program' = program, [Next]_vars
    PROVE  AnswersDoNotChange'
<1>1. Locally
    BY NextLocally
<1>2. /\ C!NoLateWork /\ IsSeq(answers)
      /\ \A i \in DOMAIN answers : \A w \in answers[i].scope : w \in World /\ published[w] > 0
    BY DEF There, Rows, AnswerRows, C!Invariant
<1>3. ASSUME NEW i \in DOMAIN answers, NEW w \in answers[i].scope
      PROVE  SameWorld(answers[i].state.graph, state'.graph, w)
  <2>1. SameWorld(answers[i].state.graph, state.graph, w)
    BY DEF AnswersDoNotChange, SameWorld, LiveIn
  <2>2. SameWorld(state.graph, state'.graph, w)
    <3>1. CASE state' = state
      BY <3>1 DEF SameWorld
    <3>2. CASE state' # state
      <4>1. current.id \in TaskId
        BY <1>1, <3>2 DEF Locally
      <4>2. w \in World /\ w \notin pending[current.id]
        BY <1>2, <4>1 DEF C!NoLateWork
      <4>3. QED
        BY <1>1, <3>2, <4>2 DEF Locally
    <3>3. QED
      BY <3>1, <3>2
  <2>3. QED
    BY <2>1, <2>2 DEF SameWorld
<1>4. CASE answers' = answers
    BY <1>3, <1>4 DEF AnswersDoNotChange, SameWorld, LiveIn
<1>5. CASE /\ state' = state /\ ready.scope \subseteq World
           /\ answers' = Append(answers, [scope |-> ready.scope, state |-> state])
  <2>1. ASSUME NEW i \in DOMAIN answers', NEW w \in answers'[i].scope
        PROVE  SameWorld(answers'[i].state.graph, state'.graph, w)
    <3>1. answers \in Seq(Elems(answers))
      BY <1>2 DEF IsSeq
    <3>2. CASE i \in DOMAIN answers
      <4>1. answers'[i] = answers[i]
        BY <1>5, <3>1, <3>2
      <4>2. QED
        BY <1>3, <2>1, <3>2, <4>1
    <3>3. CASE i \notin DOMAIN answers
      <4>1. answers'[i] = [scope |-> ready.scope, state |-> state]
        BY <1>5, <2>1, <3>1, <3>3
      <4>2. QED
        BY <1>5, <4>1 DEF SameWorld
    <3>4. QED
      BY <3>2, <3>3
  <2>2. QED
    BY <2>1 DEF AnswersDoNotChange, SameWorld, LiveIn
<1>6. QED
    BY <1>4, <1>5, AnswersGrow

-----------------------------------------------------------------------------
(* The theorems.                                                           *)

(* Where the tasks are, what they know, and what was applied.              *)
THEOREM EngineInvariant == Spec => []IInv
<1>1. Init => IInv
    BY InitKeeps
<1>2. IInv /\ [Next]_vars => IInv'
    BY StepKeeps
<1>3. QED
    BY <1>1, <1>2, PTL DEF Spec

(* Every dispatch of the engine, with all it does to the queue and the     *)
(* FIFO, is a step of the lane: whatever Lane.tla promises holds of it.    *)
THEOREM EngineImplementsLane == Spec => ImplementsLane
<1>1. Init => LaneView!Init
    BY InitKeeps DEF L!Init, LaneView!Init
<1>2. IInv /\ [Next]_vars => [LaneView!Next]_LaneView!vars
    BY StepKeeps
       DEF LaneStep, L!Next, L!vars, L!Spawn, L!TaskTake, L!TaskPark, L!Finish, L!ScalarTake,
           L!ScalarWait, L!Release, L!ReleaseLane, L!Keep, L!Resumed, L!Uncontended,
           L!Waiters, L!Owner,
           LaneView!Next, LaneView!vars, LaneView!Spawn, LaneView!TaskTake,
           LaneView!TaskPark, LaneView!Finish, LaneView!ScalarTake, LaneView!ScalarWait,
           LaneView!Release, LaneView!ReleaseLane, LaneView!Keep, LaneView!Resumed,
           LaneView!Uncontended, LaneView!Waiters, LaneView!Owner
<1>3. QED
    BY <1>1, <1>2, EngineInvariant, PTL DEF Spec, ImplementsLane, LaneView!Spec

(* No dispatch strands a payload between the queue, the FIFO and the flag  *)
(* of the completion: nobody waits for a free lane, and a task that owns   *)
(* it is in the queue.                                                     *)
THEOREM EngineStrandsNobody == Spec => []LaneView!NoHandoffLost
<1>1. IInv => LaneView!NoHandoffLost
    BY DEF IInv, LaneInv, L!Inv, L!OneEntry, L!OwnerRuns, L!Waiters,
           LaneView!NoHandoffLost, LaneView!OneEntry, LaneView!OwnerRuns, LaneView!Waiters
<1>2. QED
    BY <1>1, EngineInvariant, PTL

(* No world sees a fact removed twice, or a propagation fired twice for a  *)
(* tuple, by whichever searches found it and however long they waited.     *)
THEOREM NothingAppliedTwice == Spec => []AppliedOnce
BY EngineInvariant, PTL DEF IInv

(* A commit applies a rule only where it is applicable in the state it     *)
(* commits to, and only in worlds that are active.                         *)
THEOREM OnlyApplicableApplied == Spec => AppliedWhereApplicable
<1>1. IInv /\ [Next]_vars => [Justly]_vars
    BY StepKeeps
<1>2. QED
    BY <1>1, EngineInvariant, PTL DEF Spec, AppliedWhereApplicable, Justly

(* Each task has its row of the pending root and works within it, the      *)
(* certificate is where its phase says, and what Certificate.tla promises  *)
(* holds of the engine's own variables.                                    *)
THEOREM EngineRows == Spec => [](IInv /\ Rows)
<1>1. Init => IInv /\ Rows
    BY InitKeeps, RowsStart
<1>2. IInv /\ Rows /\ [Next]_vars => (IInv /\ Rows)'
  <2>1. IInv /\ Rows => There
    BY DEF IInv, There, Here
  <2>2. QED
    BY <2>1, StepKeeps, RowsKeep
<1>3. QED
    BY <1>1, <1>2, PTL DEF Spec

(* Every step of the engine, of whichever kind of task, is a step of       *)
(* Certificate or a stutter: children are born within their parent's row,  *)
(* only the owner of the lane changes `active', and the phases of the      *)
(* completion are those of the abstract one.  What Certificate promises    *)
(* holds of the engine.                                                    *)
THEOREM EngineImplementsCertificate == Spec => ImplementsCertificate
<1>1. Init => CompletionView!Init
    BY RowsStart DEF C!Init, CompletionView!Init, C!NoReady, CompletionView!NoReady, Failing,
       Captured, Delivering
<1>2. IInv /\ Rows /\ [Next]_vars => [CompletionView!Next]_CompletionView!vars
  <2>1. SUFFICES ASSUME IInv, Rows, [Next]_vars
                 PROVE  [CompletionView!Next]_CompletionView!vars
    OBVIOUS
  <2>2. There
    BY <2>1 DEF IInv, There, Here
  <2>3. [C!Next]_C!vars
    BY <2>1, <2>2, RowsKeep DEF CStep
  <2>4. QED
    BY ONLY <2>3
       DEF Failing, Captured, Delivering,
           C!Next, C!vars, C!TaskStep, C!TaskAcquire, C!FailStart, C!FailFinish, C!Live,
           C!Admit, C!LaneAfter, C!Grantable, C!Remainder, C!Condition, C!CompletionStep,
           C!CanComplete, C!Capture, C!Dropped, C!NoReady, C!ScanRow, C!Scanned,
           C!Difference, C!ReadyAcquire, C!Filter, C!Unpublished, C!Publish, C!Delivered,
           CompletionView!Next, CompletionView!vars, CompletionView!TaskStep,
           CompletionView!TaskAcquire, CompletionView!FailStart, CompletionView!FailFinish,
           CompletionView!Live, CompletionView!Admit, CompletionView!LaneAfter,
           CompletionView!Grantable, CompletionView!Remainder, CompletionView!Condition,
           CompletionView!CompletionStep, CompletionView!CanComplete, CompletionView!Capture,
           CompletionView!Dropped, CompletionView!NoReady, CompletionView!ScanRow,
           CompletionView!Scanned, CompletionView!Difference, CompletionView!ReadyAcquire,
           CompletionView!Filter, CompletionView!Unpublished, CompletionView!Publish,
           CompletionView!Delivered
<1>3. QED
    BY <1>1, <1>2, EngineRows, PTL DEF Spec, ImplementsCertificate, CompletionView!Spec

(* The engine loses no world: whatever its tasks do, each world is active, *)
(* failed or published, just one of these, and no task works in a          *)
(* published one.                                                          *)
THEOREM EngineLosesNoWorld ==
    Spec => [](CompletionView!NoLateWork /\ CompletionView!Accounted)
<1>1. Rows => CompletionView!NoLateWork /\ CompletionView!Accounted
    BY DEF Rows, C!Invariant, C!NoLateWork, C!PublishedOnce, C!ActiveIsTheRest,
           CompletionView!NoLateWork, CompletionView!Accounted,
           CompletionView!PublishedOnce, CompletionView!ActiveIsTheRest
<1>2. QED
    BY <1>1, EngineRows, PTL

(* What the state says of a published world never changes again, though    *)
(* the other worlds of the same graph go on being worked in.               *)
THEOREM AnswersAreFinal == Spec => []AnswersDoNotChange
<1>1. Init => AnswersDoNotChange
    BY DEF Init, AnswersDoNotChange
<1>2. IInv /\ Rows /\ AnswersDoNotChange /\ [Next]_vars => AnswersDoNotChange'
  <2>1. IInv /\ Rows => There /\ Here
    BY DEF IInv, There, Here
  <2>2. Here /\ [Next]_vars => program' = program
    BY NextKeeps
  <2>3. QED
    BY <2>1, <2>2, AnswersKeep
<1>3. QED
    BY <1>1, <1>2, EngineRows, PTL DEF Spec

=============================================================================
