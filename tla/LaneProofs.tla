----------------------------- MODULE LaneProofs -----------------------------
(***************************************************************************)
(* The lane's invariants hold for every set of tasks and scalar owners:    *)
(* Inv == TypeOK /\ OneEntry /\ OwnerRuns is inductive as it stands.  The  *)
(* work is in release_lane: Popped says what a pop does to the FIFO.       *)
(***************************************************************************)
EXTENDS Lane, TLAPS

Inv == TypeOK /\ OneEntry /\ OwnerRuns

(* Nobody waits for the lane at the start.                                 *)
LEMMA InitInv == Init => Inv
BY LaneOwnersDistinct
   DEF Init, Inv, TypeOK, OneEntry, OwnerRuns, Owner, Waiters

(* Appending an owner that is not in the FIFO keeps its entries distinct.  *)
LEMMA Pushed ==
    ASSUME waiting \in Seq(Owner), NEW o \in Owner, waiting' = Append(waiting, o)
    PROVE  /\ waiting' \in Seq(Owner)
           /\ Waiters' = Waiters \cup {o}
           /\ o \notin Waiters
                 /\ (\A i, j \in DOMAIN waiting : waiting[i] = waiting[j] => i = j)
              => \A i, j \in DOMAIN waiting' : waiting'[i] = waiting'[j] => i = j
<1>1. waiting' \in Seq(Owner)
    OBVIOUS
<1>2. DOMAIN waiting' = DOMAIN waiting \cup {Len(waiting) + 1}
    OBVIOUS
<1>3. /\ \A i \in DOMAIN waiting : waiting'[i] = waiting[i]
      /\ waiting'[Len(waiting) + 1] = o
    OBVIOUS
<1>4. Waiters' = Waiters \cup {o}
    BY <1>2, <1>3 DEF Waiters
<1>5. QED
    BY <1>1, <1>2, <1>3, <1>4 DEF Waiters

(* Popping the front of a FIFO of distinct entries removes just that one.  *)
LEMMA Popped ==
    ASSUME waiting \in Seq(Owner), waiting # <<>>, waiting' = Tail(waiting),
           \A i, j \in DOMAIN waiting : waiting[i] = waiting[j] => i = j
    PROVE  /\ waiting' \in Seq(Owner)
           /\ Head(waiting) \in Waiters
           /\ Waiters' = Waiters \ {Head(waiting)}
           /\ \A i, j \in DOMAIN waiting' : waiting'[i] = waiting'[j] => i = j
<1>1. waiting' \in Seq(Owner) /\ Len(waiting') = Len(waiting) - 1
    OBVIOUS
<1>2. \A i \in DOMAIN waiting' : i + 1 \in DOMAIN waiting /\ waiting'[i] = waiting[i + 1]
    OBVIOUS
<1>3. 1 \in DOMAIN waiting /\ Head(waiting) = waiting[1]
    OBVIOUS
<1>4. \A i \in DOMAIN waiting : i # 1 => i - 1 \in DOMAIN waiting'
    BY <1>1
<1>5. Waiters' \subseteq Waiters \ {Head(waiting)}
    BY <1>1, <1>2, <1>3 DEF Waiters
<1>6. Waiters \ {Head(waiting)} \subseteq Waiters'
  <2> SUFFICES ASSUME NEW i \in DOMAIN waiting, i # 1
               PROVE  \E j \in DOMAIN waiting' : waiting'[j] = waiting[i]
      BY <1>3 DEF Waiters
  <2>1. i - 1 \in DOMAIN waiting' /\ i \in Nat
    BY <1>4
  <2>2. waiting'[i - 1] = waiting[(i - 1) + 1]
    BY <1>2, <2>1
  <2>3. QED
    BY <2>1, <2>2
<1>7. \A i, j \in DOMAIN waiting' : waiting'[i] = waiting'[j] => i = j
    BY <1>1, <1>2
<1>8. QED
    BY <1>1, <1>3, <1>5, <1>6, <1>7 DEF Waiters

(* release_lane by an owner that leaves `kept' runnable.                   *)
LEMMA ReleaseInv ==
    ASSUME Inv, NEW kept \in SUBSET runnable, ReleaseLane(kept)
    PROVE  Inv'
<1> USE LaneOwnersDistinct DEF Inv
<1>1. CASE waiting = <<>>
    BY <1>1 DEF ReleaseLane, Keep, Resumed, TypeOK, OneEntry, OwnerRuns, Owner, Waiters
<1>2. CASE waiting # <<>>
  <2>1. /\ waiting \in Seq(Owner)
        /\ \A i, j \in DOMAIN waiting : waiting[i] = waiting[j] => i = j
        /\ lane' = Head(waiting)
        /\ waiting' = Tail(waiting)
        /\ flag' = [s \in Scalar |-> flag[s] /\ s # Head(waiting)]
        /\ Keep(kept \cup Resumed(Head(waiting)))
    BY <1>2 DEF TypeOK, OneEntry, ReleaseLane
  <2>2. /\ waiting' \in Seq(Owner)
        /\ Head(waiting) \in Waiters
        /\ Waiters' = Waiters \ {Head(waiting)}
        /\ \A i, j \in DOMAIN waiting' : waiting'[i] = waiting'[j] => i = j
    BY <1>2, <2>1, Popped
  <2>3. Head(waiting) \in Owner
    BY <2>1, <1>2
  <2>4. TypeOK'
    BY <2>1, <2>2, <2>3 DEF TypeOK, Owner, Keep, Resumed
  <2>5. OneEntry'
    <3>1. \A s \in Scalar : flag'[s] <=> s \in Waiters'
      BY <2>1, <2>2 DEF OneEntry
    <3>2. Waiters' \cap runnable' = {}
      BY <2>1, <2>2 DEF OneEntry, Keep, Resumed
    <3>3. QED
      BY <2>2, <3>1, <3>2 DEF OneEntry
  <2>6. OwnerRuns'
    <3>1. lane' # Free
      BY <2>1, <2>3 DEF Owner
    <3>2. lane' \notin Waiters' /\ (lane' \in Task => lane' \in runnable')
      BY <2>1, <2>2 DEF Keep, Resumed
    <3>3. QED
      BY <3>1, <3>2 DEF OwnerRuns
  <2>7. QED
    BY <2>4, <2>5, <2>6
<1>3. QED
    BY <1>1, <1>2

(* An owner that waits joins the FIFO once, and the lane was not free.     *)
LEMMA WaitInv ==
    ASSUME Inv, NEW o \in Owner, o \notin Waiters, lane # o, ~Uncontended,
           waiting' = Append(waiting, o), lane' = lane,
           flag' = [s \in Scalar |-> flag[s] \/ s = o],
           runnable' = runnable \ {o}
    PROVE  Inv'
<1> USE LaneOwnersDistinct DEF Inv
<1>1. /\ waiting' \in Seq(Owner)
      /\ Waiters' = Waiters \cup {o}
      /\ \A i, j \in DOMAIN waiting' : waiting'[i] = waiting'[j] => i = j
    BY Pushed DEF TypeOK, OneEntry
<1>2. TypeOK'
    BY <1>1 DEF TypeOK
<1>3. OneEntry'
    BY <1>1 DEF OneEntry
<1>4. OwnerRuns'
    BY <1>1 DEF OwnerRuns, Uncontended
<1>5. QED
    BY <1>2, <1>3, <1>4

(* Every step preserves the invariant.                                     *)
LEMMA NextInv ==
    ASSUME Inv, [Next]_vars
    PROVE  Inv'
<1> USE LaneOwnersDistinct
<1>1. CASE Spawn
    BY <1>1 DEF Spawn, Keep, Inv, TypeOK, OneEntry, OwnerRuns, Waiters
<1>2. ASSUME NEW t \in Task, TaskTake(t) PROVE Inv'
    BY <1>2 DEF TaskTake, Uncontended, Inv, TypeOK, OneEntry, OwnerRuns, Owner, Waiters
<1>3. ASSUME NEW t \in Task, TaskPark(t) PROVE Inv'
  <2>1. t \in Owner /\ t \notin Waiters /\ t \notin Scalar
    BY <1>3 DEF TaskPark, Owner, Inv, OneEntry
  <2>2. flag' = [s \in Scalar |-> flag[s] \/ s = t]
    BY <1>3, <2>1 DEF TaskPark, Inv, TypeOK
  <2>3. QED
    BY <1>3, <2>1, <2>2, WaitInv DEF TaskPark
<1>4. ASSUME NEW s \in Scalar, ScalarTake(s) PROVE Inv'
    BY <1>4 DEF ScalarTake, Uncontended, Inv, TypeOK, OneEntry, OwnerRuns, Owner, Waiters
<1>5. ASSUME NEW s \in Scalar, ScalarWait(s) PROVE Inv'
  <2>1. s \in Owner /\ s \notin Waiters /\ s \notin runnable
    BY <1>5 DEF ScalarWait, Owner, Inv, OneEntry, TypeOK
  <2>2. flag' = [r \in Scalar |-> flag[r] \/ r = s]
    BY <1>5 DEF ScalarWait, Inv, TypeOK
  <2>3. runnable' = runnable \ {s}
    BY <1>5, <2>1 DEF ScalarWait
  <2>4. QED
    BY <1>5, <2>1, <2>2, <2>3, WaitInv DEF ScalarWait
<1>6. ASSUME NEW t \in Task, Finish(t) PROVE Inv'
  <2>1. CASE lane = t
    BY <1>6, <2>1, ReleaseInv DEF Finish
  <2>2. CASE lane # t
    BY <1>6, <2>2 DEF Finish, Keep, Inv, TypeOK, OneEntry, OwnerRuns, Waiters
  <2>3. QED
    BY <2>1, <2>2
<1>7. CASE Release
    BY <1>7, ReleaseInv DEF Release
<1>8. CASE UNCHANGED vars
    BY <1>8 DEF vars, Inv, TypeOK, OneEntry, OwnerRuns, Waiters
<1>9. QED
    BY <1>1, <1>2, <1>3, <1>4, <1>5, <1>6, <1>7, <1>8 DEF Next

(* The lane's whole invariant.                                             *)
THEOREM LaneInvariant == Spec => []Inv
<1>1. Init => Inv
    BY InitInv
<1>2. Inv /\ [Next]_vars => Inv'
    BY NextInv
<1>3. QED
    BY <1>1, <1>2, PTL DEF Spec

(* Types of the lane's variables.                                          *)
THEOREM LaneTypes == Spec => []TypeOK
BY LaneInvariant, PTL DEF Inv

(* A suspended task is in the run queue or in the FIFO, never in both.     *)
THEOREM OnePlacePerTask == Spec => []OneEntry
BY LaneInvariant, PTL DEF Inv

(* acquire and release_lane lose no handoff: a suspended payload is at one *)
(* place, and whoever waits, someone owns the lane and will be dispatched. *)
THEOREM NoLostHandoff == Spec => []NoHandoffLost
BY LaneInvariant, PTL DEF Inv, NoHandoffLost

(* The FIFO is served from its front and joined at its back, and only so.  *)
THEOREM ServedInOrder == Spec => FirstComeFirstServed
<1>1. Inv /\ [Next]_vars =>
        [InOrder]_vars
    BY DEF InOrder, Next, vars, Spawn, TaskTake, TaskPark, ScalarTake, ScalarWait,
           Uncontended, Release, Finish, ReleaseLane, Owner
<1>2. QED
    BY <1>1, LaneInvariant, PTL DEF Spec, FirstComeFirstServed

=============================================================================
