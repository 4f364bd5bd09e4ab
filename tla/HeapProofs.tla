----------------------------- MODULE HeapProofs -----------------------------
(***************************************************************************)
(* What Heap.tla promises, for all tasks, conditions, descriptors and      *)
(* views: nothing that is held is freed, views tell the truth forever, and *)
(* a cancellation leaves nothing behind.                                   *)
(*                                                                         *)
(* A collection frees whatever its phases have not found, and no two of    *)
(* its sources of roots are alike; HeapInv says for each of them why what  *)
(* it holds is still there.                                                *)
(*    StoreSound   what is in a store names only what is in the stores;    *)
(*    Places       every payload is in the run queue or in the lane's FIFO,*)
(*                 so the two phases that go over these find all;          *)
(*    Stages       how far a cancellation is tells what it has taken down: *)
(*                 the roots go when no payload and no reader needs them;  *)
(*    StateHeld, ReaderHeld                                                *)
(*                 payloads, graph, pending map and births, and the reader *)
(*                 of an older root, hold what is in the stores;           *)
(*    ViewsHeld    so do views, and every body that a view can see is      *)
(*                 Fixed: its record is older than the last capture, and   *)
(*                 is copied before it changes;                            *)
(*    KeptHeld, ArchiveKept                                                *)
(*                 what the archive protects is there and closed under     *)
(*                 naming, and it has all that registered snapshots hold:  *)
(*                 a collection looks only at those taken since;           *)
(*    BodiesTold   once bodies are promoted, the record of a task says     *)
(*                 what the payload says;                                  *)
(*    Emptied      a collection after the roots are gone leaves only what  *)
(*                 the views of the host hold.                             *)
(* All but Collect grows the stores (Grows), and then each part follows    *)
(* from what little the step changes.  For Collect the lemmas go along its *)
(* phases: what renaming keeps (Settled), what the phases find (Rooted),   *)
(* what the stores are left with (Left), and that this is enough.          *)
(***************************************************************************)
EXTENDS Heap, LaneProofs, FiniteSetTheorems, WellFoundedInduction

-----------------------------------------------------------------------------
(* Descriptors.                                                            *)

Table == [descriptors : [Descriptor -> Record \cup {None}], epoch : Nat]

(* A table of descriptors none of which is later than its last capture.    *)
IsBook(book) ==
    /\ book \in Table
    /\ \A d \in LiveIn(book) : book.descriptors[d].epoch <= book.epoch

(* Nothing changes a descriptor that was there at the last capture.        *)
Fixed(book, d) == d \in LiveIn(book) /\ book.descriptors[d].epoch < book.epoch

(* Bodies have descriptors of their own.                                   *)
OwnBodies(map) == \A t, u \in DOMAIN map : map[t] = map[u] /\ map[t] # None => t = u

(* A table after another: what was there is there, and fixed is fixed.     *)
After(old, new) ==
    /\ IsBook(new)
    /\ old.epoch <= new.epoch
    /\ LiveIn(old) \subseteq LiveIn(new)
    /\ \A d \in Descriptor : Fixed(old, d) => new.descriptors[d] = old.descriptors[d]

(* A table is after itself.                                                *)
LEMMA AfterItself == ASSUME NEW book, IsBook(book) PROVE After(book, book)
BY DEF After, IsBook, Table

(* What is fixed stays as it is.                                           *)
LEMMA FixedStays ==
    ASSUME NEW old, NEW new, IsBook(old), After(old, new), NEW d, Fixed(old, d)
    PROVE  Fixed(new, d) /\ new.descriptors[d] = old.descriptors[d]
<1>1. d \in Descriptor /\ d \in LiveIn(new) /\ new.descriptors[d] = old.descriptors[d]
    BY DEF After, Fixed, LiveIn
<1>2. old.descriptors[d] \in Record /\ old.epoch \in Nat /\ new.epoch \in Nat
    BY <1>1 DEF Fixed, LiveIn, IsBook, Table, After
<1>3. QED
    BY <1>1, <1>2 DEF After, Fixed, Record

(* A descriptor is allocated, or changed in place.                         *)
With(book, d, parts) ==
    [book EXCEPT !.descriptors[d] = [parts |-> parts, epoch |-> book.epoch]]

(* A descriptor that is not fixed may be written.                          *)
LEMMA SetBook ==
    ASSUME NEW book, IsBook(book), NEW d \in Descriptor, NEW parts \in Body \cup {None},
           ~Fixed(book, d), NEW new, new = With(book, d, parts)
    PROVE  /\ After(book, new) /\ new.epoch = book.epoch
           /\ LiveIn(new) = LiveIn(book) \cup {d}
           /\ new.descriptors[d].parts = parts
           /\ \A e \in Descriptor : e # d => new.descriptors[e] = book.descriptors[e]
<1>1. /\ book.epoch \in Nat /\ book.descriptors \in [Descriptor -> Record \cup {None}]
    BY DEF IsBook, Table
<1>2. [parts |-> parts, epoch |-> book.epoch] \in Record
    BY <1>1 DEF Record
<1>3. /\ new \in Table /\ new.epoch = book.epoch
      /\ new.descriptors[d] = [parts |-> parts, epoch |-> book.epoch]
      /\ \A e \in Descriptor : e # d => new.descriptors[e] = book.descriptors[e]
    BY <1>1, <1>2 DEF IsBook, Table, With
<1>4. new.descriptors[d] # None
    BY <1>2, <1>3, NoneAndTrueApart
<1>5. LiveIn(new) = LiveIn(book) \cup {d}
    BY <1>3, <1>4 DEF LiveIn
<1>6. \A e \in LiveIn(new) : new.descriptors[e].epoch <= new.epoch
    BY <1>1, <1>3, <1>5 DEF IsBook, LiveIn
<1>7. QED
    BY <1>1, <1>3, <1>5, <1>6 DEF After, IsBook, Fixed

(* Updated makes a descriptor, writes it in place when it is not fixed, or *)
(* makes another: all else stays as it is.                                 *)
LEMMA UpdatedBook ==
    ASSUME NEW book, IsBook(book), NEW previous \in LiveIn(book) \cup {None},
           NEW parts \in Body \cup {None}, NEW r \in Updated(book, previous, parts)
    PROVE  /\ After(book, r.book) /\ r.book.epoch = book.epoch
           /\ r.body \in LiveIn(r.book) \cup {None}
           /\ LiveIn(r.book) = LiveIn(book) \cup ({r.body} \ {None})
           /\ r.body # None => r.book.descriptors[r.body].parts = parts
           /\ r.body = None => parts = None /\ previous = None
           /\ r.body \in {None, previous} \/ r.body \notin LiveIn(book)
           /\ \A d \in Descriptor : d # r.body => r.book.descriptors[d] = book.descriptors[d]
<1>0. None \notin Descriptor /\ LiveIn(book) \subseteq Descriptor
    BY NoneAndTrueApart DEF LiveIn
<1>1. CASE r = [book |-> book, body |-> previous] /\ previous = None /\ parts = None
    BY <1>0, <1>1, AfterItself DEF After
<1>2. CASE /\ r = [book |-> book, body |-> previous] /\ previous # None
           /\ book.descriptors[previous].parts = parts
    BY <1>0, <1>2, AfterItself DEF After
<1>3. ASSUME NEW d \in Descriptor, r = [book |-> With(book, d, parts), body |-> d], ~Fixed(book, d),
             d = previous \/ d \notin LiveIn(book)
      PROVE  /\ After(book, r.book) /\ r.book.epoch = book.epoch
             /\ r.body \in LiveIn(r.book) \cup {None}
             /\ LiveIn(r.book) = LiveIn(book) \cup ({r.body} \ {None})
             /\ r.body # None => r.book.descriptors[r.body].parts = parts
             /\ r.body = None => parts = None /\ previous = None
             /\ r.body \in {None, previous} \/ r.body \notin LiveIn(book)
             /\ \A e \in Descriptor : e # r.body => r.book.descriptors[e] = book.descriptors[e]
  <2>1. r.body = d /\ r.book = With(book, d, parts)
    BY <1>3
  <2>2. PICK b : b = r.book
    OBVIOUS
  <2>3. /\ After(book, b) /\ b.epoch = book.epoch
        /\ LiveIn(b) = LiveIn(book) \cup {d}
        /\ b.descriptors[d].parts = parts
        /\ \A e \in Descriptor : e # d => b.descriptors[e] = book.descriptors[e]
    BY <1>3, <2>1, <2>2, SetBook
  <2>4. QED
    BY <1>0, <1>3, <2>1, <2>2, <2>3
<1>4. CASE r \in Allocated(book, parts)
  <2>1. PICK d \in FreeIn(book) : r = [book |-> With(book, d, parts), body |-> d]
    BY <1>4 DEF Allocated, With
  <2>2. d \in Descriptor /\ d \notin LiveIn(book)
    BY <2>1 DEF FreeIn, LiveIn
  <2>3. QED
    BY <1>3, <2>1, <2>2 DEF Fixed
<1>5. CASE /\ previous # None /\ book.descriptors[previous].epoch = book.epoch
           /\ r = [book |-> [book EXCEPT !.descriptors[previous].parts = parts], body |-> previous]
  <2>1. previous \in LiveIn(book) /\ previous \in Descriptor
    BY <1>0, <1>5
  <2>2. book.descriptors[previous] \in Record /\ book.epoch \in Nat
        /\ book.descriptors \in [Descriptor -> Record \cup {None}]
    BY <2>1 DEF IsBook, Table, LiveIn
  <2>3. [book.descriptors[previous] EXCEPT !.parts = parts] = [parts |-> parts, epoch |-> book.epoch]
    BY <1>5, <2>2 DEF Record
  <2>4. r = [book |-> With(book, previous, parts), body |-> previous]
    BY <1>5, <2>1, <2>2, <2>3 DEF With, IsBook, Table
  <2>5. ~Fixed(book, previous)
    BY <1>5, <2>2 DEF Fixed
  <2>6. QED
    BY <1>3, <2>1, <2>4, <2>5
<1>6. QED
    BY <1>1, <1>2, <1>4, <1>5 DEF Updated

(* The tables of a run come one after another.                             *)
LEMMA AfterTwice ==
    ASSUME NEW a, NEW b, NEW c, IsBook(a), After(a, b), After(b, c)
    PROVE  After(a, c)
<1>1. \A d \in Descriptor : Fixed(a, d) => Fixed(b, d) /\ b.descriptors[d] = a.descriptors[d]
    BY FixedStays
<1>2. a.epoch \in Nat /\ b.epoch \in Nat /\ c.epoch \in Nat
    BY DEF After, IsBook, Table
<1>3. QED
    BY <1>1, <1>2 DEF After

(* Several descriptors are allocated: f[t] for the parts p[t].             *)
AllWith(book, S, f, p) ==
    [book EXCEPT !.descriptors =
        [d \in Descriptor |-> IF \E t \in S : f[t] = d
                              THEN [parts |-> p[CHOOSE t \in S : f[t] = d], epoch |-> book.epoch]
                              ELSE @[d]]]

(* Many descriptors at once are allocated, all of them apart.              *)
LEMMA AllocatedBook ==
    ASSUME NEW book, IsBook(book), NEW S, NEW f \in [S -> FreeIn(book)], IsInjective(f),
           NEW p \in [S -> Body \cup {None}], NEW new, new = AllWith(book, S, f, p)
    PROVE  /\ After(book, new) /\ new.epoch = book.epoch
           /\ \A t \in S : f[t] \in LiveIn(new) \ LiveIn(book) /\ new.descriptors[f[t]].parts = p[t]
           /\ \A d \in LiveIn(book) : d \in LiveIn(new) /\ new.descriptors[d] = book.descriptors[d]
           /\ \A d \in LiveIn(new) : d \in LiveIn(book) \/ \E t \in S : f[t] = d
<1>1. /\ book.epoch \in Nat /\ book.descriptors \in [Descriptor -> Record \cup {None}]
    BY DEF IsBook, Table
<1>2. \A t \in S : [parts |-> p[t], epoch |-> book.epoch] \in Record
    BY <1>1 DEF Record
<1>3. /\ new.epoch = book.epoch
      /\ new = [descriptors |-> new.descriptors, epoch |-> new.epoch]
      /\ new.descriptors = [d \in Descriptor |->
            IF \E t \in S : f[t] = d
            THEN [parts |-> p[CHOOSE t \in S : f[t] = d], epoch |-> book.epoch]
            ELSE book.descriptors[d]]
    BY <1>1 DEF AllWith, IsBook, Table
<1>4. \A t \in S : (CHOOSE u \in S : f[u] = f[t]) = t
    BY DEF IsInjective
<1>5. \A t \in S : /\ f[t] \in Descriptor /\ f[t] \notin LiveIn(book)
                   /\ new.descriptors[f[t]] = [parts |-> p[t], epoch |-> book.epoch]
                   /\ new.descriptors[f[t]].parts = p[t]
                   /\ new.descriptors[f[t]].epoch = book.epoch
  <2> TAKE t \in S
  <2>1. f[t] \in Descriptor /\ f[t] \notin LiveIn(book)
    BY DEF FreeIn, LiveIn
  <2>2. \E u \in S : f[u] = f[t]
    OBVIOUS
  <2>3. QED
    <3>1. new.descriptors[f[t]] = [parts |-> p[t], epoch |-> book.epoch]
      BY <1>3, <1>4, <2>1, <2>2
    <3>2. QED
      BY <2>1, <3>1
<1>6. \A d \in Descriptor : (\A t \in S : f[t] # d) => new.descriptors[d] = book.descriptors[d]
    BY <1>3
<1>7. new.descriptors \in [Descriptor -> Record \cup {None}]
  <2>1. ASSUME NEW d \in Descriptor PROVE new.descriptors[d] \in Record \cup {None}
    <3>1. CASE \E t \in S : f[t] = d
      BY <1>2, <1>5, <3>1
    <3>2. CASE \A t \in S : f[t] # d
      BY <1>1, <1>6, <3>2
    <3>3. QED
      BY <3>1, <3>2
  <2>2. QED
    BY <1>3, <2>1
<1>8. \A d \in LiveIn(book) : d \in LiveIn(new) /\ new.descriptors[d] = book.descriptors[d]
    BY <1>5, <1>6 DEF LiveIn
<1>9. \A t \in S : f[t] \in LiveIn(new)
    BY <1>2, <1>5, NoneAndTrueApart DEF LiveIn
<1>10. \A d \in LiveIn(new) : d \in LiveIn(book) \/ \E t \in S : f[t] = d
    BY <1>6 DEF LiveIn
<1>11. IsBook(new)
  <2>1. new \in Table
    BY <1>1, <1>3, <1>7 DEF Table
  <2>2. ASSUME NEW d \in LiveIn(new) PROVE new.descriptors[d].epoch <= new.epoch
    <3>1. CASE d \in LiveIn(book)
      BY <1>3, <1>8, <3>1 DEF IsBook
    <3>2. CASE \E t \in S : f[t] = d
      <4>1. new.descriptors[d].epoch = book.epoch
        BY <1>5, <3>2
      <4>2. QED
        BY <1>1, <1>3, <4>1
    <3>3. QED
      BY <1>10, <3>1, <3>2
  <2>3. QED
    BY <2>1, <2>2 DEF IsBook
<1>12. After(book, new)
  <2>1. book.epoch <= new.epoch
    BY <1>1, <1>3
  <2>2. \A d \in Descriptor : Fixed(book, d) => new.descriptors[d] = book.descriptors[d]
    BY <1>8 DEF Fixed
  <2>3. LiveIn(book) \subseteq LiveIn(new)
    BY <1>8
  <2>4. QED
    BY <1>11, <2>1, <2>2, <2>3 DEF After
<1>13. \A t \in S : new.descriptors[f[t]].parts = p[t]
    BY <1>5
<1>14. QED
    BY <1>3, <1>5, <1>8, <1>9, <1>10, <1>12, <1>13

(* A capture fixes all that is there.                                      *)
LEMMA FrozenBook ==
    ASSUME NEW book, IsBook(book), NEW new, new = Frozen(book)
    PROVE  /\ After(book, new)
           /\ new.descriptors = book.descriptors
           /\ \A d \in LiveIn(book) : Fixed(new, d)
<1>1. /\ book.epoch \in Nat /\ book.descriptors \in [Descriptor -> Record \cup {None}]
    BY DEF IsBook, Table
<1>2. new \in Table /\ new.epoch = book.epoch + 1 /\ new.descriptors = book.descriptors
    BY <1>1 DEF Frozen, IsBook, Table
<1>3. LiveIn(new) = LiveIn(book)
    BY <1>2 DEF LiveIn
<1>4. \A d \in LiveIn(book) : book.descriptors[d].epoch \in Nat
    BY <1>1 DEF LiveIn, Record
<1>5. QED
    BY <1>1, <1>2, <1>3, <1>4 DEF After, IsBook, Fixed

(* Maps of pending bodies.                                                 *)
LEMMA MapIs ==
    ASSUME NEW S, NEW m \in MapsTo(S)
    PROVE  DOMAIN m \in SUBSET Task /\ m \in [DOMAIN m -> S]
BY DEF MapsTo

(* A map from some of the tasks is one.                                    *)
LEMMA IsMap ==
    ASSUME NEW S, NEW T \in SUBSET Task, NEW m \in [T -> S]
    PROVE  m \in MapsTo(S) /\ DOMAIN m = T
BY DEF MapsTo

(* What substitution makes of the bodies that name a condition: their      *)
(* descriptors are new, and nothing else changes.                          *)
Substitutes(old, map, from, to, new, renamed) ==
    /\ After(old, new)
    /\ \A d \in LiveIn(old) : new.descriptors[d] = old.descriptors[d]
    /\ renamed \in PendingMap /\ DOMAIN renamed = DOMAIN map
    /\ OwnBodies(renamed) /\ Bodies(renamed) \subseteq LiveIn(new)
    /\ \A t \in DOMAIN map : map[t] = None => renamed[t] = None
    /\ \A t \in DOMAIN map : map[t] # None =>
          /\ renamed[t] # None
          /\ new.descriptors[renamed[t]].parts = Renamed(old.descriptors[map[t]].parts, from, to)

(* Substituted gives every body that names `from' a descriptor that names  *)
(* `to', in place or anew, and no other body a different one.              *)
LEMMA SubstitutedBook ==
    ASSUME NEW book, IsBook(book), NEW map \in PendingMap, Bodies(map) \subseteq LiveIn(book),
           OwnBodies(map), NEW from \in Condition, NEW to \in Condition,
           NEW r \in Substituted(book, map, from, to)
    PROVE  Substitutes(book, map, from, to, r.book, r.pending)
<1> DEFINE S == Affected(book, map, from)
           p == [t \in S |-> Renamed(book.descriptors[map[t]].parts, from, to)]
<1>1. /\ DOMAIN map \in SUBSET Task /\ map \in [DOMAIN map -> Descriptor \cup {None}]
      /\ S \subseteq DOMAIN map
    BY MapIs DEF PendingMap, Affected
<1>2. PICK f \in [S -> FreeIn(book)] :
          /\ IsInjective(f)
          /\ r = [book |-> [book EXCEPT !.descriptors = [d \in Descriptor |->
                       IF \E t \in S : f[t] = d
                       THEN LET t == CHOOSE t \in S : f[t] = d
                            IN [parts |-> Renamed(@[map[t]].parts, from, to),
                                epoch |-> book.epoch]
                       ELSE @[d]]],
                  pending |-> [t \in DOMAIN map |-> IF t \in S THEN f[t] ELSE map[t]]]
    BY DEF Substituted
<1>3. \A t \in DOMAIN map : map[t] # None => map[t] \in LiveIn(book)
    BY <1>1 DEF Bodies, Range
<1>4. ASSUME NEW t \in S
      PROVE  /\ t \in DOMAIN map /\ map[t] # None /\ map[t] \in LiveIn(book)
             /\ book.descriptors[map[t]].parts \in Body
             /\ book.descriptors[map[t]].parts.guard = from
  <2>1. t \in DOMAIN map /\ map[t] # None
    BY DEF Affected, Guards
  <2>2. book.descriptors[map[t]].parts # None /\ book.descriptors[map[t]].parts.guard = from
    BY <2>1 DEF Affected, Guards
  <2>3. book.descriptors[map[t]] \in Record
    BY <1>3, <2>1 DEF LiveIn, IsBook, Table
  <2>4. QED
    BY <1>3, <2>1, <2>2, <2>3 DEF Record
<1>5. ASSUME NEW t \in S
      PROVE  /\ p[t] \in Body \cup {None}
             /\ p[t] \in {[at |-> a, guard |-> to] : a \in 0 .. MaxProgress}
  <2>1. PICK q \in Body : q = book.descriptors[map[t]].parts
    BY <1>4
  <2>2. q.guard = from /\ q # None
    BY <1>4, <2>1, NoneAndTrueApart
  <2>3. p[t] = [q EXCEPT !.guard = to]
    BY <2>1, <2>2 DEF Renamed
  <2>4. [q EXCEPT !.guard = to] = [at |-> q.at, guard |-> to] /\ q.at \in 0 .. MaxProgress
    BY DEF Body
  <2>5. [at |-> q.at, guard |-> to] \in Body
    BY <2>4 DEF Body, Guard
  <2>6. QED
    BY <2>3, <2>4, <2>5
<1>6. p \in [S -> Body \cup {None}]
    BY <1>5
<1>7. r.book = AllWith(book, S, f, p)
  <2>1. \A d \in Descriptor : (\E t \in S : f[t] = d) =>
            Renamed(book.descriptors[map[CHOOSE t \in S : f[t] = d]].parts, from, to)
                = p[CHOOSE t \in S : f[t] = d]
    OBVIOUS
  <2>2. [d \in Descriptor |->
                       IF \E t \in S : f[t] = d
                       THEN LET t == CHOOSE t \in S : f[t] = d
                            IN [parts |-> Renamed(book.descriptors[map[t]].parts, from, to),
                                epoch |-> book.epoch]
                       ELSE book.descriptors[d]]
        = [d \in Descriptor |-> IF \E t \in S : f[t] = d
                              THEN [parts |-> p[CHOOSE t \in S : f[t] = d], epoch |-> book.epoch]
                              ELSE book.descriptors[d]]
    BY <2>1
  <2>3. QED
    BY <1>2, <2>2 DEF AllWith
<1>8. PICK b : b = r.book
    OBVIOUS
<1>9. /\ After(book, b)
      /\ \A t \in S : f[t] \in LiveIn(b) \ LiveIn(book) /\ b.descriptors[f[t]].parts = p[t]
      /\ \A d \in LiveIn(book) : d \in LiveIn(b) /\ b.descriptors[d] = book.descriptors[d]
      /\ \A d \in LiveIn(b) : d \in LiveIn(book) \/ \E t \in S : f[t] = d
  <2>1. PICK ss, pp : ss = S /\ pp = p
    OBVIOUS
  <2>2. /\ f \in [ss -> FreeIn(book)] /\ IsInjective(f) /\ pp \in [ss -> Body \cup {None}]
        /\ b = AllWith(book, ss, f, pp)
    BY <1>2, <1>6, <1>7, <1>8, <2>1
  <2>3. /\ After(book, b)
        /\ \A t \in ss : f[t] \in LiveIn(b) \ LiveIn(book) /\ b.descriptors[f[t]].parts = pp[t]
        /\ \A d \in LiveIn(book) : d \in LiveIn(b) /\ b.descriptors[d] = book.descriptors[d]
        /\ \A d \in LiveIn(b) : d \in LiveIn(book) \/ \E t \in ss : f[t] = d
    BY <2>2, AllocatedBook
  <2>4. QED
    BY ONLY <2>1, <2>3
<1>10. PICK m : m = r.pending
    OBVIOUS
<1>11. m = [t \in DOMAIN map |-> IF t \in S THEN f[t] ELSE map[t]]
    BY <1>2, <1>10
<1>12. m \in PendingMap /\ DOMAIN m = DOMAIN map
  <2>1. \A t \in S : f[t] \in Descriptor
    BY DEF FreeIn
  <2>2. m \in [DOMAIN map -> Descriptor \cup {None}]
    BY <1>1, <1>11, <2>1
  <2>3. QED
    BY <1>1, <2>2, IsMap DEF PendingMap
<1>13. ASSUME NEW t \in DOMAIN map, map[t] # None
       PROVE  /\ m[t] # None /\ m[t] \in LiveIn(b)
              /\ b.descriptors[m[t]].parts = Renamed(book.descriptors[map[t]].parts, from, to)
  <2>1. CASE t \in S
    <3>1. m[t] = f[t] /\ f[t] \in Descriptor
      BY <1>11, <2>1 DEF FreeIn
    <3>2. QED
      BY <1>9, <2>1, <3>1, NoneAndTrueApart
  <2>2. CASE t \notin S
    <3>1. m[t] = map[t] /\ map[t] \in LiveIn(book)
      BY <1>3, <1>11, <1>13, <2>2
    <3>2. ~(book.descriptors[map[t]].parts # None /\ book.descriptors[map[t]].parts.guard = from)
      BY <1>13, <2>2 DEF Affected, Guards
    <3>3. Renamed(book.descriptors[map[t]].parts, from, to) = book.descriptors[map[t]].parts
      BY <3>2 DEF Renamed
    <3>4. QED
      BY <1>9, <1>13, <3>1, <3>3
  <2>3. QED
    BY <2>1, <2>2
<1>14. \A t \in DOMAIN map : map[t] = None => m[t] = None
    BY <1>4, <1>11
<1>15. OwnBodies(m)
  <2> SUFFICES ASSUME NEW t \in DOMAIN map, NEW u \in DOMAIN map, m[t] = m[u], m[t] # None
               PROVE  t = u
      BY <1>12 DEF OwnBodies
  <2>1. CASE t \in S /\ u \in S
    BY <1>11, <2>1, <1>2 DEF IsInjective
  <2>2. CASE t \notin S /\ u \notin S
    BY <1>11, <2>2 DEF OwnBodies
  <2>3. CASE t \in S /\ u \notin S
    BY <1>3, <1>9, <1>11, <2>3
  <2>4. CASE t \notin S /\ u \in S
    BY <1>3, <1>9, <1>11, <2>4
  <2>5. QED
    BY <2>1, <2>2, <2>3, <2>4
<1>16. Bodies(m) \subseteq LiveIn(b)
    BY <1>12, <1>13, <1>14 DEF Bodies, Range
<1>17. Substitutes(book, map, from, to, b, m)
    BY <1>9, <1>12, <1>13, <1>14, <1>15, <1>16 DEF Substitutes
<1>18. QED
    BY <1>8, <1>10, <1>17

-----------------------------------------------------------------------------
(* The invariant.                                                          *)

Store == [rows : SUBSET Condition, conditions : SUBSET Condition, book : Table]
Holding == [rows : SUBSET Condition, descriptors : SUBSET Descriptor,
            conditions : SUBSET Condition]
CancelPhase == {"Running", "Syntax", "Queue", "Parked", "Ready", "Inspections", "Waiters",
                "Roots", "Collect", "Done"}

SourceTypes ==
    /\ tasks \in [Task -> Payload \cup {None}]
    /\ graph \in SUBSET Condition
    /\ pending \in PendingMap
    /\ birth \in Condition \cup {None}
    /\ reader \in Reading \cup {None}

OtherTypes ==
    /\ kept \in Holding
    /\ archive \in [after : Nat, reset : BOOLEAN]
    /\ snapshots \in [View -> Captured \cup {None}]
    /\ inspections \in [View -> Looking \cup {None}]
    /\ nextView \in Nat \ {0}
    /\ cancel \in [phase : CancelPhase, limit : Nat]
    /\ collector \in [owns : BOOLEAN] \cup {None}
    /\ requested \in BOOLEAN
    /\ syntax \in [done : BOOLEAN, seen : SUBSET Task]

Known == heap.conditions \cup {True}

(* What is in the stores names what is in the stores.                      *)
StoreSound ==
    /\ heap \in Store /\ IsBook(heap.book)
    /\ heap.rows \subseteq heap.conditions
    /\ \A d \in LiveIn(heap.book) : LET parts == heap.book.descriptors[d].parts
                                    IN parts # None => parts.guard \in Known

(* Payloads are in the run queue or in the FIFO.                           *)
Early == cancel.phase \in {"Running", "Syntax"}

Places ==
    /\ TypeOK /\ OneEntry
    /\ Early => OwnerRuns
    /\ Live = runnable \cup Parked

(* How far a cancellation is tells what is gone.                           *)
Stages ==
    /\ cancel.phase \notin {"Running", "Syntax", "Queue"} => runnable = {}
    /\ cancel.phase \notin {"Running", "Syntax", "Queue", "Parked"} => waiting = <<>>
    /\ cancel.phase \in {"Inspections", "Waiters", "Roots", "Collect", "Done"} => reader = None
    /\ Released => graph = {} /\ DOMAIN pending = {}
    /\ ~Released => Live \subseteq DOMAIN pending
    /\ ~Idle /\ collector.owns => Early
    /\ ~Canceled => syntax.seen = {}
    /\ ~Canceled /\ ~syntax.done => \A t \in DOMAIN pending : pending[t] = None

PayloadHeld(p) == p.root \subseteq heap.rows /\ p.body.guard \in Known

StateHeld ==
    /\ graph \subseteq heap.rows
    /\ OwnBodies(pending) /\ Bodies(pending) \subseteq LiveIn(heap.book)
    /\ \A t \in Live : PayloadHeld(tasks[t])
    /\ birth \in heap.conditions \cup {None}

ReaderHeld ==
    reader # None =>
        /\ reader.rows \subseteq heap.rows
        /\ reader.descriptors \subseteq LiveIn(heap.book)
        /\ reader.condition \in Known

ShotHeld(shot) ==
    /\ shot.graph \subseteq heap.rows
    /\ \A d \in Bodies(shot.pending) : Fixed(heap.book, d)
    /\ Remaining(heap.book, shot.pending) = shot.saw
    /\ birth = None => ~shot.last

ViewsHeld ==
    /\ \A shot \in Shots : ShotHeld(shot)
    /\ \A i \in Ids(inspections) : inspections[i].scope \in Known

(* What the archive protects, and that the registered snapshots are in it. *)
KeptHeld ==
    /\ kept.rows \subseteq heap.rows /\ kept.rows \subseteq kept.conditions
    /\ kept.conditions \subseteq heap.conditions
    /\ \A d \in kept.descriptors : Fixed(heap.book, d)
    /\ Guards(heap.book, kept.descriptors) \ {True} \subseteq kept.conditions

ArchiveKept ==
    /\ archive.reset => archive.after = 0
    /\ \A i \in Ids(snapshots) : i <= archive.after =>
          /\ snapshots[i].graph \subseteq kept.rows
          /\ Bodies(snapshots[i].pending) \subseteq kept.descriptors
    /\ ~archive.reset /\ Ids(snapshots) = {} => kept = Nothing
    /\ archive.after < nextView /\ \A i \in Ids(snapshots) : i < nextView

BodiesTold ==
    ~Canceled /\ syntax.done =>
        \A t \in Live : Remaining(heap.book, pending)[t] = Parts(tasks[t].body)

(* A collection after the roots are gone leaves what views hold.           *)
Emptied ==
    Released /\ Idle /\ ~requested /\ Ids(snapshots) \cup Ids(inspections) = {} =>
        /\ heap.conditions = {} /\ heap.rows = {} /\ LiveIn(heap.book) = {}
        /\ birth = None

SourceInv ==
    /\ SourceTypes /\ StoreSound /\ Places /\ Stages /\ StateHeld /\ ReaderHeld /\ BodiesTold

HeapInv == SourceInv /\ OtherTypes /\ ViewsHeld /\ KeptHeld /\ ArchiveKept /\ Emptied

-----------------------------------------------------------------------------
(* The heap grows between collections.                                     *)

Grows ==
    /\ heap.rows \subseteq heap'.rows /\ heap.conditions \subseteq heap'.conditions
    /\ After(heap.book, heap'.book)

(* A heap that stays has grown.                                            *)
LEMMA SameGrows == ASSUME StoreSound, heap' = heap PROVE Grows
BY AfterItself DEF Grows, StoreSound

(* What a view holds it still holds when the heap has grown.               *)
LEMMA ShotStays ==
    ASSUME StoreSound, Grows, birth' = None => birth = None, NEW shot, ShotHeld(shot)
    PROVE  ShotHeld(shot)'
<1>1. \A d \in Bodies(shot.pending) :
        Fixed(heap'.book, d) /\ heap'.book.descriptors[d] = heap.book.descriptors[d]
    BY FixedStays DEF ShotHeld, Grows, StoreSound
<1>2. \A t \in DOMAIN shot.pending : shot.pending[t] # None => shot.pending[t] \in Bodies(shot.pending)
    BY DEF Bodies, Range
<1>3. Remaining(heap'.book, shot.pending) = Remaining(heap.book, shot.pending)
    BY <1>1, <1>2 DEF Remaining
<1>4. QED
    BY <1>1, <1>3 DEF ShotHeld, Grows

(* The same of all views, of which some may have gone.                     *)
LEMMA ViewsStay ==
    ASSUME StoreSound, Grows, birth' = None => birth = None, ViewsHeld, Shots' \subseteq Shots,
           \A i \in Ids(inspections') : \/ inspections'[i].scope \in Known'
                                        \/ i \in Ids(inspections) /\ inspections'[i].scope = inspections[i].scope
    PROVE  ViewsHeld'
<1>1. \A shot \in Shots' : ShotHeld(shot)'
  <2> SUFFICES ASSUME NEW shot \in Shots' PROVE ShotHeld(shot)'
      OBVIOUS
  <2>1. ShotHeld(shot)
    BY DEF ViewsHeld
  <2>2. QED
    BY <2>1, ShotStays
<1>2. \A i \in Ids(inspections') : inspections'[i].scope \in Known'
    BY DEF ViewsHeld, Grows, Known
<1>3. QED
    BY <1>1, <1>2 DEF ViewsHeld, Ids

(* What the archive protects stays.                                        *)
LEMMA KeptStays ==
    ASSUME StoreSound, Grows, KeptHeld, kept' = kept
    PROVE  KeptHeld'
<1>1. \A d \in kept.descriptors :
        Fixed(heap'.book, d) /\ heap'.book.descriptors[d] = heap.book.descriptors[d]
    BY FixedStays DEF KeptHeld, Grows, StoreSound
<1>2. Guards(heap'.book, kept.descriptors) = Guards(heap.book, kept.descriptors)
    BY <1>1 DEF Guards
<1>3. QED
    BY <1>1, <1>2 DEF KeptHeld, Grows

(* What a reader holds stays.                                              *)
LEMMA ReaderStays ==
    ASSUME Grows, ReaderHeld, reader' = reader
    PROVE  ReaderHeld'
BY DEF ReaderHeld, Grows, After, Known

-----------------------------------------------------------------------------
(* The lane, and where payloads are.                                       *)

Placed == runnable \cup Parked

(* A step of the lane keeps the lane's invariants (LaneProofs).            *)
LEMMA LaneSteps ==
    ASSUME TypeOK, OneEntry, OwnerRuns, [Next]_vars
    PROVE  TypeOK' /\ OneEntry' /\ OwnerRuns'
BY NextInv DEF Inv

(* Nothing changes for the owners.                                         *)
LEMMA SameOwners ==
    ASSUME UNCHANGED owners
    PROVE  /\ TypeOK => TypeOK'
           /\ OneEntry => OneEntry'
           /\ OwnerRuns => OwnerRuns'
           /\ Placed' = Placed
BY DEF owners, TypeOK, OneEntry, OwnerRuns, Placed, Parked, Waiters

(* A release takes from the FIFO what it makes runnable, and loses no      *)
(* task.                                                                   *)
LEMMA ReleasePlaced ==
    ASSUME TypeOK, OneEntry, NEW ones \in SUBSET runnable, ReleaseLane(ones), NoNewTask
    PROVE  Placed' = (Placed \ runnable) \cup ones
           \/ \E t \in runnable \ ones : t \in runnable'
<1>1. CASE waiting = <<>>
  <2>1. waiting' = waiting /\ Waiters' = Waiters
    BY <1>1 DEF ReleaseLane, Waiters
  <2>2. ones \subseteq runnable' /\ runnable' \subseteq runnable \cup Waiters
        /\ (runnable' \ ones) \cap (runnable \cup Waiters) = {}
    BY <1>1 DEF ReleaseLane, Keep, NoNewTask
  <2>3. Parked' = Parked /\ Parked \cap runnable = {}
    BY <2>1 DEF Parked, OneEntry
  <2>4. QED
    BY <2>2, <2>3 DEF Placed
<1>2. CASE waiting # <<>>
  <2>1. /\ waiting' = Tail(waiting)
        /\ Keep(ones \cup Resumed(Head(waiting)))
        /\ waiting \in Seq(Owner)
        /\ \A i, j \in DOMAIN waiting : waiting[i] = waiting[j] => i = j
    BY <1>2 DEF ReleaseLane, TypeOK, OneEntry
  <2>2. Head(waiting) \in Waiters /\ Waiters' = Waiters \ {Head(waiting)}
    BY <1>2, <2>1, Popped
  <2>3. /\ ones \cup ({Head(waiting)} \cap Task) \subseteq runnable'
        /\ runnable' \subseteq runnable \cup Waiters
        /\ (runnable' \ (ones \cup ({Head(waiting)} \cap Task))) \cap (runnable \cup Waiters) = {}
    BY <2>1 DEF Keep, Resumed, NoNewTask
  <2>4. runnable' = ones \cup ({Head(waiting)} \cap Task)
    BY <2>3
  <2>5. Waiters \cap runnable = {}
    BY DEF OneEntry
  <2>6. QED
    BY <2>2, <2>4, <2>5 DEF Placed, Parked
<1>3. QED
    BY <1>1, <1>2

(* A task that acquires the lane or parks has changed its place only.      *)
LEMMA AcquirePlaced ==
    ASSUME TypeOK, OneEntry, NEW t \in Task, TaskTake(t) \/ TaskPark(t)
    PROVE  Placed' = Placed
<1>1. CASE TaskTake(t)
    BY <1>1 DEF TaskTake, Placed, Parked, Waiters
<1>2. CASE TaskPark(t)
  <2>1. /\ t \in Owner /\ t \notin Waiters /\ waiting' = Append(waiting, t)
        /\ runnable' = runnable \ {t} /\ t \in runnable /\ waiting \in Seq(Owner)
    BY <1>2 DEF TaskPark, OneEntry, TypeOK, Owner
  <2>2. Waiters' = Waiters \cup {t}
    BY <2>1, Pushed DEF OneEntry
  <2>3. QED
    BY <2>1, <2>2 DEF Placed, Parked
<1>3. QED
    BY <1>1, <1>2

(* An owner that is no task moves no task.                                 *)
LEMMA ScalarPlaced ==
    ASSUME TypeOK, OneEntry, NEW s \in Scalar, ScalarTake(s) \/ ScalarWait(s)
    PROVE  Placed' = Placed
<1>1. CASE ScalarTake(s)
    BY <1>1 DEF ScalarTake, Placed, Parked, Waiters
<1>2. CASE ScalarWait(s)
  <2>1. /\ s \in Owner /\ s \notin Waiters /\ waiting' = Append(waiting, s)
        /\ runnable' = runnable /\ waiting \in Seq(Owner) /\ s \notin Task
    BY <1>2, LaneOwnersDistinct DEF ScalarWait, OneEntry, TypeOK, Owner
  <2>2. Waiters' = Waiters \cup {s}
    BY <2>1, Pushed DEF OneEntry
  <2>3. QED
    BY <2>1, <2>2 DEF Placed, Parked
<1>3. QED
    BY <1>1, <1>2

(* The running task stays runnable when it releases the lane.              *)
LEMMA ReleasesPlaced ==
    ASSUME TypeOK, OneEntry, Release, NoNewTask
    PROVE  Placed' = Placed
BY ReleasePlaced DEF Release, Placed

(* Of the tasks only the one that has finished is gone.                    *)
LEMMA FinishPlaced ==
    ASSUME TypeOK, OneEntry, NEW t \in Task, Finish(t), NoNewTask
    PROVE  Placed' = Placed \ {t}
<1>1. t \in runnable /\ t \notin Parked
    BY DEF Finish, OneEntry, Parked
<1>2. CASE lane = t
  <2>1. ReleaseLane(runnable \ {t})
    BY <1>2 DEF Finish
  <2>2. t \notin runnable'
    <3>1. CASE waiting = <<>>
      BY <1>1, <2>1, <3>1 DEF ReleaseLane, Keep
    <3>2. CASE waiting # <<>>
      <4>1. Head(waiting) \in Waiters
        BY <3>2 DEF TypeOK, Waiters
      <4>2. QED
        BY <1>1, <2>1, <3>2, <4>1 DEF ReleaseLane, Keep, Resumed, OneEntry
    <3>3. QED
      BY <3>1, <3>2
  <2>3. Placed' = (Placed \ runnable) \cup (runnable \ {t})
    BY <2>1, <2>2, ReleasePlaced
  <2>4. QED
    BY <1>1, <2>3 DEF Placed
<1>3. CASE lane # t
  <2>1. Keep(runnable \ {t}) /\ waiting' = waiting
    BY <1>3 DEF Finish
  <2>2. runnable' = runnable \ {t}
    BY <1>1, <2>1 DEF Keep, NoNewTask
  <2>3. QED
    BY <1>1, <2>1, <2>2 DEF Placed, Parked, Waiters
<1>4. QED
    BY <1>2, <1>3

-----------------------------------------------------------------------------
(* The stores after a step.                                                *)

(* Conditions are made, and rows that carry them.                          *)
LEMMA MoreConditions ==
    ASSUME StoreSound, NEW rows \in SUBSET Condition, NEW conditions \in SUBSET Guard,
           rows \subseteq heap.conditions \cup conditions,
           heap' = [rows |-> heap.rows \cup rows,
                    conditions |-> heap.conditions \cup (conditions \ {True}), book |-> heap.book]
    PROVE  StoreSound' /\ Grows
<1>1. heap'.rows = heap.rows \cup rows /\ heap'.book = heap.book
      /\ heap'.conditions = heap.conditions \cup (conditions \ {True})
    OBVIOUS
<1>2. heap' \in Store
    BY DEF StoreSound, Store, Guard
<1>3. After(heap.book, heap'.book)
    BY <1>1, AfterItself DEF StoreSound
<1>4. heap'.rows \subseteq heap'.conditions
    BY <1>1, NoneAndTrueApart DEF StoreSound
<1>5. QED
    BY <1>1, <1>2, <1>3, <1>4 DEF StoreSound, Grows, Known

(* How the heap looks with new conditions and another table.               *)
LEMMA HeapRecord ==
    ASSUME heap \in Store, NEW conditions, NEW book, NEW h, h = WithConditions(heap, conditions)
    PROVE  /\ h = [rows |-> heap.rows, conditions |-> heap.conditions \cup (conditions \ {True}),
                   book |-> heap.book]
           /\ WithBook(h, book) = [rows |-> heap.rows, conditions |-> heap.conditions \cup (conditions \ {True}),
                   book |-> book]
           /\ WithBook(heap, book) = [rows |-> heap.rows, conditions |-> heap.conditions, book |-> book]
<1>1. heap = [rows |-> heap.rows, conditions |-> heap.conditions, book |-> heap.book]
    BY DEF Store
<1>2. h = [rows |-> heap.rows, conditions |-> heap.conditions \cup (conditions \ {True}),
           book |-> heap.book]
    BY <1>1 DEF WithConditions
<1>3. WithBook(h, book) = [rows |-> heap.rows, conditions |-> heap.conditions \cup (conditions \ {True}),
                           book |-> book]
    BY <1>2 DEF WithBook
<1>4. QED
    BY <1>1, <1>2, <1>3 DEF WithBook

(* What is left of a body names its guard.                                 *)
LEMMA PartsAreParts ==
    ASSUME NEW body \in Body
    PROVE  /\ Parts(body) \in Body \cup {None}
           /\ Parts(body) # None => Parts(body).guard = body.guard
BY DEF Parts, Body

(* What a map tells of one task.                                           *)
LEMMA TellsOf ==
    ASSUME NEW book, NEW map, NEW t \in DOMAIN map
    PROVE  Remaining(book, map)[t] = IF map[t] = None THEN None ELSE book.descriptors[map[t]].parts
BY DEF Remaining

(* The descriptor of a task is one of the map's.                           *)
LEMMA BodiesOf ==
    ASSUME NEW map, NEW t \in DOMAIN map, map[t] # None
    PROVE  map[t] \in Bodies(map)
BY DEF Bodies, Range

(* The record of one body is made or brought up to date.                   *)
LEMMA OneBody ==
    ASSUME StoreSound, pending \in PendingMap, OwnBodies(pending),
           Bodies(pending) \subseteq LiveIn(heap.book),
           NEW t \in Task, NEW previous, NEW body \in Body,
           previous = None \/ (t \in DOMAIN pending /\ previous = pending[t]),
           NEW conditions \in SUBSET Guard, body.guard \in Known \cup conditions,
           NEW r \in Updated(heap.book, previous, Parts(body)),
           heap' = [rows |-> heap.rows, conditions |-> heap.conditions \cup (conditions \ {True}),
                    book |-> r.book],
           pending' = [u \in DOMAIN pending \cup {t} |-> IF u = t THEN r.body ELSE pending[u]]
    PROVE  /\ StoreSound' /\ Grows
           /\ pending' \in PendingMap /\ OwnBodies(pending')
           /\ Bodies(pending') \subseteq LiveIn(heap'.book)
           /\ Remaining(heap'.book, pending')[t] = Parts(body)
           /\ \A u \in DOMAIN pending \ {t} :
                 Remaining(heap'.book, pending')[u] = Remaining(heap.book, pending)[u]
<1>1. previous \in LiveIn(heap.book) \cup {None}
    BY BodiesOf
<1>2. PICK b, d : b = r.book /\ d = r.body
    OBVIOUS
<1>3. PICK p \in Body \cup {None} : p = Parts(body)
    BY PartsAreParts
<1>4. IsBook(heap.book) /\ heap \in Store
    BY DEF StoreSound
<1>5. /\ After(heap.book, b) /\ b.epoch = heap.book.epoch
      /\ d \in LiveIn(b) \cup {None}
      /\ LiveIn(b) = LiveIn(heap.book) \cup ({d} \ {None})
      /\ d # None => b.descriptors[d].parts = p
      /\ d = None => p = None /\ previous = None
      /\ d \in {None, previous} \/ d \notin LiveIn(heap.book)
      /\ \A e \in Descriptor : e # d => b.descriptors[e] = heap.book.descriptors[e]
    BY <1>1, <1>2, <1>3, <1>4, UpdatedBook
<1>6. LiveIn(b) \subseteq Descriptor /\ LiveIn(heap.book) \subseteq Descriptor
    BY DEF LiveIn
<1>7. /\ heap'.rows = heap.rows /\ heap'.book = b
      /\ heap'.conditions = heap.conditions \cup (conditions \ {True})
    BY <1>2
<1>8. heap' \in Store
  <2>1. b \in Table
    BY <1>5 DEF After, IsBook
  <2>2. QED
    BY <1>2, <1>4, <2>1 DEF Store, Guard
<1>9. Grows
    BY <1>5, <1>7 DEF Grows
<1>10. StoreSound'
  <2>1. ASSUME NEW e \in LiveIn(b), b.descriptors[e].parts # None
        PROVE  b.descriptors[e].parts.guard \in Known'
    <3>1. CASE e = d
      <4>1. b.descriptors[e].parts = p /\ p = Parts(body) /\ p # None
        BY <1>3, <1>5, <1>6, <2>1, <3>1, NoneAndTrueApart
      <4>2. p.guard = body.guard
        BY <4>1, PartsAreParts
      <4>3. QED
        BY <1>7, <4>1, <4>2 DEF Known
    <3>2. CASE e # d
      <4>1. e \in LiveIn(heap.book) /\ b.descriptors[e] = heap.book.descriptors[e]
        BY <1>5, <1>6, <3>2
      <4>2. QED
        BY <1>7, <2>1, <4>1 DEF StoreSound, Known
    <3>3. QED
      BY <3>1, <3>2
  <2>2. heap'.rows \subseteq heap'.conditions
    BY <1>7 DEF StoreSound
  <2>3. QED
    BY <1>5, <1>7, <1>8, <2>1, <2>2 DEF StoreSound, After
<1>11. PICK m : m = pending'
    OBVIOUS
<1>12. /\ DOMAIN m = DOMAIN pending \cup {t} /\ m[t] = d
       /\ \A u \in DOMAIN pending \ {t} : m[u] = pending[u]
    BY <1>2, <1>11
<1>13. pending' \in PendingMap
  <2>1. DOMAIN pending \in SUBSET Task /\ pending \in [DOMAIN pending -> Descriptor \cup {None}]
    BY MapIs DEF PendingMap
  <2>2. d \in Descriptor \cup {None}
    BY <1>5, <1>6
  <2>3. pending' \in [DOMAIN pending \cup {t} -> Descriptor \cup {None}]
    BY <1>2, <2>1, <2>2
  <2>4. PICK T \in SUBSET Task : T = DOMAIN pending \cup {t}
    BY <2>1
  <2>5. m \in [T -> Descriptor \cup {None}]
    BY <1>11, <2>3, <2>4
  <2>6. QED
    BY <1>11, <2>5, IsMap DEF PendingMap
<1>14. \A u \in DOMAIN pending : pending[u] # None => pending[u] \in LiveIn(heap.book)
    BY BodiesOf
<1>15. \A u \in DOMAIN pending \ {t} : pending[u] # None => pending[u] # d
  <2> SUFFICES ASSUME NEW u \in DOMAIN pending \ {t}, pending[u] # None, pending[u] = d PROVE FALSE
      OBVIOUS
  <2>1. d \in LiveIn(heap.book) /\ d = previous
    BY <1>5, <1>14
  <2>2. QED
    BY <2>1 DEF OwnBodies
<1>16. OwnBodies(m)
    BY <1>12, <1>15 DEF OwnBodies
<1>17. Bodies(m) \subseteq LiveIn(b)
  <2> SUFFICES ASSUME NEW u \in DOMAIN m, m[u] # None PROVE m[u] \in LiveIn(b)
      BY DEF Bodies, Range
  <2>1. QED
    BY <1>5, <1>12, <1>14
<1>18. Remaining(b, m)[t] = p
    BY <1>5, <1>12, TellsOf
<1>19. \A u \in DOMAIN pending \ {t} : Remaining(b, m)[u] = Remaining(heap.book, pending)[u]
  <2> TAKE u \in DOMAIN pending \ {t}
  <2>1. m[u] = pending[u] /\ u \in DOMAIN m
    BY <1>12
  <2>2. pending[u] # None => b.descriptors[pending[u]] = heap.book.descriptors[pending[u]]
    BY <1>5, <1>6, <1>14, <1>15
  <2>3. QED
    BY <2>1, <2>2, TellsOf
<1>20. QED
    BY <1>3, <1>7, <1>9, <1>10, <1>11, <1>13, <1>16, <1>17, <1>18, <1>19

-----------------------------------------------------------------------------
(* The steps of a run that is not canceled.                                *)

Running == ~Canceled /\ UNCHANGED <<syntax, cancel, collector>>

(* What a step keeps, and that a choice that is born stays.                *)
Kept == SourceInv' /\ Grows /\ (birth' = None => birth = None)

(* What a tick of a run has to show: nothing of a cancellation changes.    *)
LEMMA RunningKeeps ==
    ASSUME SourceInv, Running, SourceTypes', StoreSound', TypeOK', OneEntry', OwnerRuns',
           Live' = Placed', Live' \subseteq DOMAIN pending',
           ~syntax.done => \A t \in DOMAIN pending' : pending'[t] = None,
           StateHeld', ReaderHeld', BodiesTold'
    PROVE  SourceInv'
<1>1. Places'
    BY DEF Places, Placed
<1>2. Stages'
    BY DEF Stages, SourceInv, Running, Canceled, Released, Early, Idle
<1>3. QED
    BY <1>1, <1>2 DEF SourceInv

(* What is known where a task runs.                                        *)
LEMMA Runner ==
    ASSUME SourceInv, ~Canceled
    PROVE  /\ TypeOK /\ OneEntry /\ OwnerRuns /\ Live = Placed
           /\ Live \subseteq DOMAIN pending /\ DOMAIN pending \in SUBSET Task
           /\ pending \in [DOMAIN pending -> Descriptor \cup {None}]
           /\ \A t \in Live : tasks[t] \in Payload /\ tasks[t].body \in Body /\ PayloadHeld(tasks[t])
           /\ runnable \subseteq Live
           /\ heap \in Store
<1>1. Early /\ ~Released
    BY DEF Canceled, Early, Released
<1>2. \A t \in Live : tasks[t] \in Payload
    BY DEF SourceInv, SourceTypes, Live
<1>3. DOMAIN pending \in SUBSET Task /\ pending \in [DOMAIN pending -> Descriptor \cup {None}]
    BY MapIs DEF SourceInv, SourceTypes, PendingMap
<1>4. QED
    BY <1>1, <1>2, <1>3 DEF SourceInv, Places, Stages, Placed, StateHeld, StoreSound, Payload

(* A task works on its body: one record at most is made or changed.        *)
LEMMA WorkKeeps ==
    ASSUME SourceInv, Running, NEW t \in runnable, Work(t)
    PROVE  Kept
<1>0. PICK guard \in {tasks[t].body.guard, True} \cup Fresh, step \in {0, 1} :
        LET body == [at |-> tasks[t].body.at + step, guard |-> guard]
        IN /\ body.at <= MaxProgress
           /\ \E r \in Synced(t, body) :
                /\ heap' = WithBook(WithConditions(heap, {guard}), r.book)
                /\ pending' = [pending EXCEPT ![t] = r.body]
           /\ tasks' = [tasks EXCEPT ![t].body = body]
           /\ UNCHANGED <<owners, graph, birth, reader>>
    BY DEF Work
<1>1. PICK body :
        /\ body = [at |-> tasks[t].body.at + step, guard |-> guard]
        /\ body.at <= MaxProgress
        /\ \E r \in Synced(t, body) :
                /\ heap' = WithBook(WithConditions(heap, {guard}), r.book)
                /\ pending' = [pending EXCEPT ![t] = r.body]
        /\ tasks' = [tasks EXCEPT ![t].body = body]
        /\ UNCHANGED <<owners, graph, birth, reader>>
    BY <1>0
<1>2. PICK r \in Synced(t, body) :
        /\ heap' = WithBook(WithConditions(heap, {guard}), r.book)
        /\ pending' = [pending EXCEPT ![t] = r.body]
    BY <1>1
<1>3. /\ TypeOK /\ OneEntry /\ OwnerRuns /\ Live = Placed
      /\ Live \subseteq DOMAIN pending /\ DOMAIN pending \in SUBSET Task
      /\ pending \in [DOMAIN pending -> Descriptor \cup {None}]
      /\ t \in Live /\ tasks[t] \in Payload /\ tasks[t].body \in Body /\ PayloadHeld(tasks[t])
      /\ heap \in Store
    BY Runner DEF Running
<1>4. guard \in Guard /\ guard \in Known \cup Fresh
    BY <1>1, <1>3 DEF Fresh, Body, Guard, PayloadHeld, Known
<1>5. body \in Body /\ body.guard = guard
  <2>1. tasks[t].body.at \in Nat /\ MaxProgress \in Nat
    BY <1>3, HeapBounds DEF Body
  <2>2. tasks[t].body.at + step \in 0 .. MaxProgress
    BY <1>1, <2>1
  <2>3. QED
    BY <1>1, <1>4, <2>2 DEF Body
<1>6. heap' = [rows |-> heap.rows, conditions |-> heap.conditions \cup ({guard} \ {True}),
               book |-> r.book]
  <2>1. PICK h : h = WithConditions(heap, {guard})
    OBVIOUS
  <2>2. QED
    BY <1>2, <1>3, <2>1, HeapRecord
<1>7. tasks' = [tasks EXCEPT ![t] = [@ EXCEPT !.body = body]]
    BY <1>1
<1>8. /\ tasks'[t] \in Payload /\ tasks'[t].body = body /\ tasks'[t].root = tasks[t].root
      /\ \A u \in Task \ {t} : tasks'[u] = tasks[u]
      /\ tasks' \in [Task -> Payload \cup {None}]
  <2>1. tasks \in [Task -> Payload \cup {None}] /\ t \in Task
    BY <1>3 DEF SourceInv, SourceTypes, Live
  <2>2. [tasks[t] EXCEPT !.body = body] \in Payload
        /\ [tasks[t] EXCEPT !.body = body].body = body
        /\ [tasks[t] EXCEPT !.body = body].root = tasks[t].root
    BY <1>3, <1>5 DEF Payload
  <2>3. QED
    BY <1>7, <2>1, <2>2
<1>9. Live' = Live
    BY <1>3, <1>8, NoneAndTrueApart DEF Live
<1>10. /\ StoreSound' /\ Grows
       /\ pending' \in PendingMap /\ DOMAIN pending' = DOMAIN pending /\ OwnBodies(pending')
       /\ Bodies(pending') \subseteq LiveIn(heap'.book)
       /\ syntax.done => /\ Remaining(heap'.book, pending')[t] = Parts(body)
                         /\ \A u \in DOMAIN pending \ {t} :
                               Remaining(heap'.book, pending')[u] = Remaining(heap.book, pending)[u]
       /\ ~syntax.done => pending' = pending
  <2>0. /\ StoreSound /\ pending \in PendingMap /\ OwnBodies(pending)
        /\ Bodies(pending) \subseteq LiveIn(heap.book)
    BY DEF SourceInv, SourceTypes, StateHeld
  <2>1. CASE syntax.done
    <3>1. r \in Updated(heap.book, pending[t], Parts(body))
      BY <2>1 DEF Synced
    <3>2. pending' = [u \in DOMAIN pending \cup {t} |-> IF u = t THEN r.body ELSE pending[u]]
      BY <1>2, <1>3
    <3>3. /\ StoreSound' /\ Grows
          /\ pending' \in PendingMap /\ OwnBodies(pending')
          /\ Bodies(pending') \subseteq LiveIn(heap'.book)
          /\ Remaining(heap'.book, pending')[t] = Parts(body)
          /\ \A u \in DOMAIN pending \ {t} :
                 Remaining(heap'.book, pending')[u] = Remaining(heap.book, pending)[u]
      <4>1. PICK previous, conditions : previous = pending[t] /\ conditions = {guard}
        OBVIOUS
      <4>2. /\ previous = None \/ (t \in DOMAIN pending /\ previous = pending[t])
            /\ conditions \in SUBSET Guard /\ body.guard \in Known \cup conditions
            /\ r \in Updated(heap.book, previous, Parts(body))
            /\ heap' = [rows |-> heap.rows, conditions |-> heap.conditions \cup (conditions \ {True}),
                        book |-> r.book]
            /\ t \in Task
        BY <1>3, <1>4, <1>5, <1>6, <3>1, <4>1
      <4>3. QED
        BY <1>5, <2>0, <3>2, <4>2, OneBody
    <3>4. DOMAIN pending' = DOMAIN pending
      BY <1>2
    <3>5. QED
      BY <2>1, <3>3, <3>4
  <2>2. CASE ~syntax.done
    <3>1. r.book = heap.book /\ r.body = pending[t]
      BY <2>2 DEF Synced
    <3>2. pending' = pending
      BY <1>2, <1>3, <3>1
    <3>3. StoreSound' /\ Grows
      <4>1. PICK rows, conditions : rows = {} /\ conditions = {guard}
        OBVIOUS
      <4>2. /\ rows \in SUBSET Condition /\ conditions \in SUBSET Guard
            /\ rows \subseteq heap.conditions \cup conditions
            /\ heap' = [rows |-> heap.rows \cup rows,
                        conditions |-> heap.conditions \cup (conditions \ {True}), book |-> heap.book]
        BY <1>4, <1>6, <3>1, <4>1
      <4>3. QED
        BY <2>0, <4>2, MoreConditions
    <3>4. Bodies(pending') \subseteq LiveIn(heap'.book)
      BY <2>0, <3>1, <3>2, <1>6
    <3>5. QED
      BY <2>0, <2>2, <3>2, <3>3, <3>4
  <2>3. QED
    BY <2>1, <2>2
<1>11. guard \in Known'
    BY <1>6 DEF Known
<1>12. StateHeld'
  <2>1. ASSUME NEW u \in Live' PROVE PayloadHeld(tasks[u])'
    <3>1. PayloadHeld(tasks[u]) /\ u \in Task
      BY <1>9 DEF SourceInv, StateHeld, Live
    <3>2. tasks'[u].root = tasks[u].root /\ (u # t => tasks'[u] = tasks[u])
      BY <1>8, <3>1
    <3>3. CASE u = t
      BY <1>5, <1>8, <1>10, <1>11, <3>1, <3>2, <3>3 DEF PayloadHeld, Grows
    <3>4. CASE u # t
      BY <1>10, <3>1, <3>2, <3>4 DEF PayloadHeld, Grows, Known
    <3>5. QED
      BY <3>3, <3>4
  <2>2. graph' \subseteq heap'.rows /\ birth' \in heap'.conditions \cup {None}
    BY <1>1, <1>10 DEF SourceInv, StateHeld, Grows
  <2>3. QED
    BY <1>10, <2>1, <2>2 DEF StateHeld
<1>13. ReaderHeld'
    BY <1>1, <1>10, ReaderStays DEF SourceInv
<1>14. BodiesTold'
  <2> SUFFICES ASSUME syntax.done, NEW u \in Live
               PROVE  Remaining(heap'.book, pending')[u] = Parts(tasks'[u].body)
      BY <1>9 DEF BodiesTold, Running
  <2>1. u \in DOMAIN pending /\ (u # t => tasks'[u] = tasks[u])
    BY <1>3, <1>8 DEF Live
  <2>2. Remaining(heap.book, pending)[u] = Parts(tasks[u].body)
    BY DEF SourceInv, BodiesTold, Running
  <2>3. QED
    <3>1. CASE u = t
      BY <1>8, <1>10, <3>1
    <3>2. CASE u # t
      BY <1>8, <1>10, <2>1, <2>2, <3>2
    <3>3. QED
      BY <3>1, <3>2
<1>15. SourceTypes'
    BY <1>1, <1>8, <1>10 DEF SourceInv, SourceTypes
<1>16. TypeOK' /\ OneEntry' /\ OwnerRuns' /\ Placed' = Placed
    BY <1>1, <1>3, SameOwners
<1>17. ~syntax.done => \A u \in DOMAIN pending' : pending'[u] = None
    BY <1>10 DEF SourceInv, Stages, Running
<1>18. SourceInv'
    BY <1>3, <1>9, <1>10, <1>12, <1>13, <1>14, <1>15, <1>16, <1>17, RunningKeeps
<1>19. QED
    BY <1>1, <1>10, <1>18 DEF Kept

(* The bodies and their records stay as they are.                          *)
LEMMA QuietKeeps ==
    ASSUME SourceInv, Running, NEW rows \in SUBSET Condition, NEW conditions \in SUBSET Guard,
           rows \subseteq heap.conditions \cup conditions,
           heap' = [rows |-> heap.rows \cup rows,
                    conditions |-> heap.conditions \cup (conditions \ {True}), book |-> heap.book],
           pending' = pending, tasks' \in [Task -> Payload \cup {None}], Live' = Live,
           \A u \in Live : tasks'[u].body = tasks[u].body /\ tasks'[u].root \subseteq heap'.rows,
           graph' \in SUBSET Condition, graph' \subseteq heap'.rows,
           birth' \in Condition \cup {None}, birth' \in heap'.conditions \cup {None},
           birth' = None => birth = None,
           reader' \in Reading \cup {None}, reader' = reader \/ ReaderHeld',
           TypeOK', OneEntry', OwnerRuns', Placed' = Placed
    PROVE  Kept
<1>1. StoreSound' /\ Grows
    BY MoreConditions DEF SourceInv
<1>2. heap'.book = heap.book
    OBVIOUS
<1>3. StateHeld'
  <2>1. ASSUME NEW u \in Live' PROVE PayloadHeld(tasks[u])'
    <3>1. PayloadHeld(tasks[u]) /\ u \in Live
      BY DEF SourceInv, StateHeld
    <3>2. QED
      BY <1>1, <3>1 DEF PayloadHeld, Grows, Known
  <2>2. QED
    BY <1>2, <2>1 DEF SourceInv, StateHeld
<1>4. ReaderHeld'
    BY <1>1, ReaderStays DEF SourceInv
<1>5. BodiesTold'
    BY <1>2 DEF SourceInv, BodiesTold, Running, Canceled
<1>6. SourceTypes'
    BY DEF SourceInv, SourceTypes
<1>7. Live = Placed /\ Live \subseteq DOMAIN pending
    BY Runner DEF Running
<1>8. ~syntax.done => \A u \in DOMAIN pending' : pending'[u] = None
    BY DEF SourceInv, Stages, Running
<1>9. SourceInv'
    BY <1>1, <1>3, <1>4, <1>5, <1>6, <1>7, <1>8, RunningKeeps
<1>10. QED
    BY <1>1, <1>9 DEF Kept

(* A heap that stays is one with nothing new.                              *)
LEMMA SameHeap ==
    ASSUME heap \in Store, heap' = heap
    PROVE  heap' = [rows |-> heap.rows \cup {}, conditions |-> heap.conditions \cup ({} \ {True}),
                    book |-> heap.book]
BY DEF Store

(* Of source and heap nothing changes.                                     *)
LEMMA StillKeeps ==
    ASSUME SourceInv, Running, UNCHANGED <<source, heap>>,
           TypeOK', OneEntry', OwnerRuns', Placed' = Placed
    PROVE  Kept
<1>1. PICK rows, conditions : rows = {} /\ conditions = {}
    OBVIOUS
<1>2. /\ tasks' = tasks /\ graph' = graph /\ pending' = pending /\ birth' = birth /\ reader' = reader
      /\ heap' = heap /\ heap \in Store
    BY DEF source, SourceInv, StoreSound
<1>3. heap' = [rows |-> heap.rows \cup rows,
               conditions |-> heap.conditions \cup (conditions \ {True}), book |-> heap.book]
    BY <1>1, <1>2 DEF Store
<1>4. /\ tasks' \in [Task -> Payload \cup {None}] /\ Live' = Live
      /\ \A u \in Live : tasks'[u].body = tasks[u].body /\ tasks'[u].root \subseteq heap'.rows
      /\ graph' \in SUBSET Condition /\ graph' \subseteq heap'.rows
      /\ birth' \in Condition \cup {None} /\ birth' \in heap'.conditions \cup {None}
      /\ reader' \in Reading \cup {None}
    BY <1>2 DEF SourceInv, SourceTypes, StateHeld, PayloadHeld, Live
<1>5. rows \in SUBSET Condition /\ conditions \in SUBSET Guard /\ rows \subseteq heap.conditions \cup conditions
    BY <1>1
<1>6. QED
    BY <1>2, <1>3, <1>4, <1>5, QuietKeeps

(* A row is posted under a condition that is there or made for it.         *)
LEMMA PostKeeps ==
    ASSUME SourceInv, Running, NEW t \in runnable, Post(t)
    PROVE  Kept
<1>1. PICK c \in ({tasks[t].body.guard} \ {True}) \cup Fresh :
        /\ graph' = graph \cup {c}
        /\ heap' = WithConditions([heap EXCEPT !.rows = @ \cup {c}], {c})
    BY DEF Post
<1>2. tasks' = [tasks EXCEPT ![t].root = graph'] /\ UNCHANGED <<owners, pending, birth, reader>>
    BY DEF Post
<1>3. /\ TypeOK /\ OneEntry /\ OwnerRuns
      /\ t \in Live /\ tasks[t] \in Payload /\ tasks[t].body \in Body
      /\ heap \in Store
    BY Runner DEF Running
<1>4. c \in Condition
    BY <1>1, <1>3 DEF Fresh, Body, Guard
<1>5. PICK rows, conditions : rows = {c} /\ conditions = {c}
    OBVIOUS
<1>6. heap' = [rows |-> heap.rows \cup rows,
               conditions |-> heap.conditions \cup (conditions \ {True}), book |-> heap.book]
    BY <1>1, <1>3, <1>5 DEF Store, WithConditions
<1>7. /\ graph' \in SUBSET Condition /\ graph' \subseteq heap'.rows
    BY <1>1, <1>4, <1>5, <1>6 DEF SourceInv, SourceTypes, StateHeld
<1>8. /\ tasks'[t].body = tasks[t].body /\ tasks'[t].root = graph' /\ tasks'[t] \in Payload
      /\ \A u \in Task \ {t} : tasks'[u] = tasks[u]
      /\ tasks' \in [Task -> Payload \cup {None}]
  <2>1. tasks \in [Task -> Payload \cup {None}] /\ t \in Task
    BY <1>3 DEF SourceInv, SourceTypes, Live
  <2>2. tasks' = [tasks EXCEPT ![t] = [@ EXCEPT !.root = graph']]
    BY <1>2
  <2>3. /\ [tasks[t] EXCEPT !.root = graph'] \in Payload
        /\ [tasks[t] EXCEPT !.root = graph'].root = graph'
        /\ [tasks[t] EXCEPT !.root = graph'].body = tasks[t].body
    BY <1>3, <1>7 DEF Payload
  <2>4. QED
    BY <2>1, <2>2, <2>3
<1>9. Live' = Live
    BY <1>3, <1>8, NoneAndTrueApart DEF Live
<1>10. \A u \in Live : tasks'[u].body = tasks[u].body /\ tasks'[u].root \subseteq heap'.rows
    BY <1>6, <1>7, <1>8 DEF SourceInv, StateHeld, PayloadHeld, Live
<1>11. TypeOK' /\ OneEntry' /\ OwnerRuns' /\ Placed' = Placed
    BY <1>2, <1>3, SameOwners
<1>12. /\ birth' = birth /\ birth' \in Condition \cup {None} /\ birth' \in heap'.conditions \cup {None}
       /\ reader' = reader /\ reader' \in Reading \cup {None} /\ pending' = pending
    BY <1>2, <1>6 DEF SourceInv, SourceTypes, StateHeld
<1>13. rows \in SUBSET Condition /\ conditions \in SUBSET Guard /\ rows \subseteq heap.conditions \cup conditions
    BY <1>4, <1>5 DEF Guard
<1>14. QED
    BY <1>6, <1>7, <1>8, <1>9, <1>10, <1>11, <1>12, <1>13, QuietKeeps

(* Tasks, graph and bodies stay, conditions may be made.                   *)
LEMMA LookKeeps ==
    ASSUME SourceInv, Running, NEW conditions \in SUBSET Guard,
           heap' = WithConditions(heap, conditions), UNCHANGED <<owners, tasks, graph, pending>>,
           birth' \in Condition \cup {None}, birth' \in heap'.conditions \cup {None},
           birth' = None => birth = None,
           reader' \in Reading \cup {None}, reader' = reader \/ ReaderHeld'
    PROVE  Kept
<1>1. PICK rows : rows = {}
    OBVIOUS
<1>2. heap \in Store /\ TypeOK /\ OneEntry /\ OwnerRuns
    BY Runner DEF Running
<1>3. heap' = [rows |-> heap.rows \cup rows,
               conditions |-> heap.conditions \cup (conditions \ {True}), book |-> heap.book]
    BY <1>1, <1>2 DEF Store, WithConditions
<1>4. /\ tasks' \in [Task -> Payload \cup {None}] /\ Live' = Live
      /\ \A u \in Live : tasks'[u].body = tasks[u].body /\ tasks'[u].root \subseteq heap'.rows
      /\ graph' \in SUBSET Condition /\ graph' \subseteq heap'.rows
    BY <1>1, <1>3 DEF SourceInv, SourceTypes, StateHeld, PayloadHeld, Live
<1>5. TypeOK' /\ OneEntry' /\ OwnerRuns' /\ Placed' = Placed
    BY <1>2, SameOwners
<1>6. rows \in SUBSET Condition /\ rows \subseteq heap.conditions \cup conditions
    BY <1>1
<1>7. QED
    BY <1>3, <1>4, <1>5, <1>6, QuietKeeps

(* A choice is born of a condition that is made for it.                    *)
LEMMA BearKeeps ==
    ASSUME SourceInv, Running, NEW t \in runnable, Bear(t)
    PROVE  Kept
<1>1. /\ birth = None /\ birth' \in Fresh /\ heap' = WithConditions(heap, {birth'})
      /\ UNCHANGED <<owners, tasks, graph, pending>> /\ reader' = reader
    BY DEF Bear
<1>2. PICK c : c = birth'
    OBVIOUS
<1>3. PICK conditions : conditions = {c}
    OBVIOUS
<1>4. c \in Condition /\ conditions \in SUBSET Guard /\ heap' = WithConditions(heap, conditions)
    BY <1>1, <1>2, <1>3 DEF Fresh, Guard
<1>5. heap \in Store
    BY Runner DEF Running
<1>6. c \in heap'.conditions
    BY <1>3, <1>4, <1>5, NoneAndTrueApart DEF Store, WithConditions
<1>7. reader' \in Reading \cup {None}
    BY <1>1 DEF SourceInv, SourceTypes
<1>8. birth' \in Condition \cup {None} /\ birth' \in heap'.conditions \cup {None}
    BY <1>2, <1>4, <1>6
<1>9. QED
    BY <1>1, <1>4, <1>7, <1>8, LookKeeps

(* A reader starts from what is there.                                     *)
LEMMA ReadKeeps ==
    ASSUME SourceInv, Running, Read
    PROVE  Kept
<1>1. /\ UNCHANGED <<owners, tasks, graph, pending>> /\ birth' = birth
    BY DEF Read
<1>2. PICK found \in {True} \cup Fresh :
        /\ reader' \in {[kind |-> "Ready", condition |-> found, rows |-> {},
                         descriptors |-> Bodies(pending)],
                        [kind |-> "RuleStep", condition |-> True, rows |-> {},
                         descriptors |-> Bodies(pending)],
                        [kind |-> "Observe", condition |-> True, rows |-> graph,
                         descriptors |-> {}]}
        /\ heap' = WithConditions(heap, {reader'.condition})
    BY DEF Read
<1>3. /\ graph \in SUBSET Condition /\ graph \subseteq heap.rows
      /\ Bodies(pending) \subseteq LiveIn(heap.book)
      /\ heap \in Store
    BY DEF SourceInv, SourceTypes, StateHeld, StoreSound
<1>4. LiveIn(heap.book) \subseteq Descriptor
    BY DEF LiveIn
<1>5. reader' \in Reading /\ reader'.condition \in Guard
    BY <1>2, <1>3, <1>4 DEF Reading, Guard, Fresh
<1>6. PICK conditions : conditions = {reader'.condition}
    OBVIOUS
<1>7. conditions \in SUBSET Guard /\ heap' = WithConditions(heap, conditions)
    BY <1>2, <1>5, <1>6
<1>8. /\ heap'.rows = heap.rows /\ heap'.book = heap.book
      /\ heap'.conditions = heap.conditions \cup (conditions \ {True})
    BY <1>3, <1>7 DEF WithConditions, Store
<1>9. ReaderHeld'
  <2>1. reader'.condition \in Known'
    BY <1>6, <1>8 DEF Known
  <2>2. reader'.rows \subseteq heap.rows /\ reader'.descriptors \subseteq LiveIn(heap.book)
    BY <1>2, <1>3
  <2>3. QED
    BY <1>8, <2>1, <2>2 DEF ReaderHeld
<1>10. birth' \in Condition \cup {None} /\ birth' \in heap'.conditions \cup {None}
    BY <1>1, <1>8 DEF SourceInv, SourceTypes, StateHeld
<1>11. QED
    BY <1>1, <1>5, <1>7, <1>9, <1>10, LookKeeps

(* A reader lets go.                                                       *)
LEMMA StopReadingKeeps ==
    ASSUME SourceInv, Running, StopReading
    PROVE  Kept
<1>1. PICK conditions : conditions = {}
    OBVIOUS
<1>2. /\ UNCHANGED <<owners, tasks, graph, pending>> /\ birth' = birth /\ reader' = None
      /\ heap' = heap
    BY DEF StopReading
<1>3. heap' = WithConditions(heap, conditions)
    BY <1>1, <1>2 DEF SourceInv, StoreSound, Store, WithConditions
<1>4. ReaderHeld'
    BY <1>2 DEF ReaderHeld
<1>5. birth' \in Condition \cup {None} /\ birth' \in heap'.conditions \cup {None}
    BY <1>2 DEF SourceInv, SourceTypes, StateHeld
<1>6. QED
    BY <1>1, <1>2, <1>3, <1>4, <1>5, LookKeeps

(* A task asks for the lane.                                               *)
LEMMA AcquireKeeps ==
    ASSUME SourceInv, Running, NEW t \in runnable, Acquire(t)
    PROVE  Kept
<1>1. TypeOK /\ OneEntry /\ OwnerRuns
    BY Runner DEF Running
<1>2. t \in Task /\ (TaskTake(t) \/ TaskPark(t)) /\ UNCHANGED <<source, heap>>
    BY <1>1 DEF Acquire, TypeOK
<1>3. TypeOK' /\ OneEntry' /\ OwnerRuns'
    BY <1>1, <1>2, LaneSteps DEF Next
<1>4. Placed' = Placed
    BY <1>1, <1>2, AcquirePlaced
<1>5. QED
    BY <1>2, <1>3, <1>4, StillKeeps

(* A task releases the lane.                                               *)
LEMMA LeaveKeeps ==
    ASSUME SourceInv, Running, NEW t \in runnable, Leave(t)
    PROVE  Kept
<1>1. TypeOK /\ OneEntry /\ OwnerRuns
    BY Runner DEF Running
<1>2. Release /\ NoNewTask /\ UNCHANGED <<source, heap>>
    BY DEF Leave
<1>3. TypeOK' /\ OneEntry' /\ OwnerRuns'
    BY <1>1, <1>2, LaneSteps DEF Next
<1>4. Placed' = Placed
    BY <1>1, <1>2, ReleasesPlaced
<1>5. QED
    BY <1>2, <1>3, <1>4, StillKeeps

(* A task is done: its payload and its row go together.                    *)
LEMMA CompleteKeeps ==
    ASSUME SourceInv, Running, NEW t \in runnable, Complete(t)
    PROVE  Kept
<1>1. /\ TypeOK /\ OneEntry /\ OwnerRuns /\ Live = Placed
      /\ Live \subseteq DOMAIN pending /\ DOMAIN pending \in SUBSET Task
      /\ pending \in [DOMAIN pending -> Descriptor \cup {None}]
      /\ t \in Live
    BY Runner DEF Running
<1>2. /\ t \in Task
      /\ tasks' = [tasks EXCEPT ![t] = None]
      /\ pending' = [u \in DOMAIN pending \ {t} |-> pending[u]]
      /\ Finish(t) /\ NoNewTask
      /\ graph' = graph /\ birth' = birth /\ reader' = reader /\ heap' = heap
    BY <1>1 DEF Complete, Live
<1>3. TypeOK' /\ OneEntry' /\ OwnerRuns'
    BY <1>1, <1>2, LaneSteps DEF Next
<1>4. Placed' = Placed \ {t}
    BY <1>1, <1>2, FinishPlaced
<1>5. /\ tasks \in [Task -> Payload \cup {None}] /\ StoreSound
    BY DEF SourceInv, SourceTypes
<1>6. /\ tasks' \in [Task -> Payload \cup {None}]
      /\ Live' = Live \ {t}
      /\ \A u \in Live' : u \in Live /\ tasks'[u] = tasks[u]
    BY <1>2, <1>5 DEF Live
<1>7. PICK m : m = pending'
    OBVIOUS
<1>8. /\ DOMAIN m = DOMAIN pending \ {t}
      /\ \A u \in DOMAIN m : u \in DOMAIN pending /\ m[u] = pending[u]
    BY <1>2, <1>7
<1>9. m \in PendingMap
  <2>1. PICK T \in SUBSET Task : T = DOMAIN pending \ {t}
    BY <1>1
  <2>2. m \in [T -> Descriptor \cup {None}]
    BY <1>1, <1>2, <1>7, <2>1
  <2>3. QED
    BY <2>2, IsMap DEF PendingMap
<1>10. OwnBodies(m) /\ Bodies(m) \subseteq Bodies(pending)
    BY <1>8 DEF OwnBodies, Bodies, Range, SourceInv, StateHeld
<1>11. StoreSound' /\ Grows
    BY <1>2, <1>5, SameGrows DEF StoreSound, Known
<1>12. StateHeld'
  <2>1. \A u \in Live' : PayloadHeld(tasks[u])'
    BY <1>2, <1>6 DEF SourceInv, StateHeld, PayloadHeld, Known
  <2>2. Bodies(m) \subseteq LiveIn(heap'.book)
    BY <1>2, <1>10 DEF SourceInv, StateHeld
  <2>3. graph' \subseteq heap'.rows /\ birth' \in heap'.conditions \cup {None}
    BY <1>2 DEF SourceInv, StateHeld
  <2>4. QED
    BY <1>7, <1>10, <2>1, <2>2, <2>3 DEF StateHeld
<1>13. ReaderHeld'
    BY <1>2, <1>11, ReaderStays DEF SourceInv
<1>14. BodiesTold'
  <2> SUFFICES ASSUME syntax.done, NEW u \in Live'
               PROVE  Remaining(heap'.book, pending')[u] = Parts(tasks'[u].body)
      BY DEF BodiesTold, Running
  <2>1. u \in Live /\ tasks'[u] = tasks[u] /\ u \in DOMAIN pending /\ u \in DOMAIN m
        /\ m[u] = pending[u]
    BY <1>1, <1>6, <1>8
  <2>2. Remaining(heap.book, pending)[u] = Parts(tasks[u].body)
    BY <2>1 DEF SourceInv, BodiesTold, Running
  <2>3. Remaining(heap.book, m)[u] = Remaining(heap.book, pending)[u]
    BY <2>1, TellsOf
  <2>4. QED
    BY <1>2, <1>7, <2>1, <2>2, <2>3
<1>15. SourceTypes'
    BY <1>2, <1>6, <1>7, <1>9 DEF SourceInv, SourceTypes
<1>16. ~syntax.done => \A u \in DOMAIN m : m[u] = None
    BY <1>8 DEF SourceInv, Stages, Running
<1>17. Live' = Placed' /\ Live' \subseteq DOMAIN m
    BY <1>1, <1>4, <1>6, <1>8
<1>18. SourceInv'
    BY <1>3, <1>7, <1>11, <1>12, <1>13, <1>14, <1>15, <1>16, <1>17, RunningKeeps
<1>19. QED
    BY <1>2, <1>11, <1>18 DEF Kept

(* A task is born: its payload and its row come together.                  *)
LEMMA AdmitKeeps ==
    ASSUME SourceInv, Running, NEW t \in runnable, NEW u \in Task, Admit(t, u)
    PROVE  Kept
<1>1. /\ TypeOK /\ OneEntry /\ OwnerRuns /\ Live = Placed
      /\ Live \subseteq DOMAIN pending /\ DOMAIN pending \in SUBSET Task
      /\ pending \in [DOMAIN pending -> Descriptor \cup {None}]
      /\ t \in Live /\ tasks[t] \in Payload /\ tasks[t].body \in Body /\ PayloadHeld(tasks[t])
      /\ heap \in Store
    BY Runner DEF Running
<1>2. PICK body : body = [at |-> 0, guard |-> tasks[t].body.guard]
    OBVIOUS
<1>3. /\ tasks[u] = None
      /\ tasks' = [tasks EXCEPT ![u] = [body |-> body, root |-> {}]]
      /\ \E r \in IF syntax.done THEN Updated(heap.book, None, Parts(body))
                  ELSE {[book |-> heap.book, body |-> None]} :
            /\ heap' = WithBook(heap, r.book)
            /\ pending' = [v \in DOMAIN pending \cup {u} |->
                              IF v = u THEN r.body ELSE pending[v]]
      /\ Spawn /\ runnable' = runnable \cup {u}
      /\ graph' = graph /\ birth' = birth /\ reader' = reader
    BY <1>2 DEF Admit
<1>4. PICK r \in IF syntax.done THEN Updated(heap.book, None, Parts(body))
                  ELSE {[book |-> heap.book, body |-> None]} :
            /\ heap' = WithBook(heap, r.book)
            /\ pending' = [v \in DOMAIN pending \cup {u} |->
                              IF v = u THEN r.body ELSE pending[v]]
    BY <1>3
<1>5. TypeOK' /\ OneEntry' /\ OwnerRuns'
    BY <1>1, <1>3, LaneSteps DEF Next
<1>6. Placed' = Placed \cup {u}
    BY <1>3 DEF Spawn, Placed, Parked, Waiters
<1>7. body \in Body /\ body.guard \in Known
  <2>1. 0 \in 0 .. MaxProgress
    BY HeapBounds
  <2>2. QED
    BY <1>1, <1>2, <2>1 DEF Body, PayloadHeld
<1>8. /\ tasks'[u] = [body |-> body, root |-> {}] /\ tasks'[u] \in Payload
      /\ \A v \in Task \ {u} : tasks'[v] = tasks[v]
      /\ tasks' \in [Task -> Payload \cup {None}]
  <2>1. tasks \in [Task -> Payload \cup {None}]
    BY DEF SourceInv, SourceTypes
  <2>2. [body |-> body, root |-> {}] \in Payload
    BY <1>7 DEF Payload
  <2>3. QED
    BY <1>3, <2>1, <2>2
<1>9. Live' = Live \cup {u} /\ u \notin Live
    BY <1>3, <1>8, NoneAndTrueApart DEF Live
<1>10. heap' = [rows |-> heap.rows, conditions |-> heap.conditions \cup ({} \ {True}), book |-> r.book]
    BY <1>1, <1>4 DEF WithBook, Store
<1>11. /\ StoreSound' /\ Grows
       /\ pending' \in PendingMap /\ DOMAIN pending' = DOMAIN pending \cup {u} /\ OwnBodies(pending')
       /\ Bodies(pending') \subseteq LiveIn(heap'.book)
       /\ syntax.done => /\ Remaining(heap'.book, pending')[u] = Parts(body)
                         /\ \A v \in DOMAIN pending \ {u} :
                               Remaining(heap'.book, pending')[v] = Remaining(heap.book, pending)[v]
       /\ ~syntax.done => \A v \in DOMAIN pending' : pending'[v] = None
  <2>0. /\ StoreSound /\ pending \in PendingMap /\ OwnBodies(pending)
        /\ Bodies(pending) \subseteq LiveIn(heap.book)
    BY DEF SourceInv, SourceTypes, StateHeld
  <2>1. CASE syntax.done
    <3>1. PICK previous, conditions : previous = None /\ conditions = {}
      OBVIOUS
    <3>2. /\ previous = None
          /\ conditions \in SUBSET Guard /\ body.guard \in Known \cup conditions
          /\ r \in Updated(heap.book, previous, Parts(body))
          /\ heap' = [rows |-> heap.rows, conditions |-> heap.conditions \cup (conditions \ {True}),
                        book |-> r.book]
      BY <1>4, <1>7, <1>10, <2>1, <3>1
    <3>3. /\ StoreSound' /\ Grows
          /\ pending' \in PendingMap /\ OwnBodies(pending')
          /\ Bodies(pending') \subseteq LiveIn(heap'.book)
          /\ Remaining(heap'.book, pending')[u] = Parts(body)
          /\ \A v \in DOMAIN pending \ {u} :
                 Remaining(heap'.book, pending')[v] = Remaining(heap.book, pending)[v]
      BY <1>4, <1>7, <2>0, <3>2, OneBody
    <3>4. QED
      BY <1>4, <2>1, <3>3
  <2>2. CASE ~syntax.done
    <3>1. r.book = heap.book /\ r.body = None
      BY <1>4, <2>2
    <3>2. heap' = heap
      BY <1>1, <1>4, <3>1 DEF WithBook, Store
    <3>3. StoreSound' /\ Grows
      BY <2>0, <3>2, SameGrows DEF StoreSound, Known
    <3>4. PICK m : m = pending'
      OBVIOUS
    <3>5. \A v \in DOMAIN pending : pending[v] = None
      BY <2>2 DEF SourceInv, Stages, Running
    <3>6. DOMAIN m = DOMAIN pending \cup {u} /\ \A v \in DOMAIN m : m[v] = None
      BY <1>4, <3>1, <3>4, <3>5
    <3>7. m \in PendingMap
      <4>1. PICK T \in SUBSET Task : T = DOMAIN pending \cup {u}
        BY <1>1
      <4>2. m \in [T -> Descriptor \cup {None}]
        BY <1>4, <3>4, <3>6, <4>1
      <4>3. QED
        BY <4>2, IsMap DEF PendingMap
    <3>8. OwnBodies(m) /\ Bodies(m) = {}
      BY <3>6 DEF OwnBodies, Bodies, Range
    <3>9. QED
      BY <2>2, <3>3, <3>4, <3>6, <3>7, <3>8
  <2>3. QED
    BY <2>1, <2>2
<1>12. StateHeld'
  <2>1. ASSUME NEW v \in Live' PROVE PayloadHeld(tasks[v])'
    <3>1. CASE v = u
      BY <1>7, <1>8, <1>11, <3>1 DEF PayloadHeld, Grows, Known
    <3>2. CASE v # u
      <4>1. v \in Live /\ v \in Task \ {u} /\ PayloadHeld(tasks[v])
        BY <1>9, <3>2 DEF SourceInv, StateHeld, Live
      <4>2. tasks'[v] = tasks[v]
        BY <1>8, <4>1
      <4>3. QED
        BY <1>11, <4>1, <4>2 DEF PayloadHeld, Grows, Known
    <3>3. QED
      BY <3>1, <3>2
  <2>2. graph' \subseteq heap'.rows /\ birth' \in heap'.conditions \cup {None}
    BY <1>3, <1>11 DEF SourceInv, StateHeld, Grows
  <2>3. QED
    BY <1>11, <2>1, <2>2 DEF StateHeld
<1>13. ReaderHeld'
    BY <1>3, <1>11, ReaderStays DEF SourceInv
<1>14. BodiesTold'
  <2> SUFFICES ASSUME syntax.done, NEW v \in Live'
               PROVE  Remaining(heap'.book, pending')[v] = Parts(tasks'[v].body)
      BY DEF BodiesTold, Running
  <2>1. CASE v = u
    BY <1>8, <1>11, <2>1
  <2>2. CASE v # u
    <3>1. v \in Live /\ tasks'[v] = tasks[v] /\ v \in DOMAIN pending \ {u}
      BY <1>1, <1>8, <1>9, <2>2 DEF Live
    <3>2. Remaining(heap.book, pending)[v] = Parts(tasks[v].body)
      BY <3>1 DEF SourceInv, BodiesTold, Running
    <3>3. QED
      BY <1>11, <3>1, <3>2
  <2>3. QED
    BY <2>1, <2>2
<1>15. SourceTypes'
    BY <1>3, <1>8, <1>11 DEF SourceInv, SourceTypes
<1>16. Live' = Placed' /\ Live' \subseteq DOMAIN pending'
    BY <1>1, <1>6, <1>9, <1>11
<1>17. SourceInv'
    BY <1>5, <1>11, <1>12, <1>13, <1>14, <1>15, <1>16, RunningKeeps
<1>18. QED
    BY <1>3, <1>11, <1>17 DEF Kept

(* A tick of a run that is not canceled.                                   *)
LEMMA SourceKeeps ==
    ASSUME SourceInv, ~Canceled, Source, collector' = collector
    PROVE  Kept
<1>0. Running
    BY DEF Running, Source
<1>1. CASE \E t \in runnable : Work(t) \/ Post(t) \/ Bear(t) \/ \E u \in Task : Admit(t, u)
    BY <1>0, <1>1, WorkKeeps, PostKeeps, BearKeeps, AdmitKeeps
<1>2. CASE Read
    BY <1>0, <1>2, ReadKeeps
<1>3. CASE \E t \in runnable : Acquire(t) \/ Leave(t) \/ Complete(t)
    BY <1>0, <1>3, AcquireKeeps, LeaveKeeps, CompleteKeeps
<1>4. CASE StopReading
    BY <1>0, <1>4, StopReadingKeeps
<1>5. CASE UNCHANGED <<owners, source, heap>>
  <2>1. TypeOK /\ OneEntry /\ OwnerRuns /\ UNCHANGED owners
    BY <1>0, <1>5, Runner DEF Running
  <2>2. TypeOK' /\ OneEntry' /\ OwnerRuns' /\ Placed' = Placed
    BY <2>1, SameOwners
  <2>3. QED
    BY <1>0, <1>5, <2>2, StillKeeps
<1>6. QED
    BY <1>1, <1>2, <1>3, <1>4, <1>5 DEF Source, Grow

-----------------------------------------------------------------------------
(* The ticks of a cancellation.                                            *)

(* What a tick of a cancellation has to show: it only takes away, and it   *)
(* may promote bodies.                                                     *)
LEMMA CanceledKeeps ==
    ASSUME SourceInv, Canceled', StoreSound', Grows, birth' = birth,
           tasks' \in [Task -> Payload \cup {None}], \A t \in Live' : PayloadHeld(tasks[t])',
           graph' \subseteq graph, pending' \in PendingMap, OwnBodies(pending'),
           Bodies(pending') \subseteq LiveIn(heap'.book), reader' \in {reader, None},
           Places', Stages'
    PROVE  Kept
<1>1. StateHeld'
    BY DEF SourceInv, StateHeld, Grows
<1>2. ReaderHeld'
  <2>1. CASE reader' = None
    BY <2>1 DEF ReaderHeld
  <2>2. CASE reader' = reader
    BY <2>2, ReaderStays DEF SourceInv
  <2>3. QED
    BY <2>1, <2>2
<1>3. SourceTypes'
    BY DEF SourceInv, SourceTypes
<1>4. BodiesTold'
    BY DEF BodiesTold
<1>5. QED
    BY <1>1, <1>2, <1>3, <1>4 DEF Kept, SourceInv

(* Tasks, graph, bodies and stores stay.                                   *)
LEMMA CanceledStays ==
    ASSUME SourceInv, Canceled', UNCHANGED <<tasks, graph, birth, pending>>,
           StoreSound', Grows, reader' \in {reader, None}, Places', Stages'
    PROVE  Kept
<1>1. \A t \in Live' : PayloadHeld(tasks[t])'
    BY DEF SourceInv, StateHeld, PayloadHeld, Grows, Known, Live
<1>2. Bodies(pending') \subseteq LiveIn(heap'.book)
    BY DEF SourceInv, StateHeld, Grows, After
<1>3. /\ tasks' \in [Task -> Payload \cup {None}]
      /\ graph' \subseteq graph /\ pending' \in PendingMap /\ OwnBodies(pending')
    BY DEF SourceInv, SourceTypes, StateHeld
<1>4. QED
    BY <1>1, <1>2, <1>3, CanceledKeeps

(* The stores stay.                                                        *)
LEMMA StoresStay ==
    ASSUME StoreSound, heap' = heap
    PROVE  StoreSound' /\ Grows
BY SameGrows DEF StoreSound, Known

(* A phase is entered.                                                     *)
LEMMA PhaseIs ==
    ASSUME OtherTypes, NEW phase \in CancelPhase, ToPhase(phase)
    PROVE  cancel'.phase = phase
BY DEF OtherTypes, ToPhase

(* No payload moves.                                                       *)
LEMMA SamePlaces ==
    ASSUME Places, UNCHANGED <<owners, tasks>>, Early' => Early
    PROVE  Places'
<1>1. TypeOK' /\ OneEntry' /\ (OwnerRuns => OwnerRuns') /\ Placed' = Placed
    BY SameOwners DEF Places
<1>2. Live' = Live
    BY DEF Live
<1>3. QED
    BY <1>1, <1>2 DEF Places, Placed

(* The bodies of all tasks are promoted before any of them goes.           *)
LEMMA SyntaxKeeps ==
    ASSUME SourceInv, OtherTypes, Idle, collector' = collector, CancelSyntax
    PROVE  Kept
<1>1. /\ cancel.phase = "Syntax" /\ UNCHANGED <<owners, tasks, graph, birth, reader>>
      /\ StoreSound /\ pending \in PendingMap /\ OwnBodies(pending)
      /\ Bodies(pending) \subseteq LiveIn(heap.book) /\ heap \in Store
      /\ Early /\ ~Released
    BY DEF CancelSyntax, SourceInv, SourceTypes, StateHeld, StoreSound, Early, Released
<1>2. CASE syntax.done \/ Unpromoted = {}
  <2>1. ToPhase("Queue") /\ heap' = heap /\ pending' = pending
    BY <1>2 DEF CancelSyntax
  <2>2. cancel'.phase = "Queue"
    BY <2>1, PhaseIs DEF CancelPhase
  <2>3. StoreSound' /\ Grows
    BY <1>1, <2>1, StoresStay
  <2>4. Places'
    BY <1>1, SamePlaces DEF SourceInv
  <2>5. Stages'
    BY <1>1, <2>1, <2>2 DEF Stages, SourceInv, Released, Idle, Canceled, Live
  <2>6. QED
    BY <1>1, <2>1, <2>2, <2>3, <2>4, <2>5, CanceledStays DEF Canceled
<1>3. ASSUME NEW t \in Unpromoted, Promote(t), cancel' = cancel PROVE Kept
  <2>1. /\ t \in Live /\ t \in Task /\ tasks[t] \in Payload /\ tasks[t].body \in Body
        /\ PayloadHeld(tasks[t]) /\ t \in DOMAIN pending
    BY <1>1 DEF Unpromoted, Live, SourceInv, SourceTypes, StateHeld, Stages, Payload
  <2>2. PICK body \in Body : body = tasks[t].body
    BY <2>1
  <2>3. body.guard \in Known
    BY <2>1, <2>2 DEF PayloadHeld
  <2>4. PICK r \in Updated(heap.book, None, Parts(body)) :
            heap' = WithBook(heap, r.book) /\ pending' = [pending EXCEPT ![t] = r.body]
    BY <1>3, <2>2 DEF Promote
  <2>5. /\ DOMAIN pending \in SUBSET Task
        /\ pending' = [u \in DOMAIN pending \cup {t} |-> IF u = t THEN r.body ELSE pending[u]]
    BY <1>1, <2>1, <2>4, MapIs DEF PendingMap
  <2>6. PICK previous, conditions : previous = None /\ conditions = {}
    OBVIOUS
  <2>7. /\ previous = None
        /\ conditions \in SUBSET Guard /\ body.guard \in Known \cup conditions
        /\ r \in Updated(heap.book, previous, Parts(body))
        /\ heap' = [rows |-> heap.rows, conditions |-> heap.conditions \cup (conditions \ {True}),
                    book |-> r.book]
    BY <1>1, <2>3, <2>4, <2>6 DEF WithBook, Store
  <2>8. /\ StoreSound' /\ Grows
        /\ pending' \in PendingMap /\ OwnBodies(pending')
        /\ Bodies(pending') \subseteq LiveIn(heap'.book)
    BY <1>1, <2>1, <2>5, <2>7, OneBody
  <2>9. \A u \in Live' : PayloadHeld(tasks[u])'
    BY <1>1, <2>8 DEF SourceInv, StateHeld, PayloadHeld, Grows, Known, Live
  <2>10. Places'
    BY <1>1, SamePlaces DEF SourceInv
  <2>11. DOMAIN pending' = DOMAIN pending
    BY <2>4
  <2>12. Stages'
    BY <1>1, <1>3, <2>11 DEF Stages, SourceInv, Released, Idle, Canceled, Live
  <2>13. /\ tasks' \in [Task -> Payload \cup {None}] /\ graph' \subseteq graph /\ Canceled'
    BY <1>1, <1>3 DEF SourceInv, SourceTypes, Canceled
  <2>14. QED
    BY <1>1, <2>8, <2>9, <2>10, <2>12, <2>13, CanceledKeeps
<1>4. QED
    BY <1>2, <1>3 DEF CancelSyntax

(* A payload as it was, or one that holds nothing any more.                *)
Less(p, q) == q = p \/ (q.root = {} /\ q.body.guard = True)

(* A task gives back what it holds, then it is gone.                       *)
LEMMA DiscardedTask ==
    ASSUME SourceInv, NEW t \in Live, DiscardTask(t)
    PROVE  /\ tasks' \in [Task -> Payload \cup {None}]
           /\ \A u \in Live' : u \in Live /\ Less(tasks[u], tasks'[u])
           /\ Live' = IF tasks'[t] = None THEN Live \ {t} ELSE Live
<1>1. tasks \in [Task -> Payload \cup {None}] /\ tasks[t] \in Payload /\ t \in Task
    BY DEF SourceInv, SourceTypes, Live
<1>2. PICK p : p = [NoBody EXCEPT !.body.at = tasks[t].body.at]
    OBVIOUS
<1>3. p = [body |-> [at |-> tasks[t].body.at, guard |-> True], root |-> {}]
    BY <1>2 DEF NoBody
<1>4. p \in Payload /\ p.root = {} /\ p.body.guard = True /\ p # None
    BY <1>1, <1>3, NoneAndTrueApart DEF Payload, Body, Guard
<1>5. /\ tasks'[t] \in {p, None} /\ \A u \in Task \ {t} : tasks'[u] = tasks[u]
      /\ tasks' \in [Task -> Payload \cup {None}]
    BY <1>1, <1>2, <1>4 DEF DiscardTask
<1>6. Live' = IF tasks'[t] = None THEN Live \ {t} ELSE Live
    BY <1>1, <1>5 DEF Live
<1>7. \A u \in Live' : u \in Live /\ Less(tasks[u], tasks'[u])
    BY <1>1, <1>4, <1>5, <1>6 DEF Live, Less
<1>8. QED
    BY <1>5, <1>6, <1>7

(* Payloads go, the rest stays.                                            *)
LEMMA DiscardKeeps ==
    ASSUME SourceInv, Canceled', heap' = heap, UNCHANGED <<graph, birth, pending, reader>>,
           tasks' \in [Task -> Payload \cup {None}],
           \A u \in Live' : u \in Live /\ Less(tasks[u], tasks'[u]),
           Places', Stages'
    PROVE  Kept
<1>1. StoreSound' /\ Grows
    BY StoresStay DEF SourceInv
<1>2. \A u \in Live' : PayloadHeld(tasks[u])'
    BY DEF SourceInv, StateHeld, PayloadHeld, Known, Less
<1>3. /\ graph' \subseteq graph /\ pending' \in PendingMap /\ OwnBodies(pending')
      /\ Bodies(pending') \subseteq LiveIn(heap'.book)
    BY DEF SourceInv, SourceTypes, StateHeld
<1>4. QED
    BY <1>1, <1>2, <1>3, CanceledKeeps

(* The run queue is emptied, a payload at a time.                          *)
LEMMA QueueKeeps ==
    ASSUME SourceInv, OtherTypes, Idle, collector' = collector, CancelQueue
    PROVE  Kept
<1>1. /\ cancel.phase = "Queue"
      /\ UNCHANGED <<lane, waiting, flag, graph, pending, birth, reader, syntax, heap>>
      /\ TypeOK /\ OneEntry /\ Live = runnable \cup Parked
      /\ Live \subseteq DOMAIN pending
    BY DEF CancelQueue, SourceInv, Places, Stages, Released
<1>2. CASE runnable = {}
  <2>1. ToPhase("Parked") /\ tasks' = tasks /\ runnable' = runnable
    BY <1>2 DEF CancelQueue
  <2>2. cancel'.phase = "Parked"
    BY <2>1, PhaseIs DEF CancelPhase
  <2>3. StoreSound' /\ Grows
    BY <1>1, StoresStay DEF SourceInv
  <2>4. Places'
    BY <1>1, <2>1, <2>2, SamePlaces DEF SourceInv, owners, Early
  <2>5. Stages'
    BY <1>1, <1>2, <2>1, <2>2 DEF Stages, SourceInv, Released, Idle, Canceled, Live
  <2>6. QED
    BY <1>1, <2>1, <2>2, <2>3, <2>4, <2>5, CanceledStays DEF Canceled
<1>3. CASE runnable # {}
  <2>1. PICK t \in runnable : /\ DiscardTask(t)
                              /\ runnable' = IF tasks'[t] = None THEN runnable \ {t} ELSE runnable
    BY <1>3 DEF CancelQueue
  <2>2. cancel' = cancel
    BY <1>3 DEF CancelQueue
  <2>3. t \in Live /\ t \notin Parked
    BY <1>1 DEF OneEntry, Parked
  <2>4. /\ tasks' \in [Task -> Payload \cup {None}]
        /\ \A u \in Live' : u \in Live /\ Less(tasks[u], tasks'[u])
        /\ Live' = IF tasks'[t] = None THEN Live \ {t} ELSE Live
    BY <2>1, <2>3, DiscardedTask
  <2>5. Places'
    <3>1. TypeOK' /\ OneEntry' /\ Parked' = Parked
      BY <1>1, <2>1 DEF TypeOK, OneEntry, Parked, Waiters
    <3>2. Live' = runnable' \cup Parked'
      BY <1>1, <2>1, <2>3, <2>4, <3>1
    <3>3. QED
      BY <1>1, <2>2, <3>1, <3>2 DEF Places, Early
  <2>6. Stages'
    BY <1>1, <2>2, <2>4 DEF Stages, SourceInv, Released, Idle, Canceled
  <2>7. QED
    BY <1>1, <2>2, <2>4, <2>5, <2>6, DiscardKeeps DEF Canceled
<1>4. QED
    BY <1>2, <1>3

(* So is the FIFO, at its head.                                            *)
LEMMA ParkedKeeps ==
    ASSUME SourceInv, OtherTypes, Idle, collector' = collector, CancelParked
    PROVE  Kept
<1>1. /\ cancel.phase = "Parked"
      /\ UNCHANGED <<lane, runnable, graph, pending, birth, reader, syntax, heap>>
      /\ TypeOK /\ OneEntry /\ Live = runnable \cup Parked /\ runnable = {}
      /\ Live \subseteq DOMAIN pending
    BY DEF CancelParked, SourceInv, Places, Stages, Released
<1>2. CASE waiting = <<>>
  <2>1. ToPhase("Ready") /\ tasks' = tasks /\ waiting' = waiting /\ flag' = flag
    BY <1>2 DEF CancelParked
  <2>2. cancel'.phase = "Ready"
    BY <2>1, PhaseIs DEF CancelPhase
  <2>3. StoreSound' /\ Grows
    BY <1>1, StoresStay DEF SourceInv
  <2>4. Places'
    BY <1>1, <2>1, <2>2, SamePlaces DEF SourceInv, owners, Early
  <2>5. Stages'
    BY <1>1, <1>2, <2>1, <2>2 DEF Stages, SourceInv, Released, Idle, Canceled, Live
  <2>6. QED
    BY <1>1, <2>1, <2>2, <2>3, <2>4, <2>5, CanceledStays DEF Canceled
<1>3. CASE waiting # <<>>
  <2>1. PICK o : o = Head(waiting)
    OBVIOUS
  <2>2. /\ IF o \in Task THEN DiscardTask(o) ELSE tasks' = tasks
        /\ IF o \in Task /\ tasks'[o] # None THEN waiting' = waiting /\ flag' = flag
           ELSE /\ waiting' = Tail(waiting)
                /\ flag' = [s \in Scalar |-> flag[s] /\ s # o]
        /\ cancel' = cancel
    BY <1>3, <2>1 DEF CancelParked
  <2>3. o \in Waiters
    BY <1>1, <1>3, <2>1 DEF TypeOK, Waiters
  <2>4. /\ tasks' \in [Task -> Payload \cup {None}]
        /\ \A u \in Live' : u \in Live /\ Less(tasks[u], tasks'[u])
        /\ Live' = IF o \in Task /\ tasks'[o] = None THEN Live \ {o} ELSE Live
    <3>1. CASE o \in Task
      <4>1. o \in Live
        BY <1>1, <2>3, <3>1 DEF Parked
      <4>2. QED
        BY <2>2, <3>1, <4>1, DiscardedTask
    <3>2. CASE o \notin Task
      BY <2>2, <3>2 DEF SourceInv, SourceTypes, Live, Less
    <3>3. QED
      BY <3>1, <3>2
  <2>5. TypeOK' /\ OneEntry' /\ Live' = runnable' \cup Parked'
    <3>1. CASE o \in Task /\ tasks'[o] # None
      BY <1>1, <2>2, <2>4, <3>1 DEF TypeOK, OneEntry, Parked, Waiters
    <3>2. CASE ~(o \in Task /\ tasks'[o] # None)
      <4>1. waiting' = Tail(waiting) /\ flag' = [s \in Scalar |-> flag[s] /\ s # o]
        BY <2>2, <3>2
      <4>2. /\ waiting' \in Seq(Owner) /\ Waiters' = Waiters \ {o}
            /\ \A i, j \in DOMAIN waiting' : waiting'[i] = waiting'[j] => i = j
        BY <1>1, <1>3, <2>1, <4>1, Popped DEF TypeOK, OneEntry
      <4>3. TypeOK'
        BY <1>1, <4>1, <4>2 DEF TypeOK
      <4>4. OneEntry'
        BY <1>1, <4>1, <4>2 DEF OneEntry
      <4>5. Parked' = Parked \ {o}
        BY <4>2 DEF Parked
      <4>6. Live' = runnable' \cup Parked'
        BY <1>1, <2>4, <3>2, <4>5 DEF Parked
      <4>7. QED
        BY <4>3, <4>4, <4>6
    <3>3. QED
      BY <3>1, <3>2
  <2>6. Places'
    BY <1>1, <2>2, <2>5 DEF Places, Early
  <2>7. Stages'
    BY <1>1, <2>2, <2>4 DEF Stages, SourceInv, Released, Idle, Canceled
  <2>8. QED
    BY <1>1, <2>2, <2>4, <2>6, <2>7, DiscardKeeps DEF Canceled
<1>4. QED
    BY <1>2, <1>3

(* The certificate and the observer are dropped.                           *)
LEMMA ReadersKeep ==
    ASSUME SourceInv, OtherTypes, Idle, collector' = collector, CancelReaders,
           reader # None => reader.kind # "RuleStep"
    PROVE  Kept
<1>1. /\ cancel.phase = "Ready"
      /\ UNCHANGED <<owners, tasks, graph, pending, birth, syntax, heap>>
      /\ StoreSound' /\ Grows
    BY StoresStay DEF CancelReaders, SourceInv
<1>2. CASE reader # None
  <2>1. reader' = None /\ cancel' = cancel
    BY <1>2 DEF CancelReaders
  <2>2. Places'
    BY <1>1, <2>1, SamePlaces DEF SourceInv, Early
  <2>3. Stages'
    BY <1>1, <2>1 DEF Stages, SourceInv, owners, Released, Idle, Canceled, Live
  <2>4. QED
    BY <1>1, <2>1, <2>2, <2>3, CanceledStays DEF Canceled
<1>3. CASE reader = None
  <2>1. ToPhase("Inspections") /\ reader' = reader
    BY <1>3 DEF CancelReaders
  <2>2. cancel'.phase = "Inspections"
    BY <2>1, PhaseIs DEF CancelPhase
  <2>3. Places'
    BY <1>1, <2>2, SamePlaces DEF SourceInv, Early
  <2>4. Stages'
    BY <1>1, <1>3, <2>1, <2>2 DEF Stages, SourceInv, owners, Released, Idle, Canceled, Live
  <2>5. QED
    BY <1>1, <2>1, <2>2, <2>3, <2>4, CanceledStays DEF Canceled
<1>4. QED
    BY <1>2, <1>3

(* The phases that leave the source alone.                                 *)
LEMMA PhaseKeeps ==
    ASSUME SourceInv, Canceled, Idle, collector' = collector,
           UNCHANGED <<owners, source, syntax>>, StoreSound', Grows,
           \/ cancel' = cancel
           \/ cancel.phase = "Inspections" /\ cancel'.phase = "Waiters"
           \/ cancel.phase = "Collect" /\ cancel'.phase = "Done"
    PROVE  Kept
<1>1. Places'
    BY SamePlaces DEF SourceInv, source, Early
<1>2. Canceled'
    BY DEF Canceled
<1>3. Stages'
    BY <1>2 DEF Stages, SourceInv, owners, source, Released, Idle, Canceled, Live
<1>4. QED
    BY <1>1, <1>2, <1>3, CanceledStays DEF source

(* So is the stepper.                                                      *)
LEMMA StepKeeps ==
    ASSUME SourceInv, Canceled, Idle, collector' = collector, DiscardStep
    PROVE  Kept
<1>1. /\ UNCHANGED <<owners, tasks, graph, pending, birth, syntax, heap>>
      /\ cancel' = cancel /\ reader' = None
      /\ StoreSound' /\ Grows
    BY StoresStay DEF DiscardStep, SourceInv
<1>2. Places'
    BY <1>1, SamePlaces DEF SourceInv, Early
<1>3. Stages'
    BY <1>1 DEF Stages, SourceInv, owners, Released, Idle, Canceled, Live
<1>4. QED
    BY <1>1, <1>2, <1>3, CanceledStays DEF Canceled

(* No owner is left when the lane is taken away.                           *)
LEMMA WaitersKeep ==
    ASSUME SourceInv, OtherTypes, Idle, collector' = collector, CancelWaiters
    PROVE  Kept
<1>1. /\ cancel.phase = "Waiters" /\ waiting' = <<>> /\ lane' = Free
      /\ flag' = [s \in Scalar |-> FALSE] /\ ToPhase("Roots") /\ runnable' = runnable
      /\ UNCHANGED <<source, syntax, heap>>
      /\ StoreSound' /\ Grows
      /\ runnable = {} /\ waiting = <<>> /\ TypeOK /\ Live = runnable \cup Parked
    BY StoresStay DEF CancelWaiters, SourceInv, Stages, Places
<1>2. cancel'.phase = "Roots"
    BY <1>1, PhaseIs DEF CancelPhase
<1>3. Places'
  <2>1. Parked = {} /\ Parked' = {} /\ Waiters' = {}
    BY <1>1 DEF Parked, Waiters
  <2>2. TypeOK' /\ OneEntry'
    BY <1>1, <2>1 DEF TypeOK, OneEntry
  <2>3. Live' = runnable' \cup Parked'
    BY <1>1, <2>1 DEF Live, source
  <2>4. QED
    BY <1>2, <2>2, <2>3 DEF Places, Early
<1>4. Stages'
    BY <1>1, <1>2 DEF Stages, SourceInv, source, Released, Idle, Canceled, Live
<1>5. QED
    BY <1>1, <1>2, <1>3, <1>4, CanceledStays DEF Canceled, source

(* No payload and no reader is left when the roots go.                     *)
LEMMA RootsKeep ==
    ASSUME SourceInv, OtherTypes, Idle, collector' = collector, CancelRoots
    PROVE  Kept
<1>1. /\ cancel.phase = "Roots" /\ graph' = {} /\ pending' = [t \in {} |-> None]
      /\ ToPhase("Collect") /\ UNCHANGED <<owners, tasks, birth, reader, syntax, heap>>
      /\ StoreSound' /\ Grows
      /\ runnable = {} /\ waiting = <<>> /\ Live = runnable \cup Parked
    BY StoresStay DEF CancelRoots, SourceInv, Stages, Places
<1>2. cancel'.phase = "Collect"
    BY <1>1, PhaseIs DEF CancelPhase
<1>3. Live' = {}
    BY <1>1 DEF Parked, Waiters, Live
<1>4. Places'
    BY <1>1, <1>2, SamePlaces DEF SourceInv, Early
<1>5. PICK m : m = pending'
    OBVIOUS
<1>6. DOMAIN m = {}
    BY <1>1, <1>5
<1>7. m \in PendingMap /\ OwnBodies(m) /\ Bodies(m) = {}
  <2>1. PICK T \in SUBSET Task : T = {}
    OBVIOUS
  <2>2. m \in [T -> Descriptor \cup {None}]
    BY <1>1, <1>5, <2>1
  <2>3. m \in PendingMap
    BY <2>2, IsMap DEF PendingMap
  <2>4. QED
    BY <1>6, <2>3 DEF OwnBodies, Bodies, Range
<1>8. Stages'
    BY <1>1, <1>2, <1>5, <1>6 DEF Stages, SourceInv, owners, Released, Idle, Canceled
<1>9. tasks' \in [Task -> Payload \cup {None}]
    BY <1>1 DEF SourceInv, SourceTypes
<1>10. QED
    BY <1>1, <1>2, <1>3, <1>4, <1>5, <1>7, <1>8, <1>9, CanceledKeeps DEF Canceled

(* What an inspection does to the heap.                                    *)
LEMMA TickHeap ==
    ASSUME StoreSound, NEW map, NEW i, InspectionTick(map, i)
    PROVE  StoreSound' /\ Grows
<1>1. CASE heap' = heap
    BY <1>1, StoresStay
<1>2. ASSUME NEW scope \in {True} \cup Fresh, heap' = WithConditions(heap, {scope})
      PROVE  StoreSound' /\ Grows
  <2>1. PICK rows, conditions : rows = {} /\ conditions = {scope}
    OBVIOUS
  <2>2. /\ rows \in SUBSET Condition /\ conditions \in SUBSET Guard
        /\ rows \subseteq heap.conditions \cup conditions
        /\ heap' = [rows |-> heap.rows \cup rows,
                    conditions |-> heap.conditions \cup (conditions \ {True}), book |-> heap.book]
    BY <1>2, <2>1 DEF Fresh, Guard, StoreSound, Store, WithConditions
  <2>3. QED
    BY <2>2, MoreConditions
<1>3. QED
    BY <1>1, <1>2 DEF InspectionTick

(* Every tick of a cancellation keeps what the source holds.               *)
LEMMA CancelKeeps ==
    ASSUME SourceInv, OtherTypes, Canceled, Idle, collector' = collector, NEW map, CancelTick(map)
    PROVE  Kept
<1>1. CASE reader # None /\ reader.kind = "RuleStep"
    BY <1>1, StepKeeps DEF CancelTick, DiscardStep
<1>2. CASE ~(reader # None /\ reader.kind = "RuleStep")
  <2>1. CASE CancelSyntax
    BY <2>1, SyntaxKeeps
  <2>2. CASE CancelQueue
    BY <2>2, QueueKeeps
  <2>3. CASE CancelParked
    BY <2>3, ParkedKeeps
  <2>4. CASE CancelReaders
    BY <1>2, <2>4, ReadersKeep
  <2>5. CASE CancelWaiters
    BY <2>5, WaitersKeep
  <2>6. CASE CancelRoots
    BY <2>6, RootsKeep
  <2>7. CASE CancelCollect
    <3>1. StoreSound' /\ Grows
      BY <2>7, StoresStay DEF CancelCollect, SourceInv
    <3>2. cancel'.phase = "Done"
      BY <2>7, PhaseIs DEF CancelCollect, CancelPhase
    <3>3. QED
      BY <2>7, <3>1, <3>2, PhaseKeeps DEF CancelCollect
  <2>8. CASE CancelInspections(map)
    <3>1. StoreSound' /\ Grows
      BY <2>8, StoresStay DEF CancelInspections, SourceInv
    <3>2. cancel' = cancel \/ ToPhase("Waiters")
      BY <2>8 DEF CancelInspections
    <3>3. cancel' = cancel \/ cancel'.phase = "Waiters"
      BY <3>2, PhaseIs DEF CancelPhase
    <3>4. QED
      BY <2>8, <3>1, <3>3, PhaseKeeps DEF CancelInspections
  <2>9. CASE CancelDone
    <3>1. StoreSound' /\ Grows
      BY <2>9, StoresStay, TickHeap DEF CancelDone, ServiceInspection, SourceInv
    <3>2. QED
      BY <2>9, <3>1, PhaseKeeps DEF CancelDone
  <2>10. QED
    BY <1>2, <2>1, <2>2, <2>3, <2>4, <2>5, <2>6, <2>7, <2>8, <2>9 DEF CancelTick
<1>3. QED
    BY <1>1, <1>2

(* A set of numbers has a least one.                                       *)
LEMMA LeastNatural ==
    ASSUME NEW S \in SUBSET Nat, S # {}
    PROVE  \E m \in S : \A n \in S : m <= n
<1> DEFINE R == {p \in Nat \X Nat : p[1] < p[2]}
<1>1. IsWellFoundedOn(R, Nat)
    BY NatLessThanWellFounded DEF OpToRel
<1>2. PICK m \in S : \A n \in S : <<n, m>> \notin R
  <2> HIDE DEF R
  <2> QED
    BY <1>1, WFMin
<1>3. \A n \in S : ~(n < m)
    BY <1>2
<1>4. QED
    BY <1>3

(* The minimum is one of them.                                             *)
LEMMA MinIsIn ==
    ASSUME NEW S \in SUBSET Nat, S # {}
    PROVE  Min(S) \in S
<1>1. \E m \in S : \A n \in S : m <= n
    BY LeastNatural
<1>2. QED
    BY <1>1 DEF Min

(* The maximum of a set that is bounded.                                   *)
LEMMA MaxIsIn ==
    ASSUME NEW n \in Nat, NEW S \in SUBSET Nat, S # {}, \A x \in S : x <= n
    PROVE  Max(S) \in S /\ \A x \in S : x <= Max(S)
<1> DEFINE U == {m \in Nat : \A x \in S : x <= m}
<1>1. U \in SUBSET Nat /\ U # {}
    OBVIOUS
<1>2. PICK m \in U : \A k \in U : m <= k
  <2> HIDE DEF U
  <2> QED
    BY <1>1, LeastNatural
<1>3. m \in S
  <2> SUFFICES ASSUME m \notin S PROVE FALSE
      OBVIOUS
  <2>1. \A x \in S : x <= m - 1 /\ x \in Nat
    BY <1>2
  <2>2. PICK x \in S : x <= m - 1 /\ x \in Nat
    BY <2>1
  <2>5. m - 1 \in Nat
    BY <2>2
  <2>3. m - 1 \in U
    BY <2>1, <2>5
  <2>4. QED
    BY <1>2, <2>3
<1>4. \E x \in S : \A y \in S : x >= y
    BY <1>2, <1>3
<1>5. QED
    BY <1>4 DEF Max

-----------------------------------------------------------------------------
(* Inspections lose their snapshots and scopes, or get a scope.            *)

Looks(old, new, known) ==
    /\ new \in [View -> Looking \cup {None}]
    /\ Ids(new) \subseteq Ids(old)
    /\ \A j \in Ids(new) : /\ new[j].snapshot \in {old[j].snapshot, None}
                           /\ new[j].scope \in {old[j].scope} \cup known

(* Nothing changes.                                                        *)
LEMMA LooksItself ==
    ASSUME NEW map \in [View -> Looking \cup {None}], NEW known
    PROVE  Looks(map, map, known)
BY DEF Looks

(* One change after another.                                               *)
LEMMA LooksTwice ==
    ASSUME NEW a, NEW b, NEW c, NEW known, Looks(a, b, known), Looks(b, c, known)
    PROVE  Looks(a, c, known)
BY DEF Looks, Ids

(* One inspection changes.                                                 *)
Put(map, i, w) == [map EXCEPT ![i] = w]

(* One inspection is replaced.                                             *)
LEMMA OneLooks ==
    ASSUME NEW map \in [View -> Looking \cup {None}], NEW i \in Ids(map), NEW w \in Looking,
           NEW known, w.snapshot \in {map[i].snapshot, None},
           w.scope \in {map[i].scope} \cup known,
           NEW new, new = Put(map, i, w)
    PROVE  Looks(map, new, known) /\ Ids(new) = Ids(map)
BY NoneAndTrueApart DEF Looks, Ids, Put

(* An inspection that is there is one.                                     *)
LEMMA IsLooking ==
    ASSUME NEW map \in [View -> Looking \cup {None}], NEW i \in Ids(map)
    PROVE  i \in View /\ map[i] \in Looking
BY DEF Ids

(* A request to cancel takes nothing away.                                 *)
LEMMA DiscardingLooks ==
    ASSUME NEW v \in Looking
    PROVE  /\ Discarding(v) \in Looking
           /\ Discarding(v).snapshot = v.snapshot /\ Discarding(v).scope = v.scope
<1>1. v.phase \in {"Select", "Project", "Output", "Discard", "Done"}
    BY DEF Looking
<1>2. PICK p \in {"Select", "Project", "Output", "Discard", "Done"} :
        p = IF v.phase = "Done" THEN v.phase ELSE "Discard"
    BY <1>1
<1>3. Discarding(v) = [v EXCEPT !.phase = p]
    BY <1>2 DEF Discarding
<1>4. QED
    BY <1>3 DEF Looking

(* Draining takes away scope or snapshot.                                  *)
LEMMA DrainedLooks ==
    ASSUME NEW v \in Looking
    PROVE  /\ Drained(v) \in Looking
           /\ Drained(v).snapshot \in {v.snapshot, None} /\ Drained(v).scope \in {v.scope, True}
BY DEF Drained, Looking, Guard

(* An inspection that the cancellation covers is discarded, others stay.   *)
LEMMA DueLooks ==
    ASSUME OtherTypes, NEW i \in Ids(inspections), NEW known
    PROVE  Looks(inspections, Due(i), known) /\ Ids(Due(i)) = Ids(inspections)
<1>1. PICK map, j, new : map = inspections /\ j = i /\ new = Due(i)
    OBVIOUS
<1>2. map \in [View -> Looking \cup {None}] /\ j \in Ids(map)
    BY <1>1 DEF OtherTypes
<1>3. PICK w \in Looking : /\ w = Discarding(map[j])
                           /\ w.snapshot = map[j].snapshot /\ w.scope = map[j].scope
    BY <1>2, IsLooking, DiscardingLooks
<1>4. CASE Covered(i)
  <2>1. new = Put(map, j, w)
    BY <1>1, <1>3, <1>4 DEF Due, Put
  <2>2. Looks(map, new, known) /\ Ids(new) = Ids(map)
    BY <1>2, <1>3, <2>1, OneLooks
  <2>3. QED
    BY <1>1, <2>2
<1>5. CASE ~Covered(i)
    BY <1>1, <1>2, <1>5, LooksItself DEF Due
<1>6. QED
    BY <1>4, <1>5

(* A tick of an inspection.                                                *)
LEMMA TickLooks ==
    ASSUME heap \in Store, NEW map \in [View -> Looking \cup {None}], NEW i \in Ids(map),
           InspectionTick(map, i)
    PROVE  Looks(map, inspections', Known') /\ Ids(inspections') = Ids(map)
<1>1. map[i] \in Looking
    BY IsLooking
<1>2. PICK known : known = Known'
    OBVIOUS
<1>3. True \in known
    BY <1>2 DEF Known
<1>4. ASSUME NEW w \in Looking, w.snapshot \in {map[i].snapshot, None},
             w.scope \in {map[i].scope} \cup known, inspections' = Put(map, i, w)
      PROVE  Looks(map, inspections', known) /\ Ids(inspections') = Ids(map)
  <2>1. PICK new : new = inspections'
    OBVIOUS
  <2>2. Looks(map, new, known) /\ Ids(new) = Ids(map)
    BY <1>4, <2>1, OneLooks
  <2>3. QED
    BY <2>1, <2>2
<1>5. ASSUME NEW scope \in {True} \cup Fresh, heap' = WithConditions(heap, {scope}),
             inspections' = [map EXCEPT ![i].scope = scope, ![i].phase = "Project"]
      PROVE  Looks(map, inspections', known) /\ Ids(inspections') = Ids(map)
  <2>1. scope \in known
    BY <1>2, <1>5 DEF Known, WithConditions, Store
  <2>2. PICK w : w = [map[i] EXCEPT !.scope = scope, !.phase = "Project"]
    OBVIOUS
  <2>3. inspections' = Put(map, i, w)
    BY <1>1, <1>5, <2>2 DEF Ids, Put
  <2>4. w \in Looking /\ w.snapshot = map[i].snapshot /\ w.scope = scope
    BY <1>1, <2>2 DEF Looking, Guard, Fresh
  <2>5. QED
    BY <1>4, <2>1, <2>3, <2>4
<1>6. ASSUME NEW phase \in {"Output", "Discard"}, inspections' = Put(map, i, [map[i] EXCEPT !.phase = phase])
      PROVE  Looks(map, inspections', known) /\ Ids(inspections') = Ids(map)
  <2>1. [map[i] EXCEPT !.phase = phase] \in Looking
        /\ [map[i] EXCEPT !.phase = phase].snapshot = map[i].snapshot
        /\ [map[i] EXCEPT !.phase = phase].scope = map[i].scope
    BY <1>1 DEF Looking
  <2>2. QED
    BY <1>4, <1>6, <2>1
<1>7. CASE inspections' = Put(map, i, Drained(map[i]))
  <2>1. PICK w \in Looking : /\ w = Drained(map[i])
                             /\ w.snapshot \in {map[i].snapshot, None} /\ w.scope \in {map[i].scope, True}
    BY <1>1, DrainedLooks
  <2>2. w.scope \in {map[i].scope} \cup known /\ inspections' = Put(map, i, w)
    BY <1>3, <1>7, <2>1
  <2>3. QED
    BY ONLY <1>2, <1>4, <2>1, <2>2
<1>8. CASE inspections' = Put(map, i, map[i])
  <2>1. PICK w \in Looking : w = map[i]
    BY <1>1
  <2>2. w.snapshot = map[i].snapshot /\ w.scope = map[i].scope /\ inspections' = Put(map, i, w)
    BY <1>8, <2>1
  <2>3. QED
    BY ONLY <1>2, <1>4, <2>1, <2>2
<1>9. Looks(map, inspections', known) /\ Ids(inspections') = Ids(map)
  <2>1. \/ \E scope \in {True} \cup Fresh :
               /\ inspections' = [map EXCEPT ![i].scope = scope, ![i].phase = "Project"]
               /\ heap' = WithConditions(heap, {scope})
        \/ \E phase \in {"Output", "Discard"} :
               inspections' = Put(map, i, [map[i] EXCEPT !.phase = phase])
        \/ inspections' = Put(map, i, Drained(map[i]))
        \/ inspections' = Put(map, i, map[i])
    BY DEF InspectionTick, Put
  <2>2. CASE \E scope \in {True} \cup Fresh :
               /\ inspections' = [map EXCEPT ![i].scope = scope, ![i].phase = "Project"]
               /\ heap' = WithConditions(heap, {scope})
    BY ONLY <1>5, <2>2
  <2>3. CASE \E phase \in {"Output", "Discard"} :
               inspections' = Put(map, i, [map[i] EXCEPT !.phase = phase])
    BY ONLY <1>6, <2>3
  <2>4. QED
    BY ONLY <1>2, <1>7, <1>8, <2>1, <2>2, <2>3
<1>10. QED
    BY <1>2, <1>9

(* A tick of an inspection, after that.                                    *)
LEMMA ServiceLooks ==
    ASSUME OtherTypes, heap \in Store, NEW i \in Ids(inspections), InspectionTick(Due(i), i)
    PROVE  Looks(inspections, inspections', Known') /\ Ids(inspections') = Ids(inspections)
<1>1. PICK map, known : map = Due(i) /\ known = Known'
    OBVIOUS
<1>2. Looks(inspections, map, known) /\ Ids(map) = Ids(inspections)
    BY <1>1, DueLooks
<1>3. Looks(map, inspections', known) /\ Ids(inspections') = Ids(map)
    BY <1>1, <1>2, TickLooks DEF Looks
<1>4. QED
    BY <1>1, <1>2, <1>3, LooksTwice

(* A cancellation drains the first inspection that is left.                *)
LEMMA DrainLooks ==
    ASSUME NEW map \in [View -> Looking \cup {None}], NEW i \in Ids(map), True \in Known',
           inspections' = [map EXCEPT ![i] = Drained(Discarding(map[i]))]
    PROVE  Looks(map, inspections', Known') /\ Ids(inspections') = Ids(map)
<1>1. map[i] \in Looking
    BY IsLooking
<1>2. PICK v \in Looking : /\ v = Discarding(map[i])
                           /\ v.snapshot = map[i].snapshot /\ v.scope = map[i].scope
    BY <1>1, DiscardingLooks
<1>3. PICK w \in Looking : /\ w = Drained(v)
                           /\ w.snapshot \in {map[i].snapshot, None} /\ w.scope \in {map[i].scope, True}
    BY <1>2, DrainedLooks
<1>4. PICK known, new : known = Known' /\ new = inspections'
    OBVIOUS
<1>6. new = Put(map, i, w) /\ w.scope \in {map[i].scope} \cup known
    BY <1>2, <1>3, <1>4 DEF Put
<1>5. Looks(map, new, known) /\ Ids(new) = Ids(map)
    BY <1>3, <1>6, OneLooks
<1>7. QED
    BY <1>4, <1>5

(* A tick of a cancellation.                                               *)
LEMMA CancelLooks ==
    ASSUME OtherTypes, heap \in Store, NEW map \in [View -> Looking \cup {None}],
           Looks(inspections, map, {}), Ids(map) = Ids(inspections), CancelTick(map),
           map = inspections \/ cancel.phase # "Done"
    PROVE  Looks(inspections, inspections', Known') /\ Ids(inspections') = Ids(inspections)
<1>1. PICK known : known = Known' /\ True \in known
    BY DEF Known
<1>2. Looks(inspections, map, known)
    BY DEF Looks
<1>3. CASE inspections' = map
    BY <1>1, <1>2, <1>3
<1>4. CASE CancelInspections(map)
  <2>1. PICK left : left = {i \in Ids(map) : i <= cancel.limit /\ map[i].phase # "Done"}
    OBVIOUS
  <2>2. CASE left = {}
    BY <1>3, <1>4, <2>1, <2>2 DEF CancelInspections
  <2>3. CASE left # {}
    <3>1. left \subseteq Ids(map) /\ left \subseteq Nat
      BY <2>1, HeapBounds DEF Ids, View
    <3>2. PICK i \in Ids(map) : i = Min(left)
      BY <2>3, <3>1, MinIsIn
    <3>3. inspections' = [map EXCEPT ![i] = Drained(Discarding(map[i]))]
      BY <1>4, <2>1, <2>3, <3>2 DEF CancelInspections
    <3>4. Looks(map, inspections', known) /\ Ids(inspections') = Ids(map)
      BY <1>1, <3>3, DrainLooks
    <3>5. QED
      BY <1>1, <1>2, <3>4, LooksTwice
  <2>4. QED
    BY <2>2, <2>3
<1>5. CASE CancelDone /\ inspections' = inspections
    BY <1>1, <1>5, LooksItself DEF OtherTypes
<1>6. CASE ServiceInspection
    BY <1>6, ServiceLooks DEF ServiceInspection
<1>7. QED
    BY <1>3, <1>4, <1>5, <1>6 DEF CancelTick, CancelDone

-----------------------------------------------------------------------------
(* Calls and ticks that leave the source alone.                            *)

CollectorOwns == collector # None /\ collector.owns

(* Only conditions and rows are made, and owners may wait: the source      *)
(* keeps what it holds.                                                    *)
LEMMA GrowthKeeps ==
    ASSUME SourceInv, StoreSound', Grows, heap'.book = heap.book, UNCHANGED <<source, syntax>>,
           cancel' = cancel \/ (~Canceled /\ cancel'.phase = "Syntax"),
           TypeOK', OneEntry', Early => OwnerRuns', Placed' = Placed,
           ~Early => UNCHANGED <<runnable, waiting>>, CollectorOwns' => Early
    PROVE  Kept
<1>1. /\ tasks' = tasks /\ graph' = graph /\ pending' = pending /\ birth' = birth /\ reader' = reader
      /\ syntax' = syntax
    BY DEF source
<1>2. Live' = Live
    BY <1>1 DEF Live
<1>3. (Early' <=> Early) /\ (Released' <=> Released) /\ (~Canceled' => ~Canceled)
    BY DEF Early, Released, Canceled
<1>4. Places'
    BY <1>2, <1>3 DEF SourceInv, Places, Placed
<1>5. Stages'
  <2>1. CASE cancel' = cancel
    BY <1>1, <1>2, <1>3, <2>1 DEF SourceInv, Stages, CollectorOwns, Early, Released, Canceled, Idle
  <2>2. CASE ~Canceled /\ cancel'.phase = "Syntax"
    <3>1. Early /\ Early' /\ ~Released /\ ~Released' /\ Canceled'
      BY <2>2 DEF Early, Released, Canceled
    <3>2. Live' \subseteq DOMAIN pending'
      BY <1>1, <1>2, <3>1 DEF SourceInv, Stages
    <3>3. QED
      BY <2>2, <3>1, <3>2 DEF Stages, Idle
  <2>3. QED
    BY <2>1, <2>2
<1>6. StateHeld'
  <2>1. \A t \in Live' : PayloadHeld(tasks[t])'
    BY <1>1, <1>2 DEF SourceInv, StateHeld, PayloadHeld, Grows, Known
  <2>2. QED
    BY <1>1, <2>1 DEF SourceInv, StateHeld, Grows
<1>7. ReaderHeld'
    BY <1>1, ReaderStays DEF SourceInv
<1>8. BodiesTold'
    BY <1>1, <1>2, <1>3 DEF SourceInv, BodiesTold
<1>9. SourceTypes'
    BY <1>1 DEF SourceInv, SourceTypes
<1>10. QED
    BY <1>1, <1>4, <1>5, <1>6, <1>7, <1>8, <1>9 DEF SourceInv, Kept

(* The owners stay as well.                                                *)
LEMMA OwnersKeep ==
    ASSUME SourceInv, StoreSound', Grows, heap'.book = heap.book,
           UNCHANGED <<owners, source, syntax, collector>>,
           cancel' = cancel \/ (~Canceled /\ cancel'.phase = "Syntax")
    PROVE  Kept
<1>1. /\ TypeOK' /\ OneEntry' /\ (Early => OwnerRuns') /\ Placed' = Placed
    BY SameOwners DEF SourceInv, Places
<1>2. UNCHANGED <<runnable, waiting, source, syntax>> /\ collector' = collector
    BY DEF owners
<1>3. CollectorOwns' => Early
    BY <1>2 DEF CollectorOwns, SourceInv, Stages, Idle
<1>4. QED
    BY <1>1, <1>2, <1>3, GrowthKeeps

(* An inspection leaves the bodies alone.                                  *)
LEMMA TickBook ==
    ASSUME heap \in Store, NEW map, NEW i, InspectionTick(map, i)
    PROVE  heap'.book = heap.book
BY DEF InspectionTick, WithConditions, Store

(* A tick of an inspection keeps what the source holds.                    *)
LEMMA TickKeeps ==
    ASSUME SourceInv, NEW map, NEW i, InspectionTick(map, i),
           UNCHANGED <<owners, source, syntax, cancel, collector>>
    PROVE  Kept
BY TickHeap, TickBook, OwnersKeep DEF SourceInv, StoreSound

-----------------------------------------------------------------------------
(* The rest of the invariant.                                              *)

SnapshotsGo ==
    /\ snapshots' \in [View -> Captured \cup {None}]
    /\ \A i \in Ids(snapshots') : snapshots'[i] = snapshots[i]

(* Snapshots that stay.                                                    *)
LEMMA SnapshotsStay ==
    ASSUME OtherTypes, snapshots' = snapshots
    PROVE  SnapshotsGo
BY DEF OtherTypes, SnapshotsGo

(* No view is added.                                                       *)
LEMMA ShotsGo ==
    ASSUME NEW known, Looks(inspections, inspections', known), SnapshotsGo
    PROVE  Shots' \subseteq Shots
<1> SUFFICES ASSUME NEW shot \in Shots' PROVE shot \in Shots
    OBVIOUS
<1>1. shot # None /\ (\/ \E i \in Ids(snapshots') : shot = snapshots'[i]
                      \/ \E i \in Ids(inspections') : shot = inspections'[i].snapshot)
    BY DEF Shots, Ids
<1>2. CASE \E i \in Ids(snapshots') : shot = snapshots'[i]
    BY <1>1, <1>2 DEF SnapshotsGo, Shots, Ids
<1>3. CASE \E i \in Ids(inspections') : shot = inspections'[i].snapshot
    BY <1>1, <1>3 DEF Looks, Shots
<1>4. QED
    BY <1>1, <1>2, <1>3

OtherTypesAfter ==
    /\ archive' \in [after : Nat, reset : BOOLEAN]
    /\ nextView' \in Nat \ {0}
    /\ cancel' \in [phase : CancelPhase, limit : Nat]
    /\ collector' \in [owns : BOOLEAN] \cup {None}
    /\ requested' \in BOOLEAN
    /\ syntax' \in [done : BOOLEAN, seen : SUBSET Task]

(* A step without collection or capture keeps the whole invariant.         *)
LEMMA RestKeeps ==
    ASSUME HeapInv, Kept, kept' = kept, Looks(inspections, inspections', Known'), SnapshotsGo,
           OtherTypesAfter, ArchiveKept', Emptied'
    PROVE  HeapInv'
<1>1. StoreSound /\ Grows /\ (birth' = None => birth = None) /\ SourceInv'
    BY DEF HeapInv, SourceInv, Kept
<1>2. ViewsHeld'
  <2>1. Shots' \subseteq Shots
    BY ShotsGo
  <2>2. \A i \in Ids(inspections') : \/ inspections'[i].scope \in Known'
                                     \/ i \in Ids(inspections) /\ inspections'[i].scope = inspections[i].scope
    BY DEF Looks
  <2>3. QED
    BY <1>1, <2>1, <2>2, ViewsStay DEF HeapInv
<1>3. KeptHeld'
    BY <1>1, KeptStays DEF HeapInv
<1>4. OtherTypes'
    BY DEF HeapInv, OtherTypes, OtherTypesAfter, Looks, SnapshotsGo
<1>5. QED
    BY <1>1, <1>2, <1>3, <1>4 DEF HeapInv

(* The archive stays as it is.                                             *)
LEMMA SameArchive ==
    ASSUME ArchiveKept, UNCHANGED <<archive, kept, snapshots, nextView>>
    PROVE  ArchiveKept'
BY DEF ArchiveKept, Ids

(* An archive that is invalid protects nothing yet.                        *)
LEMMA InvalidArchive ==
    ASSUME ArchiveKept, OtherTypes, archive' = Invalid, SnapshotsGo, nextView' = nextView
    PROVE  ArchiveKept' /\ archive' \in [after : Nat, reset : BOOLEAN]
<1>1. archive'.after = 0 /\ archive'.reset
    BY DEF Invalid
<1>2. \A i \in Ids(snapshots') : ~(i <= 0) /\ i \in Ids(snapshots)
    BY HeapBounds DEF Ids, View, SnapshotsGo
<1>3. 0 < nextView
    BY DEF OtherTypes
<1>4. QED
    BY <1>1, <1>2, <1>3 DEF ArchiveKept, Invalid

(* Ticks do not end a view.                                                *)
LEMMA CancelTypes ==
    ASSUME SourceInv, OtherTypes, NEW map, CancelTick(map)
    PROVE  /\ cancel' \in [phase : CancelPhase, limit : Nat]
           /\ syntax' \in [done : BOOLEAN, seen : SUBSET Task]
<1>1. cancel' = cancel \/ \E phase \in CancelPhase : ToPhase(phase)
    BY DEF CancelTick, DiscardStep, CancelSyntax, CancelQueue, CancelParked, CancelReaders,
           CancelInspections, CancelWaiters, CancelRoots, CancelCollect, CancelDone, CancelPhase
<1>2. \/ syntax' = syntax
      \/ syntax' = [syntax EXCEPT !.done = TRUE]
      \/ \E t \in Unpromoted : syntax' = [syntax EXCEPT !.seen = @ \cup {t}]
    BY DEF CancelTick, DiscardStep, CancelSyntax, CancelQueue, CancelParked, CancelReaders,
           CancelInspections, CancelWaiters, CancelRoots, CancelCollect, CancelDone, Promote
<1>3. Unpromoted \subseteq Task
    BY DEF Unpromoted, Live
<1>4. cancel' \in [phase : CancelPhase, limit : Nat]
    BY <1>1 DEF OtherTypes, ToPhase
<1>5. syntax \in [done : BOOLEAN, seen : SUBSET Task]
    BY DEF OtherTypes
<1>6. ASSUME NEW t \in Unpromoted, syntax' = [syntax EXCEPT !.seen = @ \cup {t}]
      PROVE  syntax' \in [done : BOOLEAN, seen : SUBSET Task]
  <2>1. syntax.seen \cup {t} \in SUBSET Task
    BY <1>3, <1>5
  <2>2. QED
    BY <1>5, <1>6, <2>1
<1>7. CASE syntax' = [syntax EXCEPT !.done = TRUE]
    BY <1>4, <1>5, <1>7
<1>8. QED
    BY <1>2, <1>4, <1>5, <1>6, <1>7

(* The tick that ends the roots asks for the collection, so nothing has to *)
(* be empty before it.                                                     *)
LEMMA TickEmptied ==
    ASSUME HeapInv, Canceled, Idle, NEW map, CancelTick(map), Served,
           Ids(inspections') = Ids(inspections), snapshots' = snapshots, collector' = collector
    PROVE  Emptied'
<1> SUFFICES ASSUME Released', ~requested', Ids(snapshots) = {}, Ids(inspections) = {}
             PROVE  /\ heap'.conditions = {} /\ heap'.rows = {} /\ LiveIn(heap'.book) = {}
                    /\ birth' = None
    BY DEF Emptied, Ids
<1>1. ~requested /\ cancel.phase # "Roots" /\ OtherTypes
    BY DEF Served, HeapInv
<1>2. Released => /\ heap.conditions = {} /\ heap.rows = {} /\ LiveIn(heap.book) = {}
                  /\ birth = None
    BY <1>1 DEF HeapInv, Emptied, Idle
<1>3. CASE DiscardStep \/ CancelCollect
    BY <1>2, <1>3 DEF DiscardStep, CancelCollect, source, Released
<1>4. CASE CancelDone
    BY <1>2, <1>4 DEF CancelDone, source, Released
<1>5. ASSUME cancel' = cancel, cancel.phase \notin {"Collect", "Done"} PROVE FALSE
    BY <1>5 DEF Released
<1>6. ASSUME NEW phase \in CancelPhase, ToPhase(phase), phase \notin {"Collect", "Done"} PROVE FALSE
    BY <1>1, <1>6, PhaseIs DEF Released
<1>7. CASE CancelSyntax
    BY <1>5, <1>6, <1>7 DEF CancelSyntax, CancelPhase
<1>8. CASE CancelQueue
    BY <1>5, <1>6, <1>8 DEF CancelQueue, CancelPhase
<1>9. CASE CancelParked
    BY <1>5, <1>6, <1>9 DEF CancelParked, CancelPhase
<1>10. CASE CancelReaders
    BY <1>5, <1>6, <1>10 DEF CancelReaders, CancelPhase
<1>11. CASE CancelWaiters
    BY <1>5, <1>6, <1>11 DEF CancelWaiters, CancelPhase
<1>12. CASE CancelInspections(map)
    BY <1>5, <1>6, <1>12 DEF CancelInspections, CancelPhase
<1>13. CASE CancelRoots
    BY <1>1, <1>13 DEF CancelRoots
<1>14. QED
    BY <1>3, <1>4, <1>7, <1>8, <1>9, <1>10, <1>11, <1>12, <1>13 DEF CancelTick

(* A tick of a cancellation, with the inspections `map'.                   *)
LEMMA CancelTickKeeps ==
    ASSUME HeapInv, Canceled, Idle, NEW map \in [View -> Looking \cup {None}],
           Looks(inspections, map, {}), Ids(map) = Ids(inspections),
           map = inspections \/ cancel.phase # "Done", CancelTick(map), Served,
           UNCHANGED <<kept, archive, collector, snapshots, nextView>>
    PROVE  HeapInv'
<1>1. SourceInv /\ OtherTypes /\ heap \in Store
    BY DEF HeapInv, SourceInv, StoreSound
<1>2. Kept
    BY <1>1, CancelKeeps
<1>3. Looks(inspections, inspections', Known') /\ Ids(inspections') = Ids(inspections)
    BY <1>1, CancelLooks
<1>4. Emptied'
    BY <1>3, TickEmptied
<1>5. OtherTypesAfter
    BY <1>1, CancelTypes DEF OtherTypesAfter, OtherTypes, Served
<1>6. SnapshotsGo /\ ArchiveKept'
    BY <1>1, SnapshotsStay, SameArchive DEF HeapInv
<1>7. QED
    BY <1>2, <1>3, <1>4, <1>5, <1>6, RestKeeps

(* A tick that is served.                                                  *)
LEMMA ServeKeeps ==
    ASSUME HeapInv, Idle, Serve, UNCHANGED <<snapshots, nextView>>
    PROVE  HeapInv'
<1>1. /\ SourceInv /\ OtherTypes /\ heap \in Store /\ Served /\ UNCHANGED <<kept, archive, collector>>
      /\ inspections \in [View -> Looking \cup {None}]
    BY DEF HeapInv, SourceInv, StoreSound, Serve, OtherTypes
<1>2. SnapshotsGo /\ ArchiveKept'
    BY <1>1, SnapshotsStay, SameArchive DEF HeapInv
<1>3. CASE Canceled /\ CancelTick(inspections)
  <2>1. PICK map, known : map = inspections /\ known = {}
    OBVIOUS
  <2>2. Looks(map, map, known) /\ map \in [View -> Looking \cup {None}]
    BY <1>1, <2>1, LooksItself
  <2>3. QED
    BY <1>1, <1>3, <2>1, <2>2, CancelTickKeeps
<1>4. CASE ~Canceled /\ ServiceInspection /\ UNCHANGED <<owners, source, syntax, cancel, steps>>
  <2>1. PICK i \in Ids(inspections) : InspectionTick(Due(i), i)
    BY <1>4 DEF ServiceInspection
  <2>2. Kept
    BY <1>1, <1>4, <2>1, TickKeeps
  <2>3. Looks(inspections, inspections', Known') /\ Ids(inspections') = Ids(inspections)
    BY <1>1, <2>1, ServiceLooks
  <2>4. Emptied'
    BY <2>1, <2>3 DEF Emptied, Ids
  <2>5. OtherTypesAfter
    BY <1>1, <1>4 DEF OtherTypesAfter, OtherTypes, Served
  <2>6. QED
    BY <1>1, <1>2, <2>2, <2>3, <2>4, <2>5, RestKeeps
<1>5. CASE ~Canceled /\ Source
  <2>1. Kept
    BY <1>1, <1>5, SourceKeeps
  <2>2. inspections' = inspections /\ cancel' = cancel /\ syntax' = syntax
    BY <1>5 DEF Source
  <2>3. Looks(inspections, inspections', Known')
    <3>1. PICK map, known : map = inspections /\ known = Known'
      OBVIOUS
    <3>2. Looks(map, map, known)
      BY <1>1, <3>1, LooksItself
    <3>3. QED
      BY <2>2, <3>1, <3>2
  <2>4. Emptied'
    BY <1>5, <2>2 DEF Emptied, Released, Canceled
  <2>5. OtherTypesAfter
    BY <1>1, <2>2 DEF OtherTypesAfter, OtherTypes, Served
  <2>6. QED
    BY <1>1, <1>2, <2>1, <2>3, <2>4, <2>5, RestKeeps
<1>6. QED
    BY <1>3, <1>4, <1>5 DEF Serve

(* The inspections as that tick finds them.                                *)
LEMMA DueIs ==
    ASSUME OtherTypes, NEW i \in Ids(inspections)
    PROVE  \E map \in [View -> Looking \cup {None}] :
              map = Due(i) /\ Looks(inspections, map, {}) /\ Ids(map) = Ids(inspections)
<1>1. PICK map, known : map = Due(i) /\ known = {}
    OBVIOUS
<1>2. Looks(inspections, map, known) /\ Ids(map) = Ids(inspections)
    BY <1>1, DueLooks
<1>3. QED
    BY <1>1, <1>2 DEF Looks

(* The tick of advance_inspection.                                         *)
LEMMA InspectionKeeps ==
    ASSUME HeapInv, Idle, NEW i \in Ids(inspections),
           IF Canceled /\ cancel.phase # "Done" THEN CancelTick(Due(i))
           ELSE /\ InspectionTick(Due(i), i)
                /\ UNCHANGED <<owners, source, syntax, cancel>>,
           Served, UNCHANGED <<kept, archive, collector, snapshots, nextView>>
    PROVE  HeapInv'
<1>1. SourceInv /\ OtherTypes /\ heap \in Store
    BY DEF HeapInv, SourceInv, StoreSound
<1>2. CASE Canceled /\ cancel.phase # "Done"
  <2>1. PICK map \in [View -> Looking \cup {None}] :
            map = Due(i) /\ Looks(inspections, map, {}) /\ Ids(map) = Ids(inspections)
    BY <1>1, DueIs
  <2>2. QED
    BY <1>2, <2>1, CancelTickKeeps
<1>3. CASE ~(Canceled /\ cancel.phase # "Done")
  <2>1. Kept
    BY <1>1, <1>3, TickKeeps
  <2>2. Looks(inspections, inspections', Known') /\ Ids(inspections') = Ids(inspections)
    BY <1>1, <1>3, ServiceLooks
  <2>3. Emptied'
    BY <2>2 DEF Emptied, Ids
  <2>4. OtherTypesAfter
    BY <1>1, <1>3 DEF OtherTypesAfter, OtherTypes, Served
  <2>5. SnapshotsGo /\ ArchiveKept'
    BY <1>1, SnapshotsStay, SameArchive DEF HeapInv
  <2>6. QED
    BY <2>1, <2>2, <2>3, <2>4, <2>5, RestKeeps
<1>4. QED
    BY <1>2, <1>3

(* The host changes none of what the source holds.                         *)
LEMMA SameKeeps ==
    ASSUME SourceInv, UNCHANGED <<owners, source, syntax, heap, collector>>,
           cancel' = cancel \/ (~Canceled /\ cancel'.phase = "Syntax")
    PROVE  Kept
BY StoresStay, OwnersKeep DEF SourceInv

(* The host takes an answer from a view, or drops or releases it.          *)
LEMMA OneViewKeeps ==
    ASSUME HeapInv, NEW i \in View, OneView(i)
    PROVE  HeapInv'
<1>1. /\ SourceInv /\ OtherTypes /\ UNCHANGED <<owners, source, syntax, heap, kept, collector>>
      /\ UNCHANGED <<archive, snapshots, nextView, cancel>>
    BY DEF OneView, engineVars, source, HeapInv
<1>2. Kept
    BY <1>1, SameKeeps
<1>3. SnapshotsGo /\ ArchiveKept'
    BY <1>1, SnapshotsStay, SameArchive DEF HeapInv
<1>4. i \in Ids(inspections) /\ inspections \in [View -> Looking \cup {None}]
    BY <1>1 DEF OneView, CancelInspection, TakeOutput, ReleaseInspection, DiscardInspection, Ids,
                OtherTypes
<1>14. True \in Known'
    BY DEF Known
<1>5. PICK map, known : map = inspections /\ known = Known' /\ True \in known
    BY <1>14
<1>6. /\ map \in [View -> Looking \cup {None}] /\ i \in Ids(map) /\ map[i] \in Looking
    BY <1>4, <1>5, IsLooking
<1>7. ASSUME NEW w \in Looking, w.snapshot \in {map[i].snapshot, None},
             w.scope \in {map[i].scope, True}, inspections' = Put(map, i, w), requested' = requested
      PROVE  HeapInv'
  <2>1. PICK new : new = inspections'
    OBVIOUS
  <2>2. w.scope \in {map[i].scope} \cup known
    BY <1>5, <1>7
  <2>3. Looks(map, new, known) /\ Ids(new) = Ids(map)
    BY <1>6, <1>7, <2>1, <2>2, OneLooks
  <2>4. Looks(inspections, inspections', Known') /\ Ids(inspections') = Ids(inspections)
    BY <1>5, <2>1, <2>3
  <2>5. Emptied'
    BY <1>4, <2>4 DEF Emptied, Ids
  <2>6. OtherTypesAfter
    BY <1>1, <1>7 DEF OtherTypesAfter, OtherTypes
  <2>7. QED
    BY <1>1, <1>2, <1>3, <2>4, <2>5, <2>6, RestKeeps
<1>8. PICK v \in Looking : /\ v = Discarding(map[i])
                           /\ v.snapshot = map[i].snapshot /\ v.scope = map[i].scope
    BY <1>6, DiscardingLooks
<1>9. CASE CancelInspection(i)
  <2>1. inspections' = Put(map, i, v) /\ requested' = requested
    BY <1>5, <1>8, <1>9 DEF CancelInspection, Put
  <2>2. QED
    BY <1>7, <1>8, <2>1
<1>10. CASE TakeOutput(i)
  <2>1. PICK w : w = [map[i] EXCEPT !.phase = "Project"]
    OBVIOUS
  <2>2. w \in Looking /\ w.snapshot = map[i].snapshot /\ w.scope = map[i].scope
    BY <1>6, <2>1 DEF Looking
  <2>3. inspections' = Put(map, i, w) /\ requested' = requested
    BY <1>5, <1>10, <2>1 DEF TakeOutput, Put
  <2>4. QED
    BY <1>7, <2>2, <2>3
<1>11. CASE DiscardInspection(i)
  <2>1. PICK w \in Looking : /\ w = Drained(v)
                             /\ w.snapshot \in {v.snapshot, None} /\ w.scope \in {v.scope, True}
    BY DrainedLooks
  <2>2. inspections' = Put(map, i, w) /\ requested' = requested
    BY <1>5, <1>8, <1>11, <2>1 DEF DiscardInspection, Put
  <2>3. QED
    BY <1>7, <1>8, <2>1, <2>2
<1>12. CASE ReleaseInspection(i)
  <2>1. inspections' = Put(map, i, None) /\ requested' = TRUE
    BY <1>5, <1>12 DEF ReleaseInspection, Put
  <2>2. Looks(inspections, inspections', Known')
    BY <1>5, <1>6, <2>1 DEF Looks, Put, Ids
  <2>3. Emptied'
    BY <2>1 DEF Emptied
  <2>4. OtherTypesAfter
    BY <1>1, <2>1 DEF OtherTypesAfter, OtherTypes
  <2>5. QED
    BY <1>1, <1>2, <1>3, <2>2, <2>3, <2>4, RestKeeps
<1>13. QED
    BY <1>9, <1>10, <1>11, <1>12 DEF OneView

(* Nothing happens to the inspections.                                     *)
LEMMA SameLooks ==
    ASSUME OtherTypes, inspections' = inspections
    PROVE  Looks(inspections, inspections', Known')
<1>1. PICK map, known : map = inspections /\ known = Known'
    OBVIOUS
<1>2. Looks(map, map, known)
    BY <1>1, LooksItself DEF OtherTypes
<1>3. QED
    BY <1>1, <1>2

(* A snapshot is released.                                                 *)
LEMMA ReleaseKeeps ==
    ASSUME HeapInv, NEW i \in View, ReleaseSnapshot(i)
    PROVE  HeapInv'
<1>1. /\ SourceInv /\ OtherTypes /\ UNCHANGED <<owners, source, syntax, heap, kept, collector>>
      /\ UNCHANGED <<inspections, nextView, cancel>>
      /\ snapshots' = [snapshots EXCEPT ![i] = None] /\ archive' = Invalid /\ requested' = TRUE
    BY DEF ReleaseSnapshot, engineVars, source, HeapInv
<1>2. Kept
    BY <1>1, SameKeeps
<1>3. SnapshotsGo
    BY <1>1 DEF OtherTypes, SnapshotsGo, Ids
<1>4. ArchiveKept' /\ archive' \in [after : Nat, reset : BOOLEAN]
    BY <1>1, <1>3, InvalidArchive DEF HeapInv
<1>5. Emptied'
    BY <1>1 DEF Emptied
<1>6. OtherTypesAfter
    BY <1>1, <1>4 DEF OtherTypesAfter, OtherTypes
<1>7. QED
    BY <1>1, <1>2, <1>3, <1>4, <1>5, <1>6, SameLooks, RestKeeps

(* The host cancels.                                                       *)
LEMMA CancelsKeep ==
    ASSUME HeapInv, Cancel
    PROVE  HeapInv'
<1>1. /\ SourceInv /\ OtherTypes /\ UNCHANGED <<owners, source, syntax, heap, kept, collector>>
      /\ UNCHANGED <<archive, snapshots, inspections, nextView, requested>>
      /\ ~Canceled /\ cancel' = [phase |-> "Syntax", limit |-> nextView - 1]
    BY DEF Cancel, engineVars, source, views, HeapInv
<1>2. Kept
    BY <1>1, SameKeeps
<1>3. SnapshotsGo /\ ArchiveKept'
    BY <1>1, SnapshotsStay, SameArchive DEF HeapInv
<1>4. Emptied'
    BY <1>1 DEF Emptied, Released
<1>5. nextView - 1 \in Nat
    BY <1>1 DEF OtherTypes
<1>6. OtherTypesAfter
    BY <1>1, <1>5 DEF OtherTypesAfter, OtherTypes, CancelPhase
<1>7. QED
    BY <1>1, <1>2, <1>3, <1>4, <1>6, SameLooks, RestKeeps

-----------------------------------------------------------------------------
(* A collection begins, or waits for the lane.                             *)

(* The collection takes the lane or waits for it.                          *)
LEMMA LaneKeeps ==
    ASSUME SourceInv, ~Canceled, UNCHANGED owners \/ ScalarTake(Collection) \/ ScalarWait(Collection)
    PROVE  TypeOK' /\ OneEntry' /\ OwnerRuns' /\ Placed' = Placed
<1>1. TypeOK /\ OneEntry /\ OwnerRuns
    BY Runner
<1>2. CASE UNCHANGED owners
    BY <1>1, <1>2, SameOwners
<1>3. CASE ScalarTake(Collection) \/ ScalarWait(Collection)
  <2>1. PICK s \in Scalar : s = Collection
    BY CollectionIsAnOwner
  <2>2. Next
    BY <1>3, <2>1 DEF Next
  <2>3. QED
    BY <1>1, <1>3, <2>1, <2>2, LaneSteps, ScalarPlaced
<1>4. QED
    BY <1>2, <1>3

(* It waits before it begins.                                              *)
LEMMA WaitKeeps ==
    ASSUME HeapInv, QueueForLane, UNCHANGED <<snapshots, nextView>>
    PROVE  HeapInv'
<1>1. /\ SourceInv /\ OtherTypes /\ UNCHANGED <<source, syntax, heap, kept, archive>>
      /\ UNCHANGED <<inspections, cancel, collector, requested>>
      /\ ~Canceled /\ ScalarWait(Collection)
    BY DEF QueueForLane, MayOwn, HeapInv
<1>2. TypeOK' /\ OneEntry' /\ OwnerRuns' /\ Placed' = Placed
    BY <1>1, LaneKeeps
<1>3. StoreSound' /\ Grows
    BY <1>1, StoresStay DEF SourceInv
<1>4. Early /\ heap'.book = heap.book
    BY <1>1 DEF Canceled, Early
<1>5. Kept
    BY <1>1, <1>2, <1>3, <1>4, GrowthKeeps
<1>6. SnapshotsGo /\ ArchiveKept'
    BY <1>1, SnapshotsStay, SameArchive DEF HeapInv
<1>7. Emptied'
    BY <1>1 DEF Emptied, Released, Canceled
<1>8. OtherTypesAfter
    BY <1>1 DEF OtherTypesAfter, OtherTypes
<1>9. QED
    BY <1>1, <1>5, <1>6, <1>7, <1>8, SameLooks, RestKeeps

(* A collection begins, with the lane or without.                          *)
LEMMA BeginKeeps ==
    ASSUME HeapInv, NEW semantic, Begin(semantic), Looks(inspections, inspections', Known'),
           UNCHANGED <<snapshots, nextView>>
    PROVE  HeapInv'
<1>1. /\ SourceInv /\ OtherTypes /\ UNCHANGED <<source, syntax, heap, kept, cancel>>
      /\ archive' \in {archive, Invalid} /\ requested' = FALSE
    BY DEF Begin, HeapInv
<1>2. PICK owns \in BOOLEAN :
        /\ IF owns THEN AcquireLane(semantic) ELSE FailToAcquire(semantic)
        /\ collector' = [owns |-> owns]
    BY DEF Begin
<1>3. collector' \in [owns : BOOLEAN] /\ collector' # None /\ collector'.owns = owns
    BY <1>2, NoneAndTrueApart
<1>4. StoreSound' /\ Grows /\ heap'.book = heap.book
    BY <1>1, StoresStay DEF SourceInv
<1>5. Kept
  <2>1. CASE ~Canceled
    <3>1. UNCHANGED owners \/ ScalarTake(Collection) \/ ScalarWait(Collection)
      BY <1>2 DEF AcquireLane, FailToAcquire
    <3>2. TypeOK' /\ OneEntry' /\ OwnerRuns' /\ Placed' = Placed
      BY <1>1, <2>1, <3>1, LaneKeeps
    <3>3. Early
      BY <2>1 DEF Canceled, Early
    <3>4. QED
      BY <1>1, <1>4, <3>2, <3>3, GrowthKeeps
  <2>2. CASE Canceled
    <3>1. ~MayOwn(semantic)
      BY <2>2 DEF MayOwn
    <3>2. ~owns /\ UNCHANGED owners
      BY <1>2, <3>1 DEF AcquireLane, FailToAcquire
    <3>3. /\ TypeOK' /\ OneEntry' /\ (Early => OwnerRuns') /\ Placed' = Placed
      BY <1>1, <3>2, SameOwners DEF SourceInv, Places
    <3>4. UNCHANGED <<runnable, waiting>> /\ ~CollectorOwns'
      BY <1>3, <3>2 DEF owners, CollectorOwns
    <3>5. QED
      BY <1>1, <1>4, <3>3, <3>4, GrowthKeeps
  <2>3. QED
    BY <2>1, <2>2
<1>6. ArchiveKept' /\ archive' \in [after : Nat, reset : BOOLEAN]
  <2>1. CASE archive' = archive
    BY <1>1, <2>1, SameArchive DEF HeapInv, OtherTypes
  <2>2. CASE archive' = Invalid
    BY <1>1, <2>2, SnapshotsStay, InvalidArchive DEF HeapInv
  <2>3. QED
    BY <1>1, <2>1, <2>2
<1>7. Emptied'
    BY <1>3 DEF Emptied, Idle
<1>8. OtherTypesAfter
    BY <1>1, <1>3, <1>6 DEF OtherTypesAfter, OtherTypes
<1>9. QED
    BY <1>1, <1>5, <1>6, <1>7, <1>8, SnapshotsStay, RestKeeps

-----------------------------------------------------------------------------
(* Captures.                                                               *)

(* Before the first capture every body gets its descriptor; a capture then *)
(* fixes all that there are.                                               *)
LEMMA PromotedBook ==
    ASSUME SourceInv, NEW r \in Promoted
    PROVE  /\ After(heap.book, r.book)
           /\ r.pending \in PendingMap /\ DOMAIN r.pending = DOMAIN pending
           /\ OwnBodies(r.pending) /\ Bodies(r.pending) \subseteq LiveIn(r.book)
           /\ \A d \in LiveIn(r.book) : Fixed(r.book, d)
           /\ \A d \in LiveIn(r.book) : LET parts == r.book.descriptors[d].parts
                                        IN parts # None => parts.guard \in Known
           /\ ~Canceled => \A t \in Live : Remaining(r.book, r.pending)[t] = Parts(tasks[t].body)
<1> DEFINE N == IF syntax.done THEN {}
                ELSE {t \in Unpromoted : Parts(tasks[t].body) # None}
           B(f) == [book |-> Frozen([heap.book EXCEPT !.descriptors =
                    [d \in Descriptor |->
                        IF \E t \in N : f[t] = d
                        THEN [parts |-> Parts(tasks[CHOOSE t \in N : f[t] = d].body),
                              epoch |-> heap.book.epoch]
                        ELSE @[d]]]),
               pending |-> [t \in DOMAIN pending |-> IF t \in N THEN f[t] ELSE pending[t]]]
<1>1. PICK S : S = N
    OBVIOUS
<1>2. PICK f \in Injection(S, FreeIn(heap.book)) :
          r = [book |-> Frozen([heap.book EXCEPT !.descriptors =
                    [d \in Descriptor |->
                        IF \E t \in S : f[t] = d
                        THEN [parts |-> Parts(tasks[CHOOSE t \in S : f[t] = d].body),
                              epoch |-> heap.book.epoch]
                        ELSE @[d]]]),
               pending |-> [t \in DOMAIN pending |-> IF t \in S THEN f[t] ELSE pending[t]]]
  <2>1. r \in {B(f) : f \in Injection(N, FreeIn(heap.book))}
    BY Zenon DEF Promoted
  <2>2. PICK f \in Injection(N, FreeIn(heap.book)) : r = B(f)
    <3> HIDE DEF N, B
    <3>1. QED
      BY <2>1
  <2>3. QED
    BY <1>1, <2>2
<1>3. f \in [S -> FreeIn(heap.book)] /\ IsInjective(f)
    BY <1>2 DEF Injection
<1>4. /\ pending \in PendingMap /\ OwnBodies(pending) /\ Bodies(pending) \subseteq LiveIn(heap.book)
      /\ IsBook(heap.book) /\ tasks \in [Task -> Payload \cup {None}]
    BY DEF SourceInv, SourceTypes, StateHeld, StoreSound
<1>5. DOMAIN pending \in SUBSET Task /\ pending \in [DOMAIN pending -> Descriptor \cup {None}]
    BY <1>4, MapIs DEF PendingMap
<1>6. S \subseteq Live
    BY <1>1 DEF Unpromoted
<1>7. \A t \in S : tasks[t].body \in Body /\ tasks[t].body.guard \in Known
    BY <1>4, <1>6 DEF Live, Payload, SourceInv, StateHeld, PayloadHeld
<1>8. PICK p : p = [t \in S |-> Parts(tasks[t].body)]
    OBVIOUS
<1>9. p \in [S -> Body \cup {None}]
    BY <1>7, <1>8, PartsAreParts
<1>10. PICK old, a, b, m : old = heap.book /\ a = AllWith(old, S, f, p) /\ b = r.book /\ m = r.pending
    OBVIOUS
<1>11. b = Frozen(a)
  <2>1. \A d \in Descriptor : (\E t \in S : f[t] = d) =>
            Parts(tasks[CHOOSE t \in S : f[t] = d].body) = p[CHOOSE t \in S : f[t] = d]
    BY <1>8
  <2>2. [d \in Descriptor |->
                        IF \E t \in S : f[t] = d
                        THEN [parts |-> Parts(tasks[CHOOSE t \in S : f[t] = d].body),
                              epoch |-> heap.book.epoch]
                        ELSE heap.book.descriptors[d]]
        = [d \in Descriptor |-> IF \E t \in S : f[t] = d
                              THEN [parts |-> p[CHOOSE t \in S : f[t] = d], epoch |-> heap.book.epoch]
                              ELSE heap.book.descriptors[d]]
    BY <2>1
  <2>3. a = [heap.book EXCEPT !.descriptors =
                    [d \in Descriptor |->
                        IF \E t \in S : f[t] = d
                        THEN [parts |-> Parts(tasks[CHOOSE t \in S : f[t] = d].body),
                              epoch |-> heap.book.epoch]
                        ELSE @[d]]]
    BY <1>10, <2>2 DEF AllWith
  <2>4. QED
    BY <1>2, <1>10, <2>3
<1>12. IsBook(old) /\ f \in [S -> FreeIn(old)]
    BY <1>3, <1>4, <1>10
<1>13. /\ After(old, a)
       /\ \A t \in S : f[t] \in LiveIn(a) \ LiveIn(old) /\ a.descriptors[f[t]].parts = p[t]
       /\ \A d \in LiveIn(old) : d \in LiveIn(a) /\ a.descriptors[d] = old.descriptors[d]
       /\ \A d \in LiveIn(a) : d \in LiveIn(old) \/ \E t \in S : f[t] = d
    BY <1>3, <1>9, <1>10, <1>12, AllocatedBook
<1>14. IsBook(a)
    BY <1>13 DEF After
<1>15. /\ After(a, b) /\ b.descriptors = a.descriptors
       /\ \A d \in LiveIn(a) : Fixed(b, d)
    BY <1>11, <1>14, FrozenBook
<1>16. After(old, b) /\ LiveIn(b) = LiveIn(a)
    BY <1>12, <1>13, <1>15, AfterTwice DEF LiveIn
<1>17. m = [t \in DOMAIN pending |-> IF t \in S THEN f[t] ELSE pending[t]]
    BY <1>2, <1>10
<1>18. m \in PendingMap /\ DOMAIN m = DOMAIN pending
  <2>1. \A t \in S : f[t] \in Descriptor
    BY <1>3 DEF FreeIn
  <2>2. m \in [DOMAIN pending -> Descriptor \cup {None}]
    BY <1>5, <1>17, <2>1
  <2>3. PICK T \in SUBSET Task : T = DOMAIN pending
    BY <1>5
  <2>4. QED
    BY <2>2, <2>3, IsMap DEF PendingMap
<1>19. \A t \in DOMAIN pending : pending[t] # None => pending[t] \in LiveIn(old)
    BY <1>4, <1>10, BodiesOf
<1>20. OwnBodies(m)
  <2> SUFFICES ASSUME NEW t \in DOMAIN pending, NEW u \in DOMAIN pending, m[t] = m[u], m[t] # None
               PROVE  t = u
      BY <1>18 DEF OwnBodies
  <2>1. CASE t \in S /\ u \in S
    BY <1>3, <1>17, <2>1 DEF IsInjective
  <2>2. CASE t \notin S /\ u \notin S
    BY <1>4, <1>17, <2>2 DEF OwnBodies
  <2>3. CASE t \in S /\ u \notin S
    BY <1>13, <1>17, <1>19, <2>3
  <2>4. CASE t \notin S /\ u \in S
    BY <1>13, <1>17, <1>19, <2>4
  <2>5. QED
    BY <2>1, <2>2, <2>3, <2>4
<1>21. Bodies(m) \subseteq LiveIn(b)
  <2> SUFFICES ASSUME NEW t \in DOMAIN pending, m[t] # None PROVE m[t] \in LiveIn(b)
      BY <1>18 DEF Bodies, Range
  <2>1. QED
    BY <1>13, <1>16, <1>17, <1>19
<1>22. \A d \in LiveIn(b) : b.descriptors[d].parts # None => b.descriptors[d].parts.guard \in Known
  <2> SUFFICES ASSUME NEW d \in LiveIn(b), b.descriptors[d].parts # None
               PROVE  b.descriptors[d].parts.guard \in Known
      OBVIOUS
  <2>1. CASE d \in LiveIn(old)
    BY <1>10, <1>13, <1>15, <2>1 DEF SourceInv, StoreSound
  <2>2. ASSUME NEW t \in S, f[t] = d PROVE b.descriptors[d].parts.guard \in Known
    <3>1. b.descriptors[d].parts = Parts(tasks[t].body)
      BY <1>8, <1>13, <1>15, <2>2
    <3>2. Parts(tasks[t].body).guard = tasks[t].body.guard
      BY <1>7, <3>1, PartsAreParts
    <3>3. QED
      BY <1>7, <3>1, <3>2
  <2>3. QED
    BY <1>13, <1>16, <2>1, <2>2
<1>23. ASSUME ~Canceled, NEW t \in Live PROVE Remaining(b, m)[t] = Parts(tasks[t].body)
  <2>1. t \in DOMAIN pending /\ t \in DOMAIN m
    BY <1>18, <1>23, Runner
  <2>2. CASE syntax.done
    <3>1. m[t] = pending[t]
      BY <1>1, <1>17, <2>1, <2>2
    <3>2. Remaining(heap.book, pending)[t] = Parts(tasks[t].body)
      BY <1>23, <2>2 DEF SourceInv, BodiesTold
    <3>3. pending[t] # None => b.descriptors[pending[t]] = heap.book.descriptors[pending[t]]
      BY <1>10, <1>13, <1>15, <1>19, <2>1
    <3>4. QED
      BY <2>1, <3>1, <3>2, <3>3, TellsOf
  <2>3. CASE ~syntax.done
    <3>1. pending[t] = None /\ Unpromoted = Live
      BY <1>23, <2>1, <2>3 DEF SourceInv, Stages, Unpromoted
    <3>2. CASE t \in S
      <4>1. m[t] = f[t] /\ f[t] \in LiveIn(b) /\ b.descriptors[f[t]].parts = p[t]
        BY <1>13, <1>15, <1>16, <1>17, <2>1, <3>2
      <4>2. f[t] # None
        BY <4>1, NoneAndTrueApart DEF LiveIn
      <4>3. QED
        BY <1>8, <2>1, <3>2, <4>1, <4>2, TellsOf
    <3>3. CASE t \notin S
      <4>1. m[t] = None
        BY <1>17, <2>1, <3>1, <3>3
      <4>2. Parts(tasks[t].body) = None
        BY <1>1, <2>3, <3>1, <3>3
      <4>3. QED
        BY <2>1, <4>1, <4>2, TellsOf
    <3>4. QED
      BY <3>2, <3>3
  <2>4. QED
    BY <2>2, <2>3
<1>24. QED
    BY <1>10, <1>15, <1>16, <1>18, <1>20, <1>21, <1>22, <1>23

(* Everything that is there is told and fixed.                             *)
LEMMA TakenKeeps ==
    ASSUME SourceInv, OtherTypes, NEW r \in Promoted, TakeSnapshot(r), UNCHANGED <<engineVars, cancel>>
    PROVE  /\ Kept
           /\ \E taken : taken = Shot(r) /\ taken \in Captured /\ ShotHeld(taken)'
           /\ syntax' \in [done : BOOLEAN, seen : SUBSET Task]
<1>1. PICK b, m : b = r.book /\ m = r.pending
    OBVIOUS
<1>2. /\ After(heap.book, b)
      /\ m \in PendingMap /\ DOMAIN m = DOMAIN pending
      /\ OwnBodies(m) /\ Bodies(m) \subseteq LiveIn(b)
      /\ \A d \in LiveIn(b) : Fixed(b, d)
      /\ \A d \in LiveIn(b) : b.descriptors[d].parts # None => b.descriptors[d].parts.guard \in Known
      /\ ~Canceled => \A t \in Live : Remaining(b, m)[t] = Parts(tasks[t].body)
    BY <1>1, PromotedBook
<1>3. /\ UNCHANGED <<owners, tasks, graph, birth, reader, collector, cancel>>
      /\ heap' = [rows |-> heap.rows, conditions |-> heap.conditions, book |-> b]
      /\ pending' = m /\ syntax' = [syntax EXCEPT !.done = TRUE] /\ heap \in Store
    BY <1>1 DEF TakeSnapshot, engineVars, WithBook, SourceInv, StoreSound, Store
<1>4. heap'.rows = heap.rows /\ heap'.conditions = heap.conditions /\ heap'.book = b
    BY <1>3
<1>5. syntax' \in [done : BOOLEAN, seen : SUBSET Task] /\ syntax'.done /\ syntax'.seen = syntax.seen
    BY <1>3 DEF OtherTypes
<1>6. StoreSound' /\ Grows
  <2>1. heap' \in Store
    BY <1>2, <1>3 DEF Store, After, IsBook
  <2>2. QED
    BY <1>2, <1>4, <2>1 DEF StoreSound, Known, Grows, After, SourceInv
<1>7. Live' = Live
    BY <1>3 DEF Live
<1>8. Places'
    BY <1>3, SamePlaces DEF SourceInv, Early
<1>9. Stages'
    BY <1>2, <1>3, <1>5, <1>7 DEF SourceInv, Stages, Idle, Early, Released, Canceled, owners
<1>10. StateHeld'
  <2>1. \A t \in Live' : PayloadHeld(tasks[t])'
    BY <1>3, <1>4, <1>7 DEF SourceInv, StateHeld, PayloadHeld, Known
  <2>2. graph' \subseteq heap'.rows /\ birth' \in heap'.conditions \cup {None}
    BY <1>3, <1>4 DEF SourceInv, StateHeld
  <2>3. QED
    BY <1>2, <1>3, <1>4, <2>1, <2>2 DEF StateHeld
<1>11. ReaderHeld'
    BY <1>3, <1>6, ReaderStays DEF SourceInv
<1>12. BodiesTold'
    BY <1>2, <1>3, <1>4, <1>7 DEF BodiesTold, Canceled
<1>13. SourceTypes'
    BY <1>2, <1>3 DEF SourceInv, SourceTypes
<1>14. Kept
    BY <1>3, <1>6, <1>8, <1>9, <1>10, <1>11, <1>12, <1>13 DEF Kept, SourceInv
<1>15. PICK g, last, saw : g = graph /\ last = (birth # None) /\ saw = Remaining(b, m)
    OBVIOUS
<1>16. PICK shot : shot = Shot(r)
    OBVIOUS
<1>17. shot = [graph |-> g, pending |-> m, last |-> last, saw |-> saw]
    BY <1>1, <1>15, <1>16 DEF Shot
<1>18. shot \in Captured
  <2>1. g \in SUBSET Condition /\ last \in BOOLEAN
    BY <1>15 DEF SourceInv, SourceTypes
  <2>2. DOMAIN m \in SUBSET Task /\ m \in [DOMAIN m -> Descriptor \cup {None}]
    BY <1>2, MapIs DEF PendingMap
  <2>3. b.descriptors \in [Descriptor -> Record \cup {None}]
    BY <1>2 DEF After, IsBook, Table
  <2>4. \A t \in DOMAIN m : m[t] # None => b.descriptors[m[t]].parts \in Body \cup {None}
    <3>1. \A t \in DOMAIN m : m[t] # None => m[t] \in LiveIn(b)
      BY <1>2, BodiesOf
    <3>2. \A d \in LiveIn(b) : b.descriptors[d] \in Record
      BY <2>3 DEF LiveIn
    <3>3. QED
      BY <3>1, <3>2 DEF Record
  <2>5. PICK T \in SUBSET Task : T = DOMAIN m
    BY <2>2
  <2>6. saw \in [T -> Body \cup {None}]
    BY <1>15, <2>4, <2>5 DEF Remaining
  <2>7. saw \in MapsTo(Body \cup {None})
    BY <2>6, IsMap
  <2>8. QED
    BY <1>2, <1>17, <2>1, <2>7 DEF Captured
<1>19. ShotHeld(shot)'
  <2>1. shot.graph = graph /\ shot.pending = m /\ shot.saw = Remaining(b, m) /\ (birth = None => ~shot.last)
    BY <1>15, <1>17
  <2>2. \A d \in Bodies(shot.pending) : Fixed(heap'.book, d)
    BY <1>2, <1>4, <2>1
  <2>3. QED
    BY <1>3, <1>4, <2>1, <2>2 DEF ShotHeld, SourceInv, StateHeld
<1>20. \E taken : taken = Shot(r) /\ taken \in Captured /\ ShotHeld(taken)'
    BY <1>16, <1>18, <1>19
<1>21. QED
    BY <1>5, <1>14, <1>20

(* A view that begins: of a snapshot, or of the moment.                    *)
Begins(shot) == [snapshot |-> shot, phase |-> "Select", scope |-> True]

(* An inspection begins with the whole of its snapshot.                    *)
LEMMA Beginning ==
    ASSUME NEW shot \in Captured
    PROVE  /\ Begins(shot) \in Looking /\ Begins(shot) # None
           /\ Begins(shot).snapshot = shot /\ Begins(shot).scope = True
           /\ shot # None
BY NoneAndTrueApart DEF Begins, Looking, Guard

(* A view is added: it is not registered, and it holds nothing else.       *)
LEMMA ViewAdded ==
    ASSUME HeapInv, Kept, UNCHANGED <<kept, archive, cancel, collector, requested>>,
           nextView <= MaxView, nextView' = nextView + 1,
           syntax' \in [done : BOOLEAN, seen : SUBSET Task],
           NEW shot \in Captured, ShotHeld(shot)',
           \/ snapshots' = [snapshots EXCEPT ![nextView] = shot] /\ inspections' = inspections
           \/ snapshots' = snapshots /\ inspections' = [inspections EXCEPT ![nextView] = Begins(shot)]
    PROVE  HeapInv'
<1>1. /\ SourceInv /\ OtherTypes /\ ViewsHeld /\ KeptHeld /\ ArchiveKept
      /\ SourceInv' /\ Grows /\ (birth' = None => birth = None) /\ StoreSound
    BY DEF HeapInv, Kept, SourceInv
<1>2. /\ snapshots \in [View -> Captured \cup {None}]
      /\ inspections \in [View -> Looking \cup {None}]
      /\ nextView \in Nat \ {0} /\ archive.after \in Nat
    BY <1>1 DEF OtherTypes
<1>3. nextView \in View
    BY <1>2, HeapBounds DEF View
<1>4. /\ Begins(shot) \in Looking /\ Begins(shot) # None
      /\ Begins(shot).snapshot = shot /\ Begins(shot).scope = True
      /\ shot # None
    BY Beginning
<1>5. /\ snapshots' \in [View -> Captured \cup {None}]
      /\ inspections' \in [View -> Looking \cup {None}]
    BY <1>2, <1>4
<1>6. OtherTypes'
    BY <1>1, <1>2, <1>5 DEF OtherTypes
<1>7. Shots' \subseteq Shots \cup {shot}
  <2> SUFFICES ASSUME NEW s \in Shots' PROVE s \in Shots \cup {shot}
      OBVIOUS
  <2>1. CASE snapshots' = [snapshots EXCEPT ![nextView] = shot] /\ inspections' = inspections
    BY <1>2, <1>3, <1>4, <2>1 DEF Shots, Ids
  <2>2. CASE snapshots' = snapshots /\ inspections' = [inspections EXCEPT ![nextView] = Begins(shot)]
    <3>1. \A i \in View : inspections'[i] = IF i = nextView THEN Begins(shot) ELSE inspections[i]
      BY <1>2, <1>3, <2>2
    <3>2. QED
      BY <1>3, <1>4, <2>2, <3>1 DEF Shots, Ids
  <2>3. QED
    BY <2>1, <2>2
<1>8. \A s \in Shots' : ShotHeld(s)'
  <2> SUFFICES ASSUME NEW s \in Shots' PROVE ShotHeld(s)'
      OBVIOUS
  <2>1. CASE s = shot
    BY <2>1
  <2>2. CASE s \in Shots
    <3>1. ShotHeld(s)
      BY <1>1, <2>2 DEF ViewsHeld
    <3>2. QED
      BY <1>1, <3>1, ShotStays
  <2>3. QED
    BY <1>7, <2>1, <2>2
<1>9. \A i \in Ids(inspections') : inspections'[i].scope \in Known'
  <2>1. \A i \in Ids(inspections) : inspections[i].scope \in Known'
    BY <1>1 DEF ViewsHeld, Known, Grows
  <2>2. True \in Known'
    BY DEF Known
  <2>3. CASE inspections' = inspections
    BY <2>1, <2>3
  <2>4. CASE inspections' = [inspections EXCEPT ![nextView] = Begins(shot)]
    <3>1. \A i \in View : inspections'[i] = IF i = nextView THEN Begins(shot) ELSE inspections[i]
      BY <1>2, <1>3, <2>4
    <3>2. QED
      BY <1>4, <2>1, <2>2, <3>1 DEF Ids
  <2>5. QED
    BY <2>3, <2>4
<1>10. ViewsHeld'
    BY <1>8, <1>9 DEF ViewsHeld
<1>11. KeptHeld'
    BY <1>1, KeptStays
<1>12. nextView \in Ids(snapshots') \cup Ids(inspections')
    BY <1>2, <1>3, <1>4 DEF Ids
<1>13. \A i \in Ids(snapshots') : i = nextView \/ (i \in Ids(snapshots) /\ snapshots'[i] = snapshots[i])
    BY <1>2, <1>3 DEF Ids
<1>14. Ids(snapshots) \subseteq Ids(snapshots')
    BY <1>2, <1>3, <1>4 DEF Ids
<1>15. ArchiveKept'
  <2>1. \A i \in Ids(snapshots') : i <= archive.after =>
          /\ snapshots'[i].graph \subseteq kept.rows
          /\ Bodies(snapshots'[i].pending) \subseteq kept.descriptors
    BY <1>1, <1>2, <1>13 DEF ArchiveKept
  <2>2. \A i \in Ids(snapshots') : i < nextView + 1
    <3>1. \A i \in Ids(snapshots) : i < nextView /\ i \in Nat
      BY <1>1 DEF ArchiveKept, Ids, View
    <3>2. QED
      BY <1>2, <1>13, <3>1
  <2>3. archive.after < nextView + 1
    BY <1>1, <1>2 DEF ArchiveKept
  <2>4. QED
    BY <1>1, <1>14, <2>1, <2>2, <2>3 DEF ArchiveKept
<1>16. Emptied'
    BY <1>12 DEF Emptied
<1>17. QED
    BY <1>1, <1>6, <1>10, <1>11, <1>15, <1>16 DEF HeapInv

(* A snapshot is taken.                                                    *)
LEMMA CaptureKeeps ==
    ASSUME HeapInv, Capture
    PROVE  HeapInv'
<1>1. PICK r \in Promoted :
        /\ TakeSnapshot(r)
        /\ snapshots' = [snapshots EXCEPT ![nextView] = Shot(r)]
    BY DEF Capture
<1>2. /\ SourceInv /\ OtherTypes
      /\ UNCHANGED <<engineVars, archive, inspections, cancel, requested, steps>>
      /\ nextView <= MaxView /\ nextView' = nextView + 1
    BY DEF Capture, HeapInv
<1>3. /\ Kept
      /\ \E taken : taken = Shot(r) /\ taken \in Captured /\ ShotHeld(taken)'
      /\ syntax' \in [done : BOOLEAN, seen : SUBSET Task]
    BY <1>1, <1>2, TakenKeeps
<1>4. PICK shot : shot = Shot(r) /\ shot \in Captured /\ ShotHeld(shot)'
    BY <1>3
<1>5. snapshots' = [snapshots EXCEPT ![nextView] = shot] /\ shot \in Captured /\ ShotHeld(shot)'
    BY <1>1, <1>4
<1>6. UNCHANGED <<kept, archive, cancel, collector, requested>> /\ inspections' = inspections
    BY <1>2 DEF engineVars
<1>7. QED
    BY <1>2, <1>3, <1>5, <1>6, ViewAdded

(* An inspection is started.                                               *)
LEMMA StartInspectionKeeps ==
    ASSUME HeapInv, StartInspection
    PROVE  HeapInv'
<1>1. /\ SourceInv /\ OtherTypes /\ ViewsHeld /\ StoreSound
      /\ UNCHANGED <<engineVars, archive, snapshots, cancel, requested, steps>>
      /\ nextView <= MaxView /\ nextView' = nextView + 1
    BY DEF StartInspection, HeapInv, SourceInv
<1>2. UNCHANGED <<kept, archive, cancel, collector, requested>> /\ snapshots' = snapshots
    BY <1>1 DEF engineVars
<1>3. \/ \E i \in Ids(snapshots) :
            /\ inspections' = [inspections EXCEPT ![nextView] = Begins(snapshots[i])]
            /\ UNCHANGED <<heap, pending, syntax>>
      \/ \E r \in Promoted :
            /\ TakeSnapshot(r)
            /\ inspections' = [inspections EXCEPT ![nextView] = Begins(Shot(r))]
    BY DEF StartInspection, Begins
<1>4. ASSUME NEW i \in Ids(snapshots),
             inspections' = [inspections EXCEPT ![nextView] = Begins(snapshots[i])],
             UNCHANGED <<heap, pending, syntax>>
      PROVE  HeapInv'
  <2>1. Kept
    BY <1>1, <1>4, SameKeeps DEF engineVars, source
  <2>2. PICK shot : shot = snapshots[i]
    OBVIOUS
  <2>3. shot \in Captured /\ shot \in Shots
    BY <1>1, <2>2 DEF OtherTypes, Ids, Shots
  <2>4. ShotHeld(shot)
    BY <1>1, <2>3 DEF ViewsHeld
  <2>5. ShotHeld(shot)'
    BY <1>1, <2>1, <2>4, ShotStays DEF Kept
  <2>6. inspections' = [inspections EXCEPT ![nextView] = Begins(shot)]
    BY <1>4, <2>2
  <2>7. syntax' \in [done : BOOLEAN, seen : SUBSET Task]
    BY <1>1, <1>4 DEF OtherTypes
  <2>8. QED
    BY <1>1, <1>2, <2>1, <2>3, <2>5, <2>6, <2>7, ViewAdded
<1>5. ASSUME NEW r \in Promoted, TakeSnapshot(r),
             inspections' = [inspections EXCEPT ![nextView] = Begins(Shot(r))]
      PROVE  HeapInv'
  <2>1. /\ Kept
        /\ \E taken : taken = Shot(r) /\ taken \in Captured /\ ShotHeld(taken)'
        /\ syntax' \in [done : BOOLEAN, seen : SUBSET Task]
    BY <1>1, <1>5, TakenKeeps
  <2>2. PICK shot : shot = Shot(r) /\ shot \in Captured /\ ShotHeld(shot)'
    BY <2>1
  <2>3. inspections' = [inspections EXCEPT ![nextView] = Begins(shot)]
        /\ shot \in Captured /\ ShotHeld(shot)'
    BY <1>5, <2>2
  <2>4. QED
    BY <1>1, <1>2, <2>1, <2>3, ViewAdded
<1>6. QED
    BY <1>3, <1>4, <1>5

-----------------------------------------------------------------------------
(* Collection.                                                             *)

(* What a collection may make of the current state before it collects.     *)
Settled(now) ==
    /\ After(heap.book, now.book)
    /\ \A d \in LiveIn(heap.book) : now.book.descriptors[d] = heap.book.descriptors[d]
    /\ now.pending \in PendingMap /\ DOMAIN now.pending = DOMAIN pending
    /\ OwnBodies(now.pending) /\ Bodies(now.pending) \subseteq LiveIn(now.book)
    /\ \A t \in DOMAIN pending : pending[t] = None => now.pending[t] = None
    /\ now.graph \in SUBSET Condition
    /\ now.tasks \in [Task -> Payload \cup {None}]
    /\ \A t \in Task : now.tasks[t] = None <=> tasks[t] = None
    /\ now.birth \in Condition \cup {None} /\ (now.birth = None <=> birth = None)
    /\ Released => now.graph = {}
    /\ ~Canceled /\ syntax.done =>
          \A t \in Live : Remaining(now.book, now.pending)[t] = Parts(now.tasks[t].body)

(* A collection that renames nothing.                                      *)
LEMMA CurrentSettled ==
    ASSUME SourceInv
    PROVE  Settled(Current)
<1>1. /\ Current.book = heap.book /\ Current.pending = pending /\ Current.graph = graph
      /\ Current.tasks = tasks /\ Current.birth = birth
    BY DEF Current
<1>2. After(heap.book, heap.book)
    BY AfterItself DEF SourceInv, StoreSound
<1>3. Released => graph = {}
    BY DEF SourceInv, Stages
<1>4. QED
    BY <1>1, <1>2, <1>3 DEF Settled, SourceInv, SourceTypes, StateHeld, BodiesTold

(* A body that is renamed says the same of another condition.              *)
LEMMA RenamedParts ==
    ASSUME NEW body \in Body, NEW from \in Condition, NEW to \in Condition, NEW guard,
           guard = IF body.guard = from THEN to ELSE body.guard,
           NEW after, after = [body EXCEPT !.guard = guard]
    PROVE  after \in Body /\ Parts(after) = Renamed(Parts(body), from, to)
<1>1. /\ body.at \in 0 .. MaxProgress /\ body.guard \in Guard /\ guard \in Guard
      /\ body = [at |-> body.at, guard |-> body.guard]
    BY DEF Body, Guard
<1>2. after = [at |-> body.at, guard |-> guard] /\ after \in Body /\ after.at = body.at /\ after.guard = guard
    BY <1>1 DEF Body
<1>3. CASE body.at = MaxProgress
    BY <1>2, <1>3 DEF Parts, Renamed
<1>4. CASE body.at # MaxProgress
  <2>1. Parts(body) = body /\ Parts(after) = after
    BY <1>1, <1>2, <1>4 DEF Parts
  <2>2. body # None
    BY NoneAndTrueApart
  <2>3. QED
    BY <1>1, <1>2, <2>1, <2>2 DEF Renamed
<1>5. QED
    BY <1>2, <1>3, <1>4

(* A collection renames a condition of the current state; what views have  *)
(* fixed stays.                                                            *)
LEMMA RenamingSettled ==
    ASSUME SourceInv, Early, NEW from \in Condition, NEW to \in Condition,
           NEW now \in Renaming(from, to)
    PROVE  Settled(now)
<1> DEFINE new(c) == IF c = from THEN to ELSE c
<1>1. PICK r \in Substituted(heap.book, pending, from, to) :
          now = [graph |-> {new(c) : c \in graph},
                 tasks |-> [t \in Task |-> IF tasks[t] = None THEN None
                                           ELSE [tasks[t] EXCEPT !.body.guard = new(tasks[t].body.guard)]],
                 birth |-> new(birth), pending |-> r.pending, book |-> r.book]
    BY DEF Renaming
<1>2. PICK b, m : b = r.book /\ m = r.pending
    OBVIOUS
<1>3. PICK old, map : old = heap.book /\ map = pending
    OBVIOUS
<1>4. /\ IsBook(old) /\ map \in PendingMap /\ Bodies(map) \subseteq LiveIn(old) /\ OwnBodies(map)
      /\ tasks \in [Task -> Payload \cup {None}]
    BY <1>3 DEF SourceInv, StoreSound, SourceTypes, StateHeld
<1>5. /\ After(old, b)
      /\ \A d \in LiveIn(old) : b.descriptors[d] = old.descriptors[d]
      /\ m \in PendingMap /\ DOMAIN m = DOMAIN map
      /\ OwnBodies(m) /\ Bodies(m) \subseteq LiveIn(b)
      /\ \A t \in DOMAIN map : map[t] = None => m[t] = None
      /\ \A t \in DOMAIN map : map[t] # None =>
            /\ m[t] # None
            /\ b.descriptors[m[t]].parts = Renamed(old.descriptors[map[t]].parts, from, to)
  <2>1. r \in Substituted(old, map, from, to)
    BY <1>3
  <2>2. Substitutes(old, map, from, to, r.book, r.pending)
    BY ONLY <1>4, <2>1, SubstitutedBook, from \in Condition, to \in Condition
  <2>3. Substitutes(old, map, from, to, b, m)
    BY <1>2, <2>2
  <2>4. QED
    BY <2>3 DEF Substitutes
<1>6. /\ now.graph = {new(c) : c \in graph} /\ now.birth = new(birth)
      /\ now.pending = m /\ now.book = b
      /\ now.tasks = [t \in Task |-> IF tasks[t] = None THEN None
                                     ELSE [tasks[t] EXCEPT !.body.guard = new(tasks[t].body.guard)]]
    BY <1>1, <1>2
<1>7. now.graph \in SUBSET Condition
    BY <1>6 DEF SourceInv, SourceTypes
<1>8. ~Released
    BY DEF Early, Released
<1>9. None \notin Condition
    BY NoneAndTrueApart DEF Guard
<1>10. now.birth \in Condition \cup {None} /\ (now.birth = None <=> birth = None)
  <2>1. birth \in Condition \cup {None}
    BY DEF SourceInv, SourceTypes
  <2>2. CASE birth = from
    BY <1>6, <1>9, <2>2
  <2>3. CASE birth # from
    BY <1>6, <2>1, <2>3
  <2>4. QED
    BY <2>2, <2>3
<1>11. ASSUME NEW t \in Task, tasks[t] # None
       PROVE  /\ now.tasks[t] \in Payload /\ now.tasks[t] # None
              /\ Parts(now.tasks[t].body) = Renamed(Parts(tasks[t].body), from, to)
  <2>1. tasks[t] \in Payload
    BY <1>4, <1>11
  <2>2. PICK p, body, guard, after :
            /\ p = tasks[t] /\ body = p.body /\ guard = new(body.guard)
            /\ after = [body EXCEPT !.guard = guard]
    OBVIOUS
  <2>3. p = [body |-> body, root |-> p.root] /\ body \in Body /\ p.root \in SUBSET Condition
    BY <2>1, <2>2 DEF Payload
  <2>4. after \in Body /\ Parts(after) = Renamed(Parts(body), from, to)
    BY <2>2, <2>3, RenamedParts
  <2>5. now.tasks[t] = [p EXCEPT !.body.guard = guard]
    BY <1>6, <1>11, <2>2
  <2>6. now.tasks[t] = [body |-> after, root |-> p.root]
    BY <2>2, <2>3, <2>5
  <2>7. now.tasks[t] \in Payload /\ now.tasks[t].body = after
    BY <2>3, <2>4, <2>6 DEF Payload
  <2>8. QED
    BY <2>2, <2>4, <2>7, NoneAndTrueApart
<1>12. /\ now.tasks \in [Task -> Payload \cup {None}]
       /\ \A t \in Task : now.tasks[t] = None <=> tasks[t] = None
  <2>1. \A t \in Task : tasks[t] = None => now.tasks[t] = None
    BY <1>6
  <2>2. \A t \in Task : now.tasks[t] \in Payload \cup {None}
    BY <1>11, <2>1
  <2>3. QED
    BY <1>6, <1>11, <2>1, <2>2
<1>13. ASSUME ~Canceled, syntax.done, NEW t \in Live
       PROVE  Remaining(b, m)[t] = Parts(now.tasks[t].body)
  <2>1. t \in DOMAIN map /\ t \in DOMAIN m /\ t \in Task /\ tasks[t] # None
    BY <1>3, <1>5, <1>13, Runner DEF Live
  <2>2. Remaining(old, map)[t] = Parts(tasks[t].body)
    BY <1>3, <1>13 DEF SourceInv, BodiesTold
  <2>3. Parts(now.tasks[t].body) = Renamed(Parts(tasks[t].body), from, to)
    BY <1>11, <2>1
  <2>4. CASE map[t] = None
    <3>1. Parts(tasks[t].body) = None /\ Remaining(b, m)[t] = None
      BY <1>5, <2>1, <2>2, <2>4, TellsOf
    <3>2. QED
      BY <2>3, <3>1 DEF Renamed
  <2>5. CASE map[t] # None
    <3>1. /\ Parts(tasks[t].body) = old.descriptors[map[t]].parts
          /\ Remaining(b, m)[t] = b.descriptors[m[t]].parts
      BY <1>5, <2>1, <2>2, <2>5, TellsOf
    <3>2. QED
      BY <1>5, <2>1, <2>3, <2>5, <3>1
  <2>6. QED
    BY <2>4, <2>5
<1>14. QED
    BY <1>3, <1>5, <1>6, <1>7, <1>8, <1>10, <1>12, <1>13 DEF Settled

(* Either way.                                                             *)
LEMMA CompactedSettled ==
    ASSUME SourceInv, collector # None, NEW now \in Compacted
    PROVE  Settled(now) /\ (~collector.owns => now = Current)
<1>1. CASE now = Current
    BY <1>1, CurrentSettled
<1>2. CASE now # Current
  <2>1. collector.owns
    BY <1>2 DEF Compacted
  <2>2. PICK c \in graph \cup ({birth} \ {None}), d \in Fresh : now \in Renaming(c, d)
    BY <1>2, <2>1 DEF Compacted
  <2>3. Early
    BY <2>1 DEF SourceInv, Stages, Idle
  <2>4. c \in Condition /\ d \in Condition
    BY DEF SourceInv, SourceTypes, Fresh
  <2>5. QED
    BY <2>1, <2>2, <2>3, <2>4, RenamingSettled
<1>3. QED
    BY <1>1, <1>2

(* What the phases of a collection find.                                   *)
LEMMA Joined ==
    ASSUME NEW held, NEW h \in held
    PROVE  /\ h.rows \subseteq JoinAll(held).rows
           /\ h.descriptors \subseteq JoinAll(held).descriptors
           /\ h.conditions \subseteq JoinAll(held).conditions
BY DEF JoinAll

(* A join holds what a collection may hold.                                *)
LEMMA JoinedIs ==
    ASSUME NEW held, \A h \in held : h \in Holding
    PROVE  JoinAll(held) \in Holding
<1>1. \A h \in held : h.rows \subseteq Condition /\ h.descriptors \subseteq Descriptor
                      /\ h.conditions \subseteq Condition
    BY DEF Holding
<1>2. /\ UNION {h.rows : h \in held} \in SUBSET Condition
      /\ UNION {h.descriptors : h \in held} \in SUBSET Descriptor
      /\ UNION {h.conditions : h \in held} \in SUBSET Condition
    BY <1>1
<1>3. QED
    BY <1>2 DEF JoinAll, Holding

(* A join of nothing.                                                      *)
LEMMA JoinedNothing ==
    ASSUME NEW held, \A h \in held : h = Nothing
    PROVE  JoinAll(held) = Nothing
<1>1. /\ UNION {h.rows : h \in held} = {}
      /\ UNION {h.descriptors : h \in held} = {}
      /\ UNION {h.conditions : h \in held} = {}
    BY DEF Nothing
<1>2. QED
    BY <1>1 DEF JoinAll, Nothing

(* A join holds no more than its parts.                                    *)
LEMMA JoinedHere ==
    ASSUME NEW held, NEW D, \A h \in held : h.descriptors \subseteq D
    PROVE  JoinAll(held).descriptors \subseteq D
BY DEF JoinAll

(* Nothing holds nothing.                                                  *)
LEMMA NothingIs == Nothing \in Holding /\ Nothing.rows = {} /\ Nothing.descriptors = {} /\ Nothing.conditions = {}
BY DEF Nothing, Holding

(* What a payload holds.                                                   *)
LEMMA TaskRootsIs ==
    ASSUME NEW p \in Payload
    PROVE  /\ TaskRoots(p) \in Holding /\ TaskRoots(p).descriptors = {}
           /\ TaskRoots(p).rows = p.root /\ TaskRoots(p).conditions = {p.body.guard} \ {True}
<1>1. p.root \in SUBSET Condition /\ {p.body.guard} \ {True} \in SUBSET Condition
    BY DEF Payload, Body, Guard
<1>2. QED
    BY <1>1 DEF TaskRoots, Holding

(* The descriptors of a map.                                               *)
LEMMA BodiesAre ==
    ASSUME NEW map \in PendingMap
    PROVE  Bodies(map) \in SUBSET Descriptor
<1>1. map \in [DOMAIN map -> Descriptor \cup {None}]
    BY MapIs DEF PendingMap
<1>2. QED
    BY <1>1 DEF Bodies, Range

(* What a snapshot holds.                                                  *)
LEMMA ShotRootsIs ==
    ASSUME NEW shot \in Captured
    PROVE  /\ ShotRoots(shot) \in Holding /\ ShotRoots(shot).conditions = {}
           /\ ShotRoots(shot).rows = shot.graph /\ ShotRoots(shot).descriptors = Bodies(shot.pending)
<1>1. shot.graph \in SUBSET Condition /\ Bodies(shot.pending) \in SUBSET Descriptor
    BY BodiesAre DEF Captured
<1>2. QED
    BY <1>1 DEF ShotRoots, Holding

(* What an inspection holds.                                               *)
LEMMA ViewRootsIs ==
    ASSUME OtherTypes, NEW i \in Ids(inspections)
    PROVE  /\ ViewRoots(i) \in Holding
           /\ ViewRoots(i).conditions = {inspections[i].scope} \ {True}
           /\ inspections[i].snapshot = None => ViewRoots(i).rows = {} /\ ViewRoots(i).descriptors = {}
           /\ inspections[i].snapshot # None =>
                /\ inspections[i].snapshot \in Captured
                /\ ViewRoots(i).rows = inspections[i].snapshot.graph
                /\ ViewRoots(i).descriptors = Bodies(inspections[i].snapshot.pending)
<1>1. PICK v : v = inspections[i]
    OBVIOUS
<1>2. v \in Looking
    BY <1>1 DEF OtherTypes, Ids
<1>3. v.snapshot \in Captured \cup {None} /\ {v.scope} \ {True} \in SUBSET Condition
    BY <1>2 DEF Looking, Guard
<1>4. PICK h : h = IF v.snapshot = None THEN Nothing ELSE ShotRoots(v.snapshot)
    OBVIOUS
<1>5. h \in Holding
    BY <1>3, <1>4, NothingIs, ShotRootsIs
<1>6. ViewRoots(i) = [h EXCEPT !.conditions = {v.scope} \ {True}]
    BY <1>1, <1>4 DEF ViewRoots
<1>7. ViewRoots(i) = [rows |-> h.rows, descriptors |-> h.descriptors, conditions |-> {v.scope} \ {True}]
    BY <1>5, <1>6 DEF Holding
<1>8. ViewRoots(i) \in Holding
    BY <1>3, <1>5, <1>7 DEF Holding
<1>9. /\ v.snapshot = None => h.rows = {} /\ h.descriptors = {}
      /\ v.snapshot # None => /\ h.rows = v.snapshot.graph
                              /\ h.descriptors = Bodies(v.snapshot.pending)
    BY <1>3, <1>4, NothingIs, ShotRootsIs
<1>10. QED
    BY <1>1, <1>3, <1>7, <1>8, <1>9

(* What the births hold.                                                   *)
LEMMA BirthRootsIs ==
    ASSUME NEW c \in Condition \cup {None}
    PROVE  /\ BirthRoots(c) \in Holding /\ BirthRoots(c).descriptors = {} /\ BirthRoots(c).rows = {}
           /\ BirthRoots(c).conditions = {c} \ {None}
<1>1. {c} \ {None} \in SUBSET Condition
    OBVIOUS
<1>2. QED
    BY <1>1 DEF BirthRoots, Nothing, Holding

(* What a reader holds.                                                    *)
LEMMA ReaderRootsIs ==
    ASSUME SourceInv
    PROVE  /\ ReaderRoots \in Holding
           /\ ReaderRoots.descriptors \subseteq LiveIn(heap.book)
           /\ reader = None => ReaderRoots = Nothing
           /\ reader # None => /\ ReaderRoots.rows = reader.rows
                               /\ ReaderRoots.descriptors = reader.descriptors
                               /\ ReaderRoots.conditions = {reader.condition} \ {True}
<1>1. CASE reader = None
    BY <1>1, NothingIs DEF ReaderRoots
<1>2. CASE reader # None
  <2>1. reader \in Reading /\ reader.descriptors \subseteq LiveIn(heap.book)
    BY <1>2 DEF SourceInv, SourceTypes, ReaderHeld
  <2>2. /\ reader.rows \in SUBSET Condition /\ reader.descriptors \in SUBSET Descriptor
        /\ {reader.condition} \ {True} \in SUBSET Condition
    BY <2>1 DEF Reading, Guard
  <2>3. QED
    BY <1>2, <2>1, <2>2 DEF ReaderRoots, Holding
<1>3. QED
    BY <1>1, <1>2

-----------------------------------------------------------------------------
(* The snapshots that are registered.                                      *)
LEMMA ArchivedIs ==
    ASSUME SourceInv, OtherTypes, ViewsHeld
    PROVE  /\ Archived \in Holding
           /\ \A i \in Unregistered : /\ snapshots[i].graph \subseteq Archived.rows
                                      /\ Bodies(snapshots[i].pending) \subseteq Archived.descriptors
           /\ \A d \in Archived.descriptors : Fixed(heap.book, d)
           /\ Unregistered = {} => Archived = Nothing
<1>1. ASSUME NEW i \in Unregistered
      PROVE  /\ snapshots[i] \in Captured /\ snapshots[i] \in Shots
             /\ \A d \in Bodies(snapshots[i].pending) : Fixed(heap.book, d)
  <2>1. snapshots[i] \in Captured /\ snapshots[i] \in Shots
    BY DEF Unregistered, OtherTypes, Ids, Shots
  <2>2. PICK shot : shot = snapshots[i]
    OBVIOUS
  <2>3. ShotHeld(shot)
    BY <2>1, <2>2 DEF ViewsHeld
  <2>4. QED
    BY <2>1, <2>2, <2>3 DEF ShotHeld
<1>2. \A i \in Unregistered : /\ ShotRoots(snapshots[i]) \in Holding
                              /\ ShotRoots(snapshots[i]).rows = snapshots[i].graph
                              /\ ShotRoots(snapshots[i]).descriptors = Bodies(snapshots[i].pending)
    BY <1>1, ShotRootsIs
<1>3. PICK held : held = {ShotRoots(snapshots[i]) : i \in Unregistered}
    OBVIOUS
<1>4. Archived = JoinAll(held)
    BY <1>3 DEF Archived
<1>5. Archived \in Holding
    BY <1>2, <1>3, <1>4, JoinedIs
<1>6. \A i \in Unregistered : /\ snapshots[i].graph \subseteq Archived.rows
                              /\ Bodies(snapshots[i].pending) \subseteq Archived.descriptors
    BY <1>2, <1>3, <1>4, Joined
<1>7. \A d \in Archived.descriptors : Fixed(heap.book, d)
  <2>1. \A h \in held : \A d \in h.descriptors : Fixed(heap.book, d)
    BY <1>1, <1>2, <1>3
  <2>2. QED
    BY <1>4, <2>1 DEF JoinAll
<1>8. Unregistered = {} => Archived = Nothing
    BY <1>3, <1>4, JoinedNothing
<1>9. QED
    BY <1>5, <1>6, <1>7, <1>8

(* What the current state, readers and inspections protect.                *)
RootsOf(now, rows) ==
    JoinAll({[Nothing EXCEPT !.rows = rows], GatherTasks(now), GatherParked(now),
             GatherBirths(now), GatherReader(now), GatherInspections,
             BirthRoots(Trimmed(now))})

GatheredFrom(now, S) == JoinAll({TaskRoots(now.tasks[t]) : t \in S})

(* What the phase that goes over some tasks finds.                         *)
LEMMA GatheredTasks ==
    ASSUME NEW now, NEW S, \A t \in S : now.tasks[t] \in Payload,
           NEW h, h = GatheredFrom(now, S)
    PROVE  /\ h \in Holding /\ h.descriptors = {}
           /\ \A t \in S : /\ now.tasks[t].root \subseteq h.rows
                           /\ {now.tasks[t].body.guard} \ {True} \subseteq h.conditions
           /\ S = {} => h = Nothing
<1>1. PICK held : held = {TaskRoots(now.tasks[t]) : t \in S}
    OBVIOUS
<1>2. \A t \in S : /\ TaskRoots(now.tasks[t]) \in Holding
                   /\ TaskRoots(now.tasks[t]).descriptors = {}
                   /\ TaskRoots(now.tasks[t]).rows = now.tasks[t].root
                   /\ TaskRoots(now.tasks[t]).conditions = {now.tasks[t].body.guard} \ {True}
    BY TaskRootsIs
<1>3. h = JoinAll(held)
    BY <1>1 DEF GatheredFrom
<1>4. h \in Holding
    BY <1>1, <1>2, <1>3, JoinedIs
<1>5. \A x \in held : x.descriptors = {}
    BY <1>1, <1>2
<1>6. h.descriptors = {}
    BY <1>3, <1>5 DEF JoinAll
<1>10. \A x \in held : x.rows \subseteq h.rows /\ x.conditions \subseteq h.conditions
    BY <1>3, Joined
<1>7. \A t \in S : /\ now.tasks[t].root \subseteq h.rows
                   /\ {now.tasks[t].body.guard} \ {True} \subseteq h.conditions
    BY <1>1, <1>2, <1>10
<1>8. S = {} => h = Nothing
    BY <1>1, <1>3, JoinedNothing
<1>9. QED
    BY <1>4, <1>6, <1>7, <1>8

(* What the phases of the readers find, with the current map.              *)
LEMMA GatheredReader ==
    ASSUME SourceInv, NEW now, Settled(now)
    PROVE  /\ GatherReader(now) \in Holding
           /\ GatherReader(now).descriptors \subseteq LiveIn(now.book)
           /\ Bodies(now.pending) \subseteq GatherReader(now).descriptors
           /\ reader # None => /\ reader.rows \subseteq GatherReader(now).rows
                               /\ reader.descriptors \subseteq GatherReader(now).descriptors
                               /\ {reader.condition} \ {True} \subseteq GatherReader(now).conditions
           /\ reader = None /\ Bodies(now.pending) = {} => GatherReader(now) = Nothing
<1>1. PICK h, B : h = ReaderRoots /\ B = Bodies(now.pending)
    OBVIOUS
<1>2. /\ h \in Holding /\ h.descriptors \subseteq LiveIn(heap.book)
      /\ reader = None => h = Nothing
      /\ reader # None => /\ h.rows = reader.rows /\ h.descriptors = reader.descriptors
                          /\ h.conditions = {reader.condition} \ {True}
    BY <1>1, ReaderRootsIs
<1>3. B \in SUBSET Descriptor /\ B \subseteq LiveIn(now.book) /\ LiveIn(heap.book) \subseteq LiveIn(now.book)
    BY <1>1, BodiesAre DEF Settled, After
<1>4. GatherReader(now) = [h EXCEPT !.descriptors = h.descriptors \cup B]
    BY <1>1 DEF GatherReader
<1>5. GatherReader(now) = [rows |-> h.rows, descriptors |-> h.descriptors \cup B, conditions |-> h.conditions]
    BY <1>2, <1>4 DEF Holding
<1>6. GatherReader(now) \in Holding
    BY <1>2, <1>3, <1>5 DEF Holding
<1>7. reader = None /\ B = {} => GatherReader(now) = Nothing
    BY <1>2, <1>5, NothingIs DEF Nothing
<1>8. QED
    BY <1>1, <1>2, <1>3, <1>5, <1>6, <1>7

(* What the phase of the inspections finds.                                *)
LEMMA GatheredViews ==
    ASSUME SourceInv, OtherTypes, ViewsHeld
    PROVE  /\ GatherInspections \in Holding
           /\ GatherInspections.descriptors \subseteq LiveIn(heap.book)
           /\ \A i \in Ids(inspections) :
                 /\ {inspections[i].scope} \ {True} \subseteq GatherInspections.conditions
                 /\ inspections[i].snapshot # None =>
                       /\ inspections[i].snapshot.graph \subseteq GatherInspections.rows
                       /\ Bodies(inspections[i].snapshot.pending) \subseteq GatherInspections.descriptors
           /\ Ids(inspections) = {} => GatherInspections = Nothing
<1>1. PICK held, h : held = {ViewRoots(i) : i \in Ids(inspections)} /\ h = GatherInspections
    OBVIOUS
<1>2. h = JoinAll(held)
    BY <1>1 DEF GatherInspections
<1>3. ASSUME NEW i \in Ids(inspections)
      PROVE  /\ ViewRoots(i) \in held /\ ViewRoots(i) \in Holding
             /\ ViewRoots(i).conditions = {inspections[i].scope} \ {True}
             /\ inspections[i].snapshot # None =>
                   /\ ViewRoots(i).rows = inspections[i].snapshot.graph
                   /\ ViewRoots(i).descriptors = Bodies(inspections[i].snapshot.pending)
             /\ ViewRoots(i).descriptors \subseteq LiveIn(heap.book)
  <2>1. /\ ViewRoots(i) \in Holding
        /\ ViewRoots(i).conditions = {inspections[i].scope} \ {True}
        /\ inspections[i].snapshot = None => ViewRoots(i).descriptors = {}
        /\ inspections[i].snapshot # None =>
              /\ ViewRoots(i).rows = inspections[i].snapshot.graph
              /\ ViewRoots(i).descriptors = Bodies(inspections[i].snapshot.pending)
    BY ViewRootsIs
  <2>2. CASE inspections[i].snapshot = None
    BY <1>1, <2>1, <2>2
  <2>3. CASE inspections[i].snapshot # None
    <3>1. PICK shot : shot = inspections[i].snapshot
      OBVIOUS
    <3>2. shot \in Shots
      BY <2>3, <3>1 DEF Shots
    <3>3. \A d \in Bodies(shot.pending) : d \in LiveIn(heap.book)
      BY <3>2 DEF ViewsHeld, ShotHeld, Fixed
    <3>4. QED
      BY <1>1, <2>1, <2>3, <3>1, <3>3
  <2>4. QED
    BY <2>2, <2>3
<1>4. h \in Holding
    BY <1>1, <1>2, <1>3, JoinedIs
<1>5. h.descriptors \subseteq LiveIn(heap.book)
    BY <1>1, <1>2, <1>3 DEF JoinAll
<1>6. \A i \in Ids(inspections) : /\ ViewRoots(i).rows \subseteq h.rows
                                  /\ ViewRoots(i).descriptors \subseteq h.descriptors
                                  /\ ViewRoots(i).conditions \subseteq h.conditions
    BY <1>2, <1>3, Joined
<1>7. \A i \in Ids(inspections) :
                 /\ {inspections[i].scope} \ {True} \subseteq h.conditions
                 /\ inspections[i].snapshot # None =>
                       /\ inspections[i].snapshot.graph \subseteq h.rows
                       /\ Bodies(inspections[i].snapshot.pending) \subseteq h.descriptors
    BY <1>3, <1>6
<1>8. Ids(inspections) = {} => h = Nothing
    BY <1>1, <1>2, JoinedNothing
<1>9. QED
    BY <1>1, <1>4, <1>5, <1>7, <1>8

(* Everything that is held is among the roots.                             *)
Rooted(now, rows, roots) ==
    /\ roots \in Holding
    /\ roots.descriptors \subseteq LiveIn(now.book)
    /\ rows \subseteq roots.rows
    /\ Bodies(now.pending) \subseteq roots.descriptors
    /\ \A t \in Live : /\ now.tasks[t].root \subseteq roots.rows
                       /\ {now.tasks[t].body.guard} \ {True} \subseteq roots.conditions
    /\ reader # None => /\ reader.rows \subseteq roots.rows
                        /\ reader.descriptors \subseteq roots.descriptors
                        /\ {reader.condition} \ {True} \subseteq roots.conditions
    /\ \A i \in Ids(inspections) :
          /\ {inspections[i].scope} \ {True} \subseteq roots.conditions
          /\ inspections[i].snapshot # None =>
                /\ inspections[i].snapshot.graph \subseteq roots.rows
                /\ Bodies(inspections[i].snapshot.pending) \subseteq roots.descriptors
    /\ Trimmed(now) \in roots.conditions \cup {None}
    /\ Released /\ Ids(snapshots) \cup Ids(inspections) = {} => roots = Nothing

(* All phases together find whatever the engine holds.                     *)
LEMMA RootsAre ==
    ASSUME SourceInv, OtherTypes, ViewsHeld, NEW now, Settled(now), NEW rows \in SUBSET now.graph
    PROVE  Rooted(now, rows, RootsOf(now, rows))
<1>1. PICK a, q, p, b, r, i, c :
        /\ a = [Nothing EXCEPT !.rows = rows] /\ q = GatherTasks(now) /\ p = GatherParked(now)
        /\ b = GatherBirths(now) /\ r = GatherReader(now) /\ i = GatherInspections
        /\ c = BirthRoots(Trimmed(now))
    OBVIOUS
<1>2. PICK held, roots : held = {a, q, p, b, r, i, c} /\ roots = RootsOf(now, rows)
    OBVIOUS
<1>3. roots = JoinAll(held)
    BY <1>1, <1>2 DEF RootsOf
<1>4. Live = runnable \cup Parked /\ \A t \in Live : now.tasks[t] \in Payload
    BY DEF SourceInv, Places, Settled, Live
<1>5. a \in Holding /\ a.rows = rows /\ a.descriptors = {} /\ (rows = {} => a = Nothing)
  <2>1. rows \in SUBSET Condition
    BY DEF Settled
  <2>2. a = [rows |-> rows, descriptors |-> {}, conditions |-> {}]
    BY <1>1 DEF Nothing
  <2>3. QED
    BY <2>1, <2>2 DEF Holding, Nothing
<1>6. /\ q \in Holding /\ q.descriptors = {}
      /\ \A t \in runnable : /\ now.tasks[t].root \subseteq q.rows
                             /\ {now.tasks[t].body.guard} \ {True} \subseteq q.conditions
      /\ runnable = {} => q = Nothing
  <2>1. q = GatheredFrom(now, runnable)
    BY <1>1 DEF GatherTasks, GatheredFrom
  <2>2. \A t \in runnable : now.tasks[t] \in Payload
    BY <1>4
  <2>3. QED
    BY <2>1, <2>2, GatheredTasks
<1>7. /\ p \in Holding /\ p.descriptors = {}
      /\ \A t \in Parked : /\ now.tasks[t].root \subseteq p.rows
                           /\ {now.tasks[t].body.guard} \ {True} \subseteq p.conditions
      /\ Parked = {} => p = Nothing
  <2>1. p = GatheredFrom(now, Parked)
    BY <1>1 DEF GatherParked, GatheredFrom
  <2>2. \A t \in Parked : now.tasks[t] \in Payload
    BY <1>4
  <2>3. QED
    BY <2>1, <2>2, GatheredTasks
<1>8. Trimmed(now) \in Condition \cup {None} /\ now.birth \in Condition \cup {None}
    BY DEF Trimmed, Settled
<1>9. b \in Holding /\ b.descriptors = {} /\ (Released => b = Nothing)
    BY <1>1, <1>8, NothingIs, BirthRootsIs DEF GatherBirths
<1>10. /\ c \in Holding /\ c.descriptors = {} /\ c.conditions = {Trimmed(now)} \ {None}
       /\ Trimmed(now) = None => c = Nothing
  <2>1. /\ c \in Holding /\ c.descriptors = {} /\ c.rows = {} /\ c.conditions = {Trimmed(now)} \ {None}
    BY <1>1, <1>8, BirthRootsIs
  <2>2. Trimmed(now) = None => c = Nothing
    BY <2>1 DEF Holding, Nothing
  <2>3. QED
    BY <2>1, <2>2
<1>11. /\ r \in Holding /\ r.descriptors \subseteq LiveIn(now.book)
       /\ Bodies(now.pending) \subseteq r.descriptors
       /\ reader # None => /\ reader.rows \subseteq r.rows
                           /\ reader.descriptors \subseteq r.descriptors
                           /\ {reader.condition} \ {True} \subseteq r.conditions
       /\ reader = None /\ Bodies(now.pending) = {} => r = Nothing
    BY <1>1, GatheredReader
<1>12. /\ i \in Holding /\ i.descriptors \subseteq LiveIn(now.book)
       /\ \A j \in Ids(inspections) :
             /\ {inspections[j].scope} \ {True} \subseteq i.conditions
             /\ inspections[j].snapshot # None =>
                   /\ inspections[j].snapshot.graph \subseteq i.rows
                   /\ Bodies(inspections[j].snapshot.pending) \subseteq i.descriptors
       /\ Ids(inspections) = {} => i = Nothing
  <2>1. LiveIn(heap.book) \subseteq LiveIn(now.book)
    BY DEF Settled, After
  <2>2. QED
    BY <1>1, <2>1, GatheredViews
<1>13. roots \in Holding
    BY <1>2, <1>3, <1>5, <1>6, <1>7, <1>9, <1>10, <1>11, <1>12, JoinedIs
<1>14. roots.descriptors \subseteq LiveIn(now.book)
  <2>1. \A h \in held : h.descriptors \subseteq LiveIn(now.book)
    BY <1>2, <1>5, <1>6, <1>7, <1>9, <1>10, <1>11, <1>12
  <2>2. QED
    BY <1>3, <2>1 DEF JoinAll
<1>15. \A h \in held : /\ h.rows \subseteq roots.rows
                       /\ h.descriptors \subseteq roots.descriptors
                       /\ h.conditions \subseteq roots.conditions
    BY <1>3, Joined
<1>16. \A t \in Live : /\ now.tasks[t].root \subseteq roots.rows
                       /\ {now.tasks[t].body.guard} \ {True} \subseteq roots.conditions
  <2> SUFFICES ASSUME NEW t \in Live
               PROVE  /\ now.tasks[t].root \subseteq roots.rows
                      /\ {now.tasks[t].body.guard} \ {True} \subseteq roots.conditions
      OBVIOUS
  <2>1. CASE t \in runnable
    BY <1>2, <1>6, <1>15, <2>1
  <2>2. CASE t \in Parked
    BY <1>2, <1>7, <1>15, <2>2
  <2>3. QED
    BY <1>4, <2>1, <2>2
<1>17. /\ rows \subseteq roots.rows
       /\ Bodies(now.pending) \subseteq roots.descriptors
       /\ reader # None => /\ reader.rows \subseteq roots.rows
                           /\ reader.descriptors \subseteq roots.descriptors
                           /\ {reader.condition} \ {True} \subseteq roots.conditions
       /\ Trimmed(now) \in roots.conditions \cup {None}
    BY <1>2, <1>5, <1>10, <1>11, <1>15
<1>18. \A j \in Ids(inspections) :
          /\ {inspections[j].scope} \ {True} \subseteq roots.conditions
          /\ inspections[j].snapshot # None =>
                /\ inspections[j].snapshot.graph \subseteq roots.rows
                /\ Bodies(inspections[j].snapshot.pending) \subseteq roots.descriptors
    BY <1>2, <1>12, <1>15
<1>19. Released /\ Ids(snapshots) \cup Ids(inspections) = {} => roots = Nothing
  <2> SUFFICES ASSUME Released, Ids(snapshots) \cup Ids(inspections) = {}
               PROVE  roots = Nothing
      OBVIOUS
  <2>1. runnable = {} /\ waiting = <<>> /\ reader = None /\ DOMAIN pending = {} /\ now.graph = {}
    BY DEF SourceInv, Stages, Released, Settled
  <2>2. Parked = {}
    BY <2>1 DEF Parked, Waiters
  <2>3. Bodies(now.pending) = {}
    BY <2>1 DEF Settled, Bodies, Range
  <2>4. Shots = {}
    BY DEF Shots
  <2>5. Trimmed(now) = None
    BY <2>4 DEF Trimmed, RetainsChoices
  <2>6. a = Nothing /\ q = Nothing /\ p = Nothing /\ b = Nothing /\ r = Nothing /\ i = Nothing /\ c = Nothing
    BY <1>5, <1>6, <1>7, <1>9, <1>10, <1>11, <1>12, <2>1, <2>2, <2>3, <2>5
  <2>7. QED
    BY <1>2, <1>3, <2>6, JoinedNothing
<1>20. Rooted(now, rows, roots)
    BY <1>13, <1>14, <1>16, <1>17, <1>18, <1>19 DEF Rooted
<1>21. QED
    BY <1>2, <1>20

-----------------------------------------------------------------------------
(* The stores after a collection.                                          *)

(* The conditions that bodies name.                                        *)
LEMMA GuardsOf ==
    ASSUME NEW book, IsBook(book), NEW S
    PROVE  /\ Guards(book, S \cap LiveIn(book)) \ {True} \in SUBSET Condition
           /\ \A d \in S : book.descriptors[d].parts # None => book.descriptors[d].parts.guard \in Guards(book, S)
<1>1. \A d \in LiveIn(book) : book.descriptors[d] \in Record
    BY DEF IsBook, Table, LiveIn
<1>2. \A d \in LiveIn(book) : book.descriptors[d].parts # None => book.descriptors[d].parts.guard \in Guard
    BY <1>1 DEF Record, Body
<1>3. QED
    BY <1>2 DEF Guards, Guard

(* A table of which the descriptors in a set are left.                     *)
OnlyOf(book, live) ==
    [book EXCEPT !.descriptors = [d \in Descriptor |-> IF d \in live THEN book.descriptors[d] ELSE None]]

(* A table of which some descriptors are freed.                            *)
LEMMA OnlyBook ==
    ASSUME NEW book, IsBook(book), NEW live, live \subseteq LiveIn(book),
           NEW new, new = OnlyOf(book, live)
    PROVE  /\ IsBook(new) /\ LiveIn(new) = live /\ new.epoch = book.epoch
           /\ \A d \in live : new.descriptors[d] = book.descriptors[d]
           /\ \A d \in live : Fixed(book, d) => Fixed(new, d)
           /\ \A S : S \subseteq live => Guards(new, S) = Guards(book, S)
<1>1. book.epoch \in Nat /\ book.descriptors \in [Descriptor -> Record \cup {None}]
      /\ live \subseteq Descriptor
    BY DEF IsBook, Table, LiveIn
<1>2. /\ new.epoch = book.epoch
      /\ new.descriptors = [d \in Descriptor |-> IF d \in live THEN book.descriptors[d] ELSE None]
      /\ new \in Table
    BY <1>1 DEF OnlyOf, IsBook, Table
<1>3. \A d \in live : new.descriptors[d] = book.descriptors[d] /\ book.descriptors[d] # None
    BY <1>1, <1>2 DEF LiveIn
<1>4. LiveIn(new) = live
    BY <1>1, <1>2, <1>3 DEF LiveIn
<1>5. IsBook(new)
    BY <1>2, <1>3, <1>4 DEF IsBook
<1>6. \A d \in live : Fixed(book, d) => Fixed(new, d)
    BY <1>2, <1>3, <1>4 DEF Fixed
<1>7. ASSUME NEW S, S \subseteq live PROVE Guards(new, S) = Guards(book, S)
    BY <1>3, <1>7 DEF Guards
<1>8. QED
    BY <1>2, <1>3, <1>4, <1>5, <1>6, <1>7

(* What a collection of the stores leaves.                                 *)
Left(book, roots) ==
    /\ IsBook(heap'.book) /\ heap' \in Store /\ heap'.rows \subseteq heap'.conditions
    /\ kept' \in Holding
    /\ LiveIn(heap'.book) = kept'.descriptors \cup roots.descriptors
    /\ \A d \in LiveIn(heap'.book) : heap'.book.descriptors[d] = book.descriptors[d]
    /\ \A d \in LiveIn(heap'.book) : Fixed(book, d) => Fixed(heap'.book, d)
    /\ heap'.rows = kept'.rows \cup roots.rows
    /\ roots.conditions \subseteq heap'.conditions
    /\ Archived.rows \subseteq kept'.rows /\ Archived.descriptors \subseteq kept'.descriptors
    /\ ~archive.reset => kept.rows \subseteq kept'.rows /\ kept.descriptors \subseteq kept'.descriptors
    /\ kept'.rows \subseteq kept'.conditions /\ kept'.conditions \subseteq heap'.conditions
    /\ Guards(heap'.book, kept'.descriptors) \ {True} \subseteq kept'.conditions
    /\ Guards(heap'.book, roots.descriptors) \ {True} \subseteq heap'.conditions
    /\ \A d \in kept'.descriptors : Fixed(heap'.book, d)
    /\ Archived = Nothing /\ (archive.reset \/ kept = Nothing) =>
          /\ kept' = Nothing
          /\ roots = Nothing => heap'.conditions = {} /\ heap'.rows = {} /\ LiveIn(heap'.book) = {}

(* The stores keep what they are told to keep: an archive that is valid    *)
(* passes on only what is new, and what it protected is there.             *)
LEMMA StoresLeft ==
    ASSUME SourceInv, OtherTypes, ViewsHeld, KeptHeld, NEW book, After(heap.book, book),
           \A d \in LiveIn(heap.book) : book.descriptors[d] = heap.book.descriptors[d],
           NEW roots \in Holding, roots.descriptors \subseteq LiveIn(book),
           CollectStores(book, roots)
    PROVE  Left(book, roots)
<1>1. PICK before, arch :
        /\ before = [rows |-> Protected(kept.rows), descriptors |-> Protected(kept.descriptors),
                     conditions |-> Protected(kept.conditions)]
        /\ arch = Archived
    OBVIOUS
<1>2. PICK rows, bodies : rows = before.rows \cup arch.rows /\ bodies = before.descriptors \cup arch.descriptors
    OBVIOUS
<1>3. PICK conditions, live :
        /\ conditions = before.conditions \cup (rows \ before.rows)
                          \cup (Guards(book, bodies \ before.descriptors) \ {True})
        /\ live = bodies \cup roots.descriptors
    OBVIOUS
<1>4. /\ kept' = [rows |-> rows, descriptors |-> bodies, conditions |-> conditions]
      /\ heap' = [rows |-> rows \cup roots.rows,
                  conditions |-> conditions \cup roots.conditions \cup (roots.rows \ rows)
                                     \cup (Guards(book, roots.descriptors \ bodies) \ {True}),
                  book |-> OnlyOf(book, live)]
    BY <1>1, <1>2, <1>3, Zenon DEF CollectStores, OnlyOf
<1>5. kept \in Holding /\ IsBook(book) /\ IsBook(heap.book)
    BY DEF OtherTypes, After, SourceInv, StoreSound
<1>6. /\ before.rows \subseteq kept.rows /\ before.descriptors \subseteq kept.descriptors
      /\ before.conditions \subseteq kept.conditions
      /\ ~archive.reset => before.rows = kept.rows /\ before.descriptors = kept.descriptors
                           /\ before.conditions = kept.conditions
      /\ archive.reset => before.rows = {} /\ before.descriptors = {} /\ before.conditions = {}
    BY <1>1 DEF Protected
<1>7. arch \in Holding /\ \A d \in arch.descriptors : Fixed(heap.book, d)
    BY <1>1, ArchivedIs
<1>8. \A d \in bodies : Fixed(heap.book, d)
    BY <1>2, <1>6, <1>7 DEF KeptHeld
<1>9. \A d \in bodies : Fixed(book, d) /\ d \in LiveIn(book) /\ book.descriptors[d] = heap.book.descriptors[d]
    BY <1>5, <1>8, FixedStays DEF Fixed
<1>10. live \subseteq LiveIn(book) /\ live \subseteq Descriptor
    BY <1>3, <1>9 DEF LiveIn
<1>11. PICK new : new = OnlyOf(book, live)
    OBVIOUS
<1>12. /\ IsBook(new) /\ LiveIn(new) = live /\ new.epoch = book.epoch
       /\ \A d \in live : new.descriptors[d] = book.descriptors[d]
       /\ \A d \in live : Fixed(book, d) => Fixed(new, d)
       /\ \A S : S \subseteq live => Guards(new, S) = Guards(book, S)
    BY <1>5, <1>10, <1>11, OnlyBook
<1>13. rows \in SUBSET Condition /\ bodies \in SUBSET Descriptor /\ before.conditions \in SUBSET Condition
    BY <1>2, <1>3, <1>5, <1>6, <1>7, <1>10 DEF Holding
<1>14. /\ Guards(book, bodies \ before.descriptors) \ {True} \in SUBSET Condition
       /\ Guards(book, roots.descriptors \ bodies) \ {True} \in SUBSET Condition
  <2>1. \A S : S \subseteq LiveIn(book) => Guards(book, S) \ {True} \in SUBSET Condition
    <3> SUFFICES ASSUME NEW S, S \subseteq LiveIn(book) PROVE Guards(book, S) \ {True} \in SUBSET Condition
        OBVIOUS
    <3>1. S \cap LiveIn(book) = S
      OBVIOUS
    <3>2. QED
      BY <1>5, <3>1, GuardsOf
  <2>2. QED
    BY <1>3, <1>10, <2>1
<1>15. conditions \in SUBSET Condition
    BY <1>3, <1>13, <1>14
<1>16. kept' \in Holding /\ kept'.rows = rows /\ kept'.descriptors = bodies /\ kept'.conditions = conditions
    BY <1>4, <1>13, <1>15 DEF Holding
<1>17. /\ heap'.rows = rows \cup roots.rows
       /\ heap'.conditions = conditions \cup roots.conditions \cup (roots.rows \ rows)
                                \cup (Guards(book, roots.descriptors \ bodies) \ {True})
       /\ heap'.book = new
    BY <1>4, <1>11
<1>18. heap' \in Store
  <2>1. roots.rows \in SUBSET Condition /\ roots.conditions \in SUBSET Condition
    BY DEF Holding
  <2>2. heap'.rows \in SUBSET Condition /\ heap'.conditions \in SUBSET Condition /\ heap'.book \in Table
    BY <1>12, <1>13, <1>14, <1>15, <1>17, <2>1 DEF IsBook
  <2>3. QED
    BY <1>4, <1>17, <2>2 DEF Store
<1>19. rows \subseteq conditions
    BY <1>3, <1>6 DEF KeptHeld
<1>20. heap'.rows \subseteq heap'.conditions
    BY <1>17, <1>19
<1>21. Guards(book, before.descriptors) \ {True} \subseteq before.conditions
  <2>1. CASE archive.reset
    <3>1. Guards(book, before.descriptors) = {}
      BY <1>6, <2>1 DEF Guards
    <3>2. QED
      BY <3>1
  <2>2. CASE ~archive.reset
    <3>1. \A d \in before.descriptors : book.descriptors[d] = heap.book.descriptors[d]
      BY <1>2, <1>9
    <3>2. Guards(book, before.descriptors) = Guards(heap.book, kept.descriptors)
      BY <1>6, <2>2, <3>1 DEF Guards
    <3>3. QED
      BY <1>6, <2>2, <3>2 DEF KeptHeld
  <2>3. QED
    BY <2>1, <2>2
<1>22. Guards(book, bodies) \ {True} \subseteq conditions
  <2>1. Guards(book, bodies) \subseteq Guards(book, before.descriptors)
                                      \cup Guards(book, bodies \ before.descriptors)
    BY DEF Guards
  <2>2. QED
    BY <1>3, <1>21, <2>1
<1>23. Guards(book, roots.descriptors) \ {True} \subseteq heap'.conditions
  <2>1. Guards(book, roots.descriptors) \subseteq Guards(book, bodies)
                                               \cup Guards(book, roots.descriptors \ bodies)
    BY DEF Guards
  <2>2. QED
    BY <1>17, <1>22, <2>1
<1>24. /\ Guards(new, bodies) = Guards(book, bodies)
       /\ Guards(new, roots.descriptors) = Guards(book, roots.descriptors)
    BY <1>3, <1>12
<1>25. ASSUME Archived = Nothing, archive.reset \/ kept = Nothing
       PROVE  /\ kept' = Nothing
              /\ roots = Nothing => heap'.conditions = {} /\ heap'.rows = {} /\ LiveIn(heap'.book) = {}
  <2>1. before.rows = {} /\ before.descriptors = {} /\ before.conditions = {}
    BY <1>6, <1>25, NothingIs
  <2>2. arch.rows = {} /\ arch.descriptors = {}
    BY <1>1, <1>25, NothingIs
  <2>3. \A S : S = {} => Guards(book, S) = {}
    BY DEF Guards
  <2>4. rows = {} /\ bodies = {}
    BY <1>2, <2>1, <2>2
  <2>5. bodies \ before.descriptors = {}
    BY <2>4
  <2>6. conditions = {}
    BY <1>3, <2>1, <2>3, <2>4, <2>5
  <2>7. kept' = Nothing
    BY <1>4, <2>4, <2>6 DEF Nothing
  <2>8. ASSUME roots = Nothing
        PROVE  heap'.conditions = {} /\ heap'.rows = {} /\ LiveIn(heap'.book) = {}
    <3>1. roots.rows = {} /\ roots.descriptors = {} /\ roots.conditions = {}
      BY <2>8, NothingIs
    <3>2. Guards(book, roots.descriptors \ bodies) = {}
      BY <2>3, <3>1
    <3>3. QED
      BY <1>3, <1>12, <1>17, <2>4, <2>6, <3>1, <3>2
  <2>9. QED
    BY <2>7, <2>8
<1>26. Archived.rows \subseteq kept'.rows /\ Archived.descriptors \subseteq kept'.descriptors
    BY <1>1, <1>2, <1>16
<1>27. ~archive.reset => kept.rows \subseteq kept'.rows /\ kept.descriptors \subseteq kept'.descriptors
    BY <1>2, <1>6, <1>16
<1>28. \A d \in kept'.descriptors : Fixed(heap'.book, d)
    BY <1>3, <1>9, <1>12, <1>16, <1>17
<1>29. conditions \subseteq heap'.conditions /\ roots.conditions \subseteq heap'.conditions
    BY <1>17
<1>30. QED
    BY <1>3, <1>12, <1>16, <1>17, <1>18, <1>19, <1>20, <1>22, <1>23, <1>24, <1>25, <1>26, <1>27,
       <1>28, <1>29 DEF Left

(* What the collector's release does to the lane.                          *)
LEMMA CollectedOwners ==
    ASSUME SourceInv, collector # None,
           IF collector.owns THEN Release /\ NoNewTask ELSE UNCHANGED owners
    PROVE  /\ TypeOK' /\ OneEntry' /\ (Early => OwnerRuns') /\ Placed' = Placed
           /\ ~Early => UNCHANGED <<runnable, waiting>>
<1>1. TypeOK /\ OneEntry /\ (Early => OwnerRuns) /\ (collector.owns => Early)
    BY DEF SourceInv, Places, Stages, Idle
<1>2. CASE collector.owns
  <2>1. Early /\ OwnerRuns /\ Release /\ NoNewTask /\ [Next]_vars
    BY <1>1, <1>2 DEF Next
  <2>2. QED
    BY <1>1, <2>1, LaneSteps, ReleasesPlaced
<1>3. CASE ~collector.owns
  <2>1. UNCHANGED owners
    BY <1>3
  <2>2. QED
    BY <1>1, <2>1, SameOwners DEF owners
<1>4. QED
    BY <1>2, <1>3

(* What a view holds is there after a collection.                          *)
LEMMA ShotLeft ==
    ASSUME SourceInv, OtherTypes, ViewsHeld, ArchiveKept, NEW now, Settled(now),
           NEW rows, NEW roots, Rooted(now, rows, roots), Left(now.book, roots),
           Looks(inspections, inspections', {}), snapshots' = snapshots,
           NEW shot \in Shots'
    PROVE  /\ shot \in Shots /\ shot.graph \subseteq heap'.rows
           /\ Bodies(shot.pending) \subseteq LiveIn(heap'.book)
<1>1. /\ kept'.rows \cup roots.rows \subseteq heap'.rows
      /\ kept'.descriptors \cup roots.descriptors \subseteq LiveIn(heap'.book)
    BY DEF Left
<1>2. ASSUME NEW i \in Ids(snapshots), shot = snapshots[i]
      PROVE  shot.graph \subseteq kept'.rows /\ Bodies(shot.pending) \subseteq kept'.descriptors
  <2>1. CASE i \in Unregistered
    BY <1>2, <2>1, ArchivedIs DEF Left
  <2>2. CASE i \notin Unregistered
    <3>1. i \in Nat /\ i >= 1 /\ archive.after \in Nat /\ ~(i > archive.after)
      BY <2>2 DEF Unregistered, Ids, View, OtherTypes
    <3>2. i <= archive.after /\ ~archive.reset
      BY <3>1 DEF ArchiveKept
    <3>3. shot.graph \subseteq kept.rows /\ Bodies(shot.pending) \subseteq kept.descriptors
      BY <1>2, <3>2 DEF ArchiveKept
    <3>4. QED
      BY <3>2, <3>3 DEF Left
  <2>3. QED
    BY <2>1, <2>2
<1>3. ASSUME NEW i \in Ids(inspections), shot = inspections[i].snapshot, shot # None
      PROVE  shot.graph \subseteq roots.rows /\ Bodies(shot.pending) \subseteq roots.descriptors
    BY <1>3 DEF Rooted
<1>4. \/ \E i \in Ids(snapshots) : shot = snapshots[i]
      \/ \E i \in Ids(inspections) : shot = inspections[i].snapshot /\ shot # None
  <2>1. CASE \E i \in Ids(snapshots') : shot = snapshots'[i]
    BY <2>1
  <2>2. CASE ~\E i \in Ids(snapshots') : shot = snapshots'[i]
    <3>1. PICK i \in Ids(inspections') : shot = inspections'[i].snapshot /\ shot # None
      BY <2>2 DEF Shots
    <3>2. i \in Ids(inspections) /\ inspections'[i].snapshot \in {inspections[i].snapshot, None}
      BY DEF Looks
    <3>3. QED
      BY <3>1, <3>2
  <2>3. QED
    BY <2>1, <2>2
<1>5. shot \in Shots
    BY SnapshotsStay, ShotsGo
<1>6. QED
    BY <1>1, <1>2, <1>3, <1>4, <1>5

(* So what a view holds it still holds, and it says the same.              *)
LEMMA ShotAfter ==
    ASSUME SourceInv, NEW now, Settled(now), NEW roots, Left(now.book, roots),
           NEW shot, ShotHeld(shot), shot.graph \subseteq heap'.rows,
           Bodies(shot.pending) \subseteq LiveIn(heap'.book), birth' = None => ~shot.last
    PROVE  ShotHeld(shot)'
<1>1. ASSUME NEW d \in Bodies(shot.pending)
      PROVE  Fixed(heap'.book, d) /\ heap'.book.descriptors[d] = heap.book.descriptors[d]
  <2>1. Fixed(heap.book, d) /\ IsBook(heap.book) /\ After(heap.book, now.book)
    BY DEF ShotHeld, SourceInv, StoreSound, Settled
  <2>2. Fixed(now.book, d) /\ now.book.descriptors[d] = heap.book.descriptors[d]
    BY <2>1, FixedStays
  <2>3. QED
    BY <2>2 DEF Left
<1>2. \A t \in DOMAIN shot.pending : shot.pending[t] # None => shot.pending[t] \in Bodies(shot.pending)
    BY DEF Bodies, Range
<1>3. Remaining(heap'.book, shot.pending) = Remaining(heap.book, shot.pending)
    BY <1>1, <1>2 DEF Remaining
<1>4. QED
    BY <1>1, <1>3 DEF ShotHeld

(* The archive is then registered up to the last snapshot.                 *)
LEMMA ArchivedUpTo ==
    ASSUME OtherTypes, ArchiveKept
    PROVE  LET last == Max(Unregistered \cup {archive.after})
           IN /\ last \in Nat /\ last < nextView
              /\ last = archive.after \/ last \in Unregistered
              /\ \A i \in Unregistered : i <= last
              /\ archive.after <= last
<1>1. PICK S, n : S = Unregistered \cup {archive.after} /\ n = nextView
    OBVIOUS
<1>2. n \in Nat /\ archive.after \in Nat /\ archive.after < n
    BY <1>1 DEF OtherTypes, ArchiveKept
<1>3. \A i \in Unregistered : i \in Nat /\ i < n
    BY <1>1 DEF Unregistered, ArchiveKept, Ids, View
<1>4. S \in SUBSET Nat /\ S # {} /\ \A x \in S : x <= n /\ x < n
    BY <1>1, <1>2, <1>3
<1>5. Max(S) \in S /\ \A x \in S : x <= Max(S)
    BY <1>2, <1>4, MaxIsIn
<1>6. QED
    BY <1>1, <1>4, <1>5

(* What the source holds is there after a collection.                      *)
LEMMA SourceCollected ==
    ASSUME SourceInv, OtherTypes, ViewsHeld, KeptHeld, ArchiveKept, collector # None, collector' = None,
           NEW now, Settled(now), NEW rows \in SUBSET now.graph,
           NEW roots, Rooted(now, rows, roots), Left(now.book, roots),
           graph' = rows, tasks' = now.tasks, pending' = now.pending, birth' = Trimmed(now),
           IF collector.owns THEN Release /\ NoNewTask ELSE UNCHANGED owners,
           UNCHANGED <<reader, syntax, cancel>>
    PROVE  SourceInv'
<1>1. /\ TypeOK' /\ OneEntry' /\ (Early => OwnerRuns') /\ Placed' = Placed
      /\ ~Early => UNCHANGED <<runnable, waiting>>
    BY CollectedOwners
<1>2. SourceTypes'
  <2>1. graph' \in SUBSET Condition /\ birth' \in Condition \cup {None}
    BY DEF Settled, Trimmed
  <2>2. QED
    BY <2>1 DEF SourceInv, SourceTypes, Settled
<1>3. StoreSound'
  <2>1. heap' \in Store /\ IsBook(heap'.book) /\ heap'.rows \subseteq heap'.conditions
    BY DEF Left
  <2>2. ASSUME NEW d \in LiveIn(heap'.book), heap'.book.descriptors[d].parts # None
        PROVE  heap'.book.descriptors[d].parts.guard \in Known'
    <3>1. PICK book : book = heap'.book
      OBVIOUS
    <3>2. IsBook(book) /\ d \in LiveIn(book) /\ book.descriptors[d].parts # None
      BY <2>1, <2>2, <3>1
    <3>3. d \in kept'.descriptors \/ d \in roots.descriptors
      BY <2>2 DEF Left
    <3>4. CASE d \in kept'.descriptors
      <4>1. book.descriptors[d].parts.guard \in Guards(book, kept'.descriptors)
        BY <3>2, <3>4 DEF Guards
      <4>2. QED
        BY <3>1, <4>1 DEF Left, Known
    <3>5. CASE d \in roots.descriptors
      <4>1. book.descriptors[d].parts.guard \in Guards(book, roots.descriptors)
        BY <3>2, <3>5 DEF Guards
      <4>2. QED
        BY <3>1, <4>1 DEF Left, Known
    <3>6. QED
      BY <3>3, <3>4, <3>5
  <2>3. QED
    BY <2>1, <2>2 DEF StoreSound
<1>4. Live' = Live /\ Live = Placed
    BY DEF Live, Settled, SourceInv, Places, Placed
<1>5. Places'
    BY <1>1, <1>4 DEF Places, Placed, Early
<1>6. Stages'
  <2>1. DOMAIN pending' = DOMAIN pending /\ (Released => graph' = {}) /\ Idle'
        /\ \A t \in DOMAIN pending : pending[t] = None => pending'[t] = None
    BY DEF Settled, Idle
  <2>2. /\ cancel.phase \notin {"Running", "Syntax", "Queue"} => runnable' = {}
        /\ cancel.phase \notin {"Running", "Syntax", "Queue", "Parked"} => waiting' = <<>>
    BY <1>1 DEF SourceInv, Stages, Early
  <2>3. QED
    BY <1>4, <2>1, <2>2 DEF SourceInv, Stages, Released, Canceled
<1>7. ASSUME NEW t \in Live PROVE PayloadHeld(tasks[t])'
  <2>1. /\ now.tasks[t].root \subseteq roots.rows
        /\ {now.tasks[t].body.guard} \ {True} \subseteq roots.conditions
    BY DEF Rooted
  <2>2. QED
    BY <2>1 DEF Left, PayloadHeld, Known
<1>8. StateHeld'
  <2>1. rows \subseteq roots.rows /\ roots.rows \subseteq heap'.rows
    BY DEF Rooted, Left
  <2>2. Trimmed(now) \in heap'.conditions \cup {None}
    BY DEF Rooted, Left
  <2>3. OwnBodies(now.pending) /\ Bodies(now.pending) \subseteq LiveIn(heap'.book)
    BY DEF Settled, Rooted, Left
  <2>4. QED
    BY <1>4, <1>7, <2>1, <2>2, <2>3 DEF StateHeld
<1>9. ReaderHeld'
    BY DEF ReaderHeld, Rooted, Left, Known
<1>10. ASSUME ~Canceled, syntax.done, NEW t \in Live
       PROVE  Remaining(heap'.book, pending')[t] = Parts(tasks'[t].body)
  <2>1. t \in DOMAIN now.pending
    BY <1>10, Runner DEF Settled
  <2>2. Remaining(now.book, now.pending)[t] = Parts(now.tasks[t].body)
    BY <1>10 DEF Settled
  <2>3. now.pending[t] # None => heap'.book.descriptors[now.pending[t]] = now.book.descriptors[now.pending[t]]
    <3>1. now.pending[t] # None => now.pending[t] \in LiveIn(heap'.book)
      BY <2>1, BodiesOf DEF Rooted, Left
    <3>2. QED
      BY <3>1 DEF Left
  <2>4. PICK book, map : book = heap'.book /\ map = now.pending
    OBVIOUS
  <2>5. Remaining(book, map)[t] = IF map[t] = None THEN None ELSE book.descriptors[map[t]].parts
    BY <2>1, <2>4, TellsOf
  <2>6. Remaining(now.book, map)[t] = IF map[t] = None THEN None ELSE now.book.descriptors[map[t]].parts
    BY <2>1, <2>4, TellsOf
  <2>7. QED
    BY <2>2, <2>3, <2>4, <2>5, <2>6
<1>11. BodiesTold'
    BY <1>4, <1>10 DEF BodiesTold, Canceled
<1>12. QED
    BY <1>2, <1>3, <1>5, <1>6, <1>8, <1>9, <1>11 DEF SourceInv

(* A collection keeps the invariant, and the last of a cancellation        *)
(* empties the heap.                                                       *)
LEMMA CollectKeeps ==
    ASSUME HeapInv, Collect, Looks(inspections, inspections', {}),
           Ids(inspections') = Ids(inspections), UNCHANGED <<snapshots, nextView>>
    PROVE  HeapInv'
<1>0. PICK now \in Compacted : \E rows \in Pruned(now) :
        /\ graph' = rows /\ tasks' = now.tasks /\ pending' = now.pending
        /\ birth' = Trimmed(now)
        /\ CollectStores(now.book, RootsOf(now, rows))
    BY Zenon DEF Collect, RootsOf
<1>1. PICK rows \in Pruned(now) :
        /\ graph' = rows /\ tasks' = now.tasks /\ pending' = now.pending
        /\ birth' = Trimmed(now)
        /\ CollectStores(now.book, RootsOf(now, rows))
    BY <1>0
<1>2. /\ SourceInv /\ OtherTypes /\ ViewsHeld /\ KeptHeld /\ ArchiveKept /\ Emptied
      /\ collector # None /\ collector' = None
      /\ IF collector.owns THEN Release /\ NoNewTask ELSE UNCHANGED owners
      /\ UNCHANGED <<requested, reader, syntax, cancel>>
      /\ archive' = [after |-> Max(Unregistered \cup {archive.after}), reset |-> FALSE]
    BY DEF Collect, HeapInv
<1>3. Settled(now) /\ (~collector.owns => now = Current)
    BY <1>2, CompactedSettled
<1>4. rows \in SUBSET now.graph
    BY DEF Pruned
<1>5. PICK roots : roots = RootsOf(now, rows)
    OBVIOUS
<1>6. Rooted(now, rows, roots)
    BY <1>2, <1>3, <1>4, <1>5, RootsAre
<1>7. Left(now.book, roots)
  <2>1. PICK book : book = now.book
    OBVIOUS
  <2>2. /\ After(heap.book, book) /\ roots \in Holding /\ roots.descriptors \subseteq LiveIn(book)
        /\ \A d \in LiveIn(heap.book) : book.descriptors[d] = heap.book.descriptors[d]
        /\ CollectStores(book, roots)
    BY <1>1, <1>3, <1>5, <1>6, <2>1 DEF Settled, Rooted
  <2>3. Left(book, roots)
    BY <1>2, <2>2, StoresLeft
  <2>4. QED
    BY <2>1, <2>3
<1>8. SourceInv'
    BY <1>1, <1>2, <1>3, <1>4, <1>6, <1>7, SourceCollected
<1>9. SnapshotsGo /\ Shots' \subseteq Shots
    BY <1>2, SnapshotsStay, ShotsGo
<1>10. ASSUME NEW shot \in Shots' PROVE ShotHeld(shot)'
  <2>1. /\ shot \in Shots /\ shot.graph \subseteq heap'.rows
        /\ Bodies(shot.pending) \subseteq LiveIn(heap'.book)
    BY <1>2, <1>3, <1>6, <1>7, ShotLeft
  <2>2. ShotHeld(shot)
    BY <1>2, <2>1 DEF ViewsHeld
  <2>3. birth' = None => ~shot.last
    <3>1. CASE Released /\ ~RetainsChoices
      BY <2>1, <3>1 DEF RetainsChoices
    <3>2. CASE ~(Released /\ ~RetainsChoices)
      <4>1. birth' = now.birth
        BY <1>1, <3>2 DEF Trimmed
      <4>2. QED
        BY <1>3, <2>2, <4>1 DEF Settled, ShotHeld
    <3>3. QED
      BY <3>1, <3>2
  <2>4. QED
    BY <1>2, <1>3, <1>7, <2>1, <2>2, <2>3, ShotAfter
<1>11. ViewsHeld'
  <2>1. ASSUME NEW i \in Ids(inspections') PROVE inspections'[i].scope \in Known'
    <3>1. i \in Ids(inspections) /\ inspections'[i].scope = inspections[i].scope
      BY DEF Looks
    <3>2. {inspections[i].scope} \ {True} \subseteq heap'.conditions
      BY <1>6, <1>7, <3>1 DEF Rooted, Left
    <3>3. QED
      BY <3>1, <3>2 DEF Known
  <2>2. QED
    BY <1>10, <2>1 DEF ViewsHeld
<1>12. KeptHeld'
    BY <1>7 DEF Left, KeptHeld
<1>13. PICK last : last = Max(Unregistered \cup {archive.after})
    OBVIOUS
<1>14. /\ last \in Nat /\ last < nextView
       /\ \A i \in Unregistered : i <= last
       /\ archive.after <= last
    BY <1>2, <1>13, ArchivedUpTo
<1>15. archive' = [after |-> last, reset |-> FALSE]
    BY <1>2, <1>13
<1>16. ASSUME Ids(snapshots) = {}
       PROVE  kept' = Nothing /\ (roots = Nothing => heap'.conditions = {} /\ heap'.rows = {} /\ LiveIn(heap'.book) = {})
  <2>1. Archived = Nothing
    BY <1>2, <1>16, ArchivedIs DEF Unregistered
  <2>2. archive.reset \/ kept = Nothing
    BY <1>2, <1>16 DEF ArchiveKept
  <2>3. QED
    BY <1>7, <2>1, <2>2 DEF Left
<1>17. ArchiveKept'
  <2>1. ASSUME NEW i \in Ids(snapshots), i <= last
        PROVE  /\ snapshots[i].graph \subseteq kept'.rows
               /\ Bodies(snapshots[i].pending) \subseteq kept'.descriptors
    <3>1. CASE i \in Unregistered
      BY <1>2, <1>7, <3>1, ArchivedIs DEF Left
    <3>2. CASE i \notin Unregistered
      <4>1. i \in Nat /\ i >= 1 /\ archive.after \in Nat /\ ~(i > archive.after)
        BY <1>2, <3>2 DEF Unregistered, Ids, View, OtherTypes
      <4>2. i <= archive.after /\ ~archive.reset
        BY <1>2, <4>1 DEF ArchiveKept
      <4>3. QED
        BY <1>2, <1>7, <4>2 DEF ArchiveKept, Left
    <3>3. QED
      BY <3>1, <3>2
  <2>2. /\ archive'.after = last /\ archive'.reset = FALSE /\ snapshots' = snapshots /\ nextView' = nextView
        /\ Ids(snapshots') = Ids(snapshots)
    BY <1>15 DEF Ids
  <2>3. \A i \in Ids(snapshots) : i < nextView
    BY <1>2 DEF ArchiveKept
  <2>4. QED
    BY <1>14, <1>16, <2>1, <2>2, <2>3 DEF ArchiveKept
<1>18. Emptied'
  <2> SUFFICES ASSUME Released', Ids(snapshots') \cup Ids(inspections') = {}
               PROVE  /\ heap'.conditions = {} /\ heap'.rows = {} /\ LiveIn(heap'.book) = {}
                      /\ birth' = None
      BY DEF Emptied
  <2>1. Released
    BY <1>2 DEF Released
  <2>2. Ids(snapshots) = {} /\ Ids(inspections) = {}
    BY DEF Ids
  <2>3. roots = Nothing
    BY <1>6, <2>1, <2>2 DEF Rooted
  <2>4. Shots = {}
    BY <2>2 DEF Shots
  <2>5. birth' = None
    BY <1>1, <2>1, <2>4 DEF Trimmed, RetainsChoices
  <2>6. QED
    BY <1>16, <2>2, <2>3, <2>5
<1>19. OtherTypes'
  <2>1. archive' \in [after : Nat, reset : BOOLEAN]
    BY <1>14, <1>15
  <2>2. kept' \in Holding /\ inspections' \in [View -> Looking \cup {None}]
    BY <1>7 DEF Left, Looks
  <2>3. QED
    BY <1>2, <1>9, <2>1, <2>2 DEF OtherTypes, SnapshotsGo
<1>20. QED
    BY <1>8, <1>11, <1>12, <1>17, <1>18, <1>19 DEF HeapInv

-----------------------------------------------------------------------------
(* The invariant at the start and along every step.                        *)

(* The engine starts with one task and an empty heap.                      *)
LEMMA StartsSound ==
    ASSUME HeapInit
    PROVE  HeapInv
<1>1. PICK t \in Task : /\ runnable = {t}
                        /\ tasks = [u \in Task |-> IF u = t THEN NoBody ELSE None]
                        /\ pending = [u \in {t} |-> None]
    BY DEF HeapInit
<1>2. /\ lane = Free /\ waiting = <<>> /\ flag = [s \in Scalar |-> FALSE]
      /\ graph = {} /\ birth = None /\ reader = None
      /\ syntax = [done |-> FALSE, seen |-> {}]
      /\ heap = [rows |-> {}, conditions |-> {}, book |-> NewBook]
      /\ kept = Nothing
      /\ archive = [after |-> 0, reset |-> FALSE]
      /\ snapshots = [i \in View |-> None] /\ inspections = [i \in View |-> None]
      /\ nextView = 1
      /\ cancel = [phase |-> "Running", limit |-> 0]
      /\ collector = None /\ requested = FALSE
    BY DEF HeapInit
<1>3. /\ Ids(snapshots) = {} /\ Ids(inspections) = {} /\ Shots = {}
    BY <1>2 DEF Ids, Shots
<1>4. /\ heap.rows = {} /\ heap.conditions = {} /\ heap.book = NewBook
      /\ LiveIn(NewBook) = {} /\ NewBook \in Table /\ IsBook(NewBook)
  <2>1. NewBook \in Table /\ LiveIn(NewBook) = {}
    BY DEF NewBook, Table, LiveIn
  <2>2. QED
    BY <1>2, <2>1 DEF IsBook
<1>5. NoBody \in Payload /\ NoBody # None /\ NoBody.root = {} /\ NoBody.body.guard = True
  <2>1. 0 \in 0 .. MaxProgress
    BY HeapBounds
  <2>2. NoBody \in Payload
    BY <2>1 DEF NoBody, Payload, Body, Guard
  <2>3. QED
    BY <2>2, NoneAndTrueApart DEF NoBody
<1>6. Live = {t} /\ Parked = {}
  <2>1. Waiters = {}
    BY <1>2 DEF Waiters
  <2>2. \A u \in Task : tasks[u] # None <=> u = t
    BY <1>1, <1>5
  <2>3. QED
    BY <2>1, <2>2 DEF Live, Parked
<1>7. DOMAIN pending = {t} /\ pending[t] = None
    BY <1>1
<1>8. Bodies(pending) = {} /\ OwnBodies(pending)
    BY <1>7 DEF Bodies, Range, OwnBodies
<1>9. pending \in PendingMap
  <2>1. PICK T \in SUBSET Task : T = {t}
    OBVIOUS
  <2>2. pending \in [T -> Descriptor \cup {None}]
    BY <1>1, <2>1
  <2>3. QED
    BY <2>2, IsMap DEF PendingMap
<1>10. SourceTypes
    BY <1>1, <1>2, <1>5, <1>9 DEF SourceTypes
<1>11. StoreSound
    BY <1>2, <1>4 DEF StoreSound, Store
<1>12. Places
  <2>1. TypeOK /\ OneEntry /\ OwnerRuns
    BY <1>1, <1>2, InitInv DEF Init, Inv
  <2>2. QED
    BY <1>1, <1>6, <2>1 DEF Places
<1>13. Stages
    BY <1>2, <1>6, <1>7 DEF Stages, Released, Canceled, Idle
<1>14. StateHeld
    BY <1>1, <1>2, <1>4, <1>5, <1>6, <1>8 DEF StateHeld, PayloadHeld, Known
<1>15. ReaderHeld /\ BodiesTold
    BY <1>2 DEF ReaderHeld, BodiesTold
<1>16. OtherTypes
  <2>1. kept \in Holding
    BY <1>2, NothingIs
  <2>2. snapshots \in [View -> Captured \cup {None}] /\ inspections \in [View -> Looking \cup {None}]
    BY <1>2
  <2>3. archive \in [after : Nat, reset : BOOLEAN] /\ nextView \in Nat \ {0}
    BY <1>2
  <2>6. collector \in [owns : BOOLEAN] \cup {None} /\ requested \in BOOLEAN
    <3>1. collector = None /\ requested = FALSE
      BY <1>2
    <3>2. QED
      BY <3>1
  <2>4. cancel \in [phase : CancelPhase, limit : Nat] /\ syntax \in [done : BOOLEAN, seen : SUBSET Task]
    BY <1>2 DEF CancelPhase
  <2>5. QED
    BY <2>1, <2>2, <2>3, <2>4, <2>6 DEF OtherTypes
<1>17. ViewsHeld /\ ArchiveKept /\ Emptied
    BY <1>2, <1>3 DEF ViewsHeld, ArchiveKept, Emptied, Released
<1>18. KeptHeld
    BY <1>2, <1>4, NothingIs DEF KeptHeld, Guards
<1>19. QED
    BY <1>10, <1>11, <1>12, <1>13, <1>14, <1>15, <1>16, <1>17, <1>18 DEF HeapInv, SourceInv

(* Nothing happens.                                                        *)
LEMMA StutterKeeps ==
    ASSUME HeapInv, UNCHANGED heapVars
    PROVE  HeapInv'
<1>1. /\ SourceInv /\ OtherTypes /\ ArchiveKept /\ Emptied
      /\ UNCHANGED <<owners, source, syntax, heap, kept, archive, snapshots, inspections, nextView,
                     cancel, collector, requested>>
    BY DEF HeapInv, heapVars, views
<1>2. Kept
    BY <1>1, SameKeeps
<1>3. SnapshotsGo /\ Looks(inspections, inspections', Known')
    BY <1>1, SnapshotsStay, SameLooks
<1>4. ArchiveKept'
    BY <1>1, SameArchive
<1>5. Emptied'
    BY <1>1 DEF Emptied, Released, Idle, Ids, source
<1>6. OtherTypesAfter
    BY <1>1 DEF OtherTypes, OtherTypesAfter
<1>7. QED
    BY <1>1, <1>2, <1>3, <1>4, <1>5, <1>6, RestKeeps

(* More conditions are known.                                              *)
LEMMA LooksMore ==
    ASSUME NEW known, Looks(inspections, inspections', {})
    PROVE  Looks(inspections, inspections', known)
BY DEF Looks

(* The inspections stay as they are.                                       *)
LEMMA SameViews ==
    ASSUME OtherTypes, inspections' = inspections
    PROVE  Looks(inspections, inspections', {}) /\ Ids(inspections') = Ids(inspections)
BY LooksItself DEF OtherTypes

(* The host advances the engine.                                           *)
LEMMA AdvanceKeeps ==
    ASSUME HeapInv, Advance
    PROVE  HeapInv'
<1>1. OtherTypes /\ UNCHANGED <<snapshots, nextView>>
    BY DEF HeapInv, Advance
<1>2. CASE Collect /\ inspections' = inspections
    BY <1>1, <1>2, SameViews, CollectKeeps
<1>3. CASE Begin(TRUE) /\ inspections' = inspections
    BY <1>1, <1>3, SameLooks, BeginKeeps
<1>4. CASE QueueForLane
    BY <1>1, <1>4, WaitKeeps
<1>5. CASE Idle /\ Serve
    BY <1>1, <1>5, ServeKeeps
<1>6. QED
    BY <1>2, <1>3, <1>4, <1>5 DEF Advance

(* The host advances an inspection.                                        *)
LEMMA AdvanceInspectionKeeps ==
    ASSUME HeapInv, NEW i \in View, AdvanceInspection(i)
    PROVE  HeapInv'
<1>1. OtherTypes /\ i \in Ids(inspections) /\ UNCHANGED <<snapshots, nextView>>
    BY DEF HeapInv, AdvanceInspection
<1>2. CASE (Collect \/ Begin(FALSE)) /\ inspections' = Due(i)
  <2>1. PICK map \in [View -> Looking \cup {None}] :
            map = Due(i) /\ Looks(inspections, map, {}) /\ Ids(map) = Ids(inspections)
    BY <1>1, DueIs
  <2>2. Looks(inspections, inspections', {}) /\ Ids(inspections') = Ids(inspections)
    BY <1>2, <2>1
  <2>3. Looks(inspections, inspections', Known')
    BY <2>2 DEF Looks
  <2>4. QED
    BY <1>1, <1>2, <2>2, <2>3, CollectKeeps, BeginKeeps
<1>3. CASE /\ Idle
           /\ IF Canceled /\ cancel.phase # "Done" THEN CancelTick(Due(i))
              ELSE /\ InspectionTick(Due(i), i)
                   /\ UNCHANGED <<owners, source, syntax, cancel>>
           /\ Served
           /\ UNCHANGED <<kept, archive, collector>>
    BY <1>1, <1>3, InspectionKeeps
<1>4. QED
    BY <1>2, <1>3 DEF AdvanceInspection

(* The host asks for maintenance.                                          *)
LEMMA MaintainKeeps ==
    ASSUME HeapInv, Maintain
    PROVE  HeapInv'
<1>1. OtherTypes /\ UNCHANGED <<snapshots, inspections, nextView>>
    BY DEF HeapInv, Maintain, views
<1>2. CASE Collect
    BY <1>1, <1>2, SameViews, CollectKeeps
<1>3. CASE Begin(FALSE)
    BY <1>1, <1>3, SameLooks, BeginKeeps
<1>4. QED
    BY <1>2, <1>3 DEF Maintain

(* Every step keeps the invariant.                                         *)
LEMMA StepsKeep ==
    ASSUME HeapInv, [HeapNext]_heapVars
    PROVE  HeapInv'
<1>1. CASE Advance
    BY <1>1, AdvanceKeeps
<1>2. CASE \E i \in View : AdvanceInspection(i)
    BY <1>2, AdvanceInspectionKeeps
<1>3. CASE Maintain
    BY <1>3, MaintainKeeps
<1>4. CASE Call
    BY <1>4, CaptureKeeps, StartInspectionKeeps, CancelsKeep, ReleaseKeeps, OneViewKeeps DEF Call
<1>5. CASE UNCHANGED heapVars
    BY <1>5, StutterKeeps
<1>6. QED
    BY <1>1, <1>2, <1>3, <1>4, <1>5 DEF HeapNext

-----------------------------------------------------------------------------
(* What it says.                                                           *)

(* The invariant says that nothing which is held is freed,                 *)
LEMMA HeldIsThere ==
    ASSUME HeapInv
    PROVE  NothingHeldIsFreed
<1>1. SourceInv /\ OtherTypes /\ ViewsHeld
    BY DEF HeapInv
<1>2. PICK all, held :
        /\ all = {CurrentRoots, ReaderRoots} \cup {TaskRoots(tasks[t]) : t \in Live}
                 \cup {ShotRoots(shot) : shot \in Shots} \cup {ViewRoots(i) : i \in Ids(inspections)}
                 \cup {BirthRoots(birth)}
        /\ held = Held
    OBVIOUS
<1>3. held = JoinAll(all)
    BY <1>2 DEF Held
<1> DEFINE There(h) == /\ h.rows \subseteq heap.rows /\ h.conditions \subseteq heap.conditions
                       /\ h.descriptors \subseteq LiveIn(heap.book)
<1>4. There(CurrentRoots)
    BY <1>1 DEF CurrentRoots, SourceInv, StateHeld
<1>5. There(ReaderRoots)
    BY <1>1, NothingIs, ReaderRootsIs DEF SourceInv, ReaderHeld, Known
<1>6. \A t \in Live : There(TaskRoots(tasks[t]))
  <2> SUFFICES ASSUME NEW t \in Live PROVE There(TaskRoots(tasks[t]))
      OBVIOUS
  <2>1. tasks[t] \in Payload /\ PayloadHeld(tasks[t])
    BY <1>1 DEF SourceInv, SourceTypes, StateHeld, Live
  <2>2. QED
    BY <2>1, TaskRootsIs DEF PayloadHeld, Known
<1>7. \A shot \in Shots : There(ShotRoots(shot))
  <2> SUFFICES ASSUME NEW shot \in Shots PROVE There(ShotRoots(shot))
      OBVIOUS
  <2>1. shot \in Captured
    BY <1>1 DEF Shots, OtherTypes, Ids, Looking
  <2>2. ShotHeld(shot)
    BY <1>1 DEF ViewsHeld
  <2>3. QED
    BY <2>1, <2>2, ShotRootsIs DEF ShotHeld, Fixed
<1>8. \A i \in Ids(inspections) : There(ViewRoots(i))
  <2> SUFFICES ASSUME NEW i \in Ids(inspections) PROVE There(ViewRoots(i))
      OBVIOUS
  <2>1. /\ ViewRoots(i).conditions = {inspections[i].scope} \ {True}
        /\ inspections[i].snapshot = None => ViewRoots(i).rows = {} /\ ViewRoots(i).descriptors = {}
        /\ inspections[i].snapshot # None =>
             /\ ViewRoots(i).rows = inspections[i].snapshot.graph
             /\ ViewRoots(i).descriptors = Bodies(inspections[i].snapshot.pending)
    BY <1>1, ViewRootsIs
  <2>2. inspections[i].scope \in Known
    BY <1>1 DEF ViewsHeld
  <2>3. CASE inspections[i].snapshot = None
    BY <2>1, <2>2, <2>3 DEF Known
  <2>4. CASE inspections[i].snapshot # None
    <3>1. PICK shot : shot = inspections[i].snapshot
      OBVIOUS
    <3>2. shot \in Shots
      BY <2>4, <3>1 DEF Shots
    <3>3. ShotHeld(shot)
      BY <1>1, <3>2 DEF ViewsHeld
    <3>4. QED
      BY <2>1, <2>2, <2>4, <3>1, <3>3 DEF ShotHeld, Fixed, Known
  <2>5. QED
    BY <2>3, <2>4
<1>9. There(BirthRoots(birth))
    BY <1>1, BirthRootsIs DEF SourceInv, SourceTypes, StateHeld
<1>10. \A h \in all : There(h)
    BY <1>2, <1>4, <1>5, <1>6, <1>7, <1>8, <1>9
<1>11. There(held)
    BY <1>3, <1>10 DEF JoinAll
<1>12. Guards(heap.book, held.descriptors) \ {True} \subseteq heap.conditions
    BY <1>1, <1>11 DEF Guards, SourceInv, StoreSound, Known
<1>13. birth = None => \A shot \in Shots : ~shot.last
    BY <1>1 DEF ViewsHeld, ShotHeld
<1>14. heap.rows \subseteq heap.conditions
    BY <1>1 DEF SourceInv, StoreSound
<1>15. QED
    BY <1>2, <1>11, <1>12, <1>13, <1>14 DEF NothingHeldIsFreed

(* that views tell the truth,                                              *)
LEMMA RecordsTold ==
    ASSUME HeapInv
    PROVE  RecordsAreTrue
BY DEF HeapInv, SourceInv, ViewsHeld, ShotHeld, BodiesTold, RecordsAreTrue

(* and that a canceled engine is empty.                                    *)
LEMMA AllIsGone ==
    ASSUME HeapInv
    PROVE  NothingIsLeft
BY DEF HeapInv, Emptied, NothingIsLeft, Collecting, Released, Idle

(* The inductive invariant.                                                *)
THEOREM HeapInvariant == HeapSpec => []HeapInv
<1>1. HeapInit => HeapInv
    BY StartsSound
<1>2. HeapInv /\ [HeapNext]_heapVars => HeapInv'
    BY StepsKeep
<1>3. QED
    BY <1>1, <1>2, PTL DEF HeapSpec

(* Whatever a task, the certificate, the observer, the stepper, a birth or *)
(* a view holds is in the stores, with all that it names: no collection,   *)
(* at whatever time it comes, frees it (Collector::tick).                  *)
THEOREM HeapHoldsWhatIsHeld == HeapSpec => []NothingHeldIsFreed
BY HeapInvariant, HeldIsThere, PTL

(* A snapshot or inspection says of every body what it said when it was    *)
(* captured, though bodies go on, are renamed and their records recycled;  *)
(* and the record of a current body is the body's (sync_obligation,        *)
(* capture_checkpoint).                                                    *)
THEOREM HeapTellsTheTruth == HeapSpec => []RecordsAreTrue
BY HeapInvariant, RecordsTold, PTL

(* When a cancellation is done, its collection over and the views of the   *)
(* host released, nothing is left in the heap (cancel_tick).               *)
THEOREM CancelLeavesNothing == HeapSpec => []NothingIsLeft
BY HeapInvariant, AllIsGone, PTL
=============================================================================
