----------------------------- MODULE Obligations -----------------------------
(***************************************************************************)
(* The records of unfinished bodies (src/engine/obligations.rs).           *)
(*                                                                         *)
(* pending_root maps each task to a row, and the row of a body names a     *)
(* descriptor that says what is left of it: `at' stands for the            *)
(* instruction and its operands still to be run, `guard' for the           *)
(* conditions.  Views keep old versions of the map, so a descriptor may be *)
(* changed in place only if no view was captured since it was made.        *)
(*                                                                         *)
(* A `book' is the table: descriptors and the epoch of the last capture.   *)
(* What allocates yields one result for each free identity.                *)
(***************************************************************************)
EXTENDS Naturals, FiniteSets, Functions

CONSTANTS
    Descriptor,   \* identities of descriptors
    MaxProgress,  \* bound: steps of a body
    None          \* an empty Option

NewBook == [descriptors |-> [d \in Descriptor |-> None], epoch |-> 0]

FreeIn(book) == {d \in Descriptor : book.descriptors[d] = None}
LiveIn(book) == {d \in Descriptor : book.descriptors[d] # None}

(* freeze_syntax: every capture starts an epoch.                           *)
Frozen(book) == [book EXCEPT !.epoch = @ + 1]

(* obligation_parts: what is left of a body, None if that is nothing.      *)
Parts(body) ==
    IF body.at = MaxProgress THEN None ELSE [at |-> body.at, guard |-> body.guard]

(* allocate_descriptor.                                                    *)
Allocated(book, parts) ==
    {[book |-> [book EXCEPT !.descriptors[d] = [parts |-> parts, epoch |-> book.epoch]],
      body |-> d] : d \in FreeIn(book)}

(* Fault: a descriptor is changed although a view may read it.             *)
UpdatedInPlace(book, previous, parts) ==
    IF previous = None
    THEN IF parts = None THEN {[book |-> book, body |-> None]} ELSE Allocated(book, parts)
    ELSE {[book |-> [book EXCEPT !.descriptors[previous].parts = parts], body |-> previous]}

(* update_descriptor.                                                      *)
Updated(book, previous, parts) ==
    IF previous = None
    THEN IF parts = None THEN {[book |-> book, body |-> None]} ELSE Allocated(book, parts)
    ELSE LET old == book.descriptors[previous]
         IN IF old.parts = parts THEN {[book |-> book, body |-> previous]}
            ELSE IF old.epoch = book.epoch
            THEN {[book |-> [book EXCEPT !.descriptors[previous].parts = parts],
                   body |-> previous]}
            ELSE Allocated(book, parts)

(* What the version `pending' of the map says is left of each task.        *)
Remaining(book, pending) ==
    [t \in DOMAIN pending |->
        IF pending[t] = None THEN None ELSE book.descriptors[pending[t]].parts]

(* The conditions of some descriptors.                                     *)
Guards(book, descriptors) ==
    {book.descriptors[d].parts.guard : d \in
        {e \in descriptors : book.descriptors[e].parts # None}}

Bodies(pending) == Range(pending) \ {None}

(* Substitution::tick, for a renaming of conditions: bodies whose parts    *)
(* change get new descriptors, whatever the epoch.                         *)
Renamed(parts, from, to) ==
    IF parts # None /\ parts.guard = from THEN [parts EXCEPT !.guard = to] ELSE parts

Affected(book, pending, from) ==
    {t \in DOMAIN pending : from \in Guards(book, {pending[t]} \ {None})}

Substituted(book, pending, from, to) ==
    LET affected == Affected(book, pending, from)
    IN {[book |-> [book EXCEPT !.descriptors = [d \in Descriptor |->
                       IF \E t \in affected : new[t] = d
                       THEN LET t == CHOOSE t \in affected : new[t] = d
                            IN [parts |-> Renamed(@[pending[t]].parts, from, to),
                                epoch |-> book.epoch]
                       ELSE @[d]]],
         pending |-> [t \in DOMAIN pending |->
                       IF t \in affected THEN new[t] ELSE pending[t]]]
        : new \in {f \in [affected -> FreeIn(book)] : IsInjective(f)}}
=============================================================================
