---------------------------- MODULE MCCoordinates ----------------------------
(* Small programs for module Coordinates.                                   *)
EXTENDS Coordinates

True == [op |-> "True"]
Failing == [op |-> "Fail"]
Posting(f) == [op |-> "Post", fact |-> f]
Either(left, right) == [op |-> "Or", left |-> left, right |-> right]
When(heads, body) == [heads |-> heads, body |-> body]

(* A search of the first state, while choice after choice loses an arm.     *)
OneArm ==
    [query |-> <<Posting("a"), Either(Either(Failing, Either(True, Failing)), Failing)>>,
     rules |-> <<When({"a"}, True)>>, passes |-> 3, views |-> 0]
Findings ==
    [query |-> <<Either(Posting("a"), Posting("b")), Either(True, Failing)>>,
     rules |-> <<When({"a"}, True), When({"a"}, Failing), When({"b"}, True)>>,
     passes |-> 1, views |-> 0]

(* An answer is certified in one arm while the other one fails.             *)
Early ==
    [query |-> <<Either(True, Either(Failing, Either(Failing, True)))>>, rules |-> <<>>,
     passes |-> 2, views |-> 1]

(* Two choices that must agree, found out by rules.                         *)
Agree ==
    [query |-> <<Either(Posting("a"), Posting("b")), Either(Posting("c"), Posting("d"))>>,
     rules |-> <<When({"a", "d"}, Failing), When({"b", "c"}, Failing)>>,
     passes |-> 1, views |-> 0]

(* Choices in both arms of another, seen by views.                          *)
Nested ==
    [query |-> <<Either(Either(True, Failing), Either(Failing, True))>>,
     rules |-> <<>>, passes |-> 1, views |-> 2]

MCPrograms == {OneArm, Findings, Early, Agree, Nested}
==============================================================================
