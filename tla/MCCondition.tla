----------------------------- MODULE MCCondition -----------------------------
(* Four choices, the third born under the first, the fourth under all, at  *)
(* any moment of a reordering.  Register 6 is smaller with the second      *)
(* choice first, so that collections reorder under the tasks that follow;  *)
(* the last call leaves the first choice without nodes.                    *)
EXTENDS Condition

fresh(scope) == [do |-> "Fresh", scope |-> scope]
apply(op, x, y) == [do |-> op, x |-> x, y |-> y]
substitute(x, images) == [do |-> "Transform", x |-> x, images |-> images, cutoff |-> None]
project(x, cutoff) == [do |-> "Transform", x |-> x, images |-> <<>>, cutoff |-> cutoff]
forget(xs) == [do |-> "Forget", x |-> xs]

MCScript == <<fresh(None), fresh(None), fresh(1),
              apply("And", 1, 3), apply("Difference", 1, 1), apply("Or", 2, 4),
              substitute(6, 2 :> 5), forget({5, 7}),
              fresh(6), apply("Difference", 1, 2), substitute(10, 1 :> 3),
              project(11, 3), forget({1, 4, 6, 10})>>
=============================================================================
