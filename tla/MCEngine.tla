------------------------------ MODULE MCEngine ------------------------------
(* Programs for Engine, small enough to be run in every order.             *)
EXTENDS Engine

Post(rel, args) == [op |-> "Post", rel |-> rel, args |-> args]
Equal(x, y) == [op |-> "Equal", x |-> x, y |-> y]
And(items) == [op |-> "And", items |-> items]
Or(items) == [op |-> "Or", items |-> items]
True == [op |-> "True"]
Fail == [op |-> "Fail"]

Atom(rel, args) == [rel |-> rel, args |-> args]

(* a(A), ((b(B), a(B), (A = C, B = C)) ; true).                            *)
(* a(X), b(X) ==> t(X).   a(X) \ a(X) <=> u(N).                            *)
RulesProgram ==
    [code |-> << And(<<2, 3>>), Post("a", <<1>>), Or(<<4, 5>>), And(<<6, 7, 8>>), True,
                 Post("b", <<2>>), Post("a", <<2>>), And(<<9, 10>>), Equal(1, 3), Equal(2, 3),
                 Post("t", <<1>>), Post("u", <<2>>) >>,
     rules |-> << [heads |-> <<Atom("a", <<1>>), Atom("b", <<1>>)>>,
                   kept |-> 2, bound |-> 1, slots |-> 1, body |-> 11],
                  [heads |-> <<Atom("a", <<1>>), Atom("a", <<1>>)>>,
                   kept |-> 1, bound |-> 1, slots |-> 2, body |-> 12] >>,
     query |-> 1, vars |-> 3, tasks |-> 90, ends |-> TRUE]

(* p(A), ((fail, p(A)) ; q(A) ; true).   p(X) <=> q(X).                    *)
(* p(X), q(X) <=> fail.                                                    *)
ArmsProgram ==
    [code |-> << And(<<2, 3>>), Post("p", <<1>>), Or(<<4, 6, 7>>),
                 And(<<5, 2>>), Fail, Post("q", <<1>>), True >>,
     rules |-> << [heads |-> <<Atom("p", <<1>>)>>,
                   kept |-> 0, bound |-> 1, slots |-> 1, body |-> 6],
                  [heads |-> <<Atom("p", <<1>>), Atom("q", <<1>>)>>,
                   kept |-> 0, bound |-> 1, slots |-> 1, body |-> 5] >>,
     query |-> 1, vars |-> 1, tasks |-> 40, ends |-> TRUE]

(* l(A) ; true.   l(X) <=> l(X).                                           *)
LoopProgram ==
    [code |-> << Or(<<2, 3>>), Post("l", <<1>>), True >>,
     rules |-> << [heads |-> <<Atom("l", <<1>>)>>,
                   kept |-> 0, bound |-> 1, slots |-> 1, body |-> 2] >>,
     query |-> 1, vars |-> 1, tasks |-> 20, ends |-> FALSE]

JoinPrograms == {RulesProgram}
ArmPrograms == {ArmsProgram, LoopProgram}
=============================================================================
