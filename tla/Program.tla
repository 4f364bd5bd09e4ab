------------------------------- MODULE Program -------------------------------
(***************************************************************************)
(* A prepared program (src/program.rs): instructions, rules, and the       *)
(* tables that say which rule heads a fact triggers.                       *)
(*                                                                         *)
(* An instruction is a record with field op:                               *)
(*    True, Fail                                                           *)
(*    Post    rel, args     args are slots of the binding environment      *)
(*    Equal   x, y          two slots                                      *)
(*    And, Or items         indexes of instructions                        *)
(* A rule has heads (rel and args, slots again), the first `kept' of which *)
(* stay, `bound' slots that occur in heads, `slots' slots altogether (the  *)
(* others are fresh variables of an application), and the index `body'.    *)
(***************************************************************************)
EXTENDS Naturals, Sequences, FiniteSets

CONSTANT
    Programs    \* the programs the engine may be given

(* The atoms of a program, in posts and in heads.                          *)
Atoms(p) ==
    {p.code[i] : i \in {j \in DOMAIN p.code : p.code[j].op = "Post"}} \cup
    UNION {{p.rules[r].heads[h] : h \in DOMAIN p.rules[r].heads} : r \in DOMAIN p.rules}

(* Instruction i and all it is made of (Builder::body) read no slot beyond *)
(* the first n.                                                            *)
Reads(p, i, n) ==
    \E S \in SUBSET DOMAIN p.code :
        /\ i \in S
        /\ \A j \in S :
              LET ins == p.code[j]
              IN /\ ins.op \in {"And", "Or"} => \A k \in DOMAIN ins.items : ins.items[k] \in S
                 /\ ins.op = "Post" => ins.args \in Seq(1 .. n)
                 /\ ins.op = "Equal" => ins.x \in 1 .. n /\ ins.y \in 1 .. n

(* What syntax.rs and prepare have seen to: indexes are in range, no       *)
(* disjunction is empty and no rule without a head, the slots of a rule    *)
(* and of the query are numbered in the order in which they are met, heads *)
(* first, and the atoms of a relation have one arity.                      *)
ASSUME ProgramsArePrepared ==
    \A p \in Programs :
        /\ p.query \in DOMAIN p.code /\ p.vars \in Nat /\ Reads(p, p.query, p.vars)
        /\ \A i \in DOMAIN p.code :
              /\ p.code[i].op \in {"True", "Fail", "Post", "Equal", "And", "Or"}
              /\ p.code[i].op \in {"And", "Or"} => p.code[i].items \in Seq(DOMAIN p.code)
              /\ p.code[i].op = "Or" => p.code[i].items # <<>>
        /\ DOMAIN p.rules \subseteq Nat
        /\ \A r \in DOMAIN p.rules :
              /\ p.rules[r].heads \in Seq(Atoms(p)) /\ p.rules[r].heads # <<>>
              /\ \A h \in DOMAIN p.rules[r].heads :
                    LET args == p.rules[r].heads[h].args
                    IN /\ args \in Seq(1 .. p.rules[r].bound)
                       /\ Len(p.rules[r].heads) = 1 /\ Len(args) = p.rules[r].bound
                             => \A s \in DOMAIN args : args[s] = s
              /\ p.rules[r].kept \in 0 .. Len(p.rules[r].heads)
              /\ p.rules[r].bound \in Nat
              /\ \A s \in 1 .. p.rules[r].bound : \E h \in DOMAIN p.rules[r].heads :
                    \E k \in DOMAIN p.rules[r].heads[h].args : p.rules[r].heads[h].args[k] = s
              /\ p.rules[r].body \in DOMAIN p.code
              /\ Reads(p, p.rules[r].body, p.rules[r].slots)
        /\ \A x, y \in Atoms(p) : x.rel = y.rel => DOMAIN x.args = DOMAIN y.args

VARIABLE
    program     \* Engine.program

Code == program.code            \* sequence of instructions
Rules == program.rules          \* sequence of rules
Query == program.query          \* index of the query's instruction
QueryVars == program.vars       \* number of query variables

RuleId == DOMAIN Rules
Heads(r) == Rules[r].heads
Slots(head) == {head.args[p] : p \in DOMAIN head.args}

(* Every head stays: such a rule is guarded by the propagation history.    *)
Pure(r) == Rules[r].kept = Len(Heads(r))

(* The ports of a rule's heads that hold a slot.                           *)
Ports(r, slot) ==
    {q \in UNION {{h} \X DOMAIN Heads(r)[h].args : h \in DOMAIN Heads(r)} :
        Heads(r)[q[1]].args[q[2]] = slot}

(* Fault: only a slot that is repeated within the head counts.             *)
MergeHeadAlone(r, h) ==
    \E s \in Slots(Heads(r)[h]) : Cardinality({q \in Ports(r, s) : q[1] = h}) > 1

(* A head is sensitive to identity if one of its slots occurs elsewhere.   *)
MergeHead(r, h) == \E s \in Slots(Heads(r)[h]) : Cardinality(Ports(r, s)) > 1

(* The trigger records of a relation, for a posted fact and for a merge:   *)
(* rule and head.                                                          *)
Triggers(rel, identityOnly) ==
    {t \in UNION {{r} \X DOMAIN Heads(r) : r \in RuleId} :
        /\ Heads(t[1])[t[2]].rel = rel
        /\ identityOnly => MergeHead(t[1], t[2])}

(* They are kept in source order: rules first, then heads of a rule.       *)
FirstTrigger(triggers) ==
    CHOOSE t \in triggers :
        \A u \in triggers : t[1] < u[1] \/ (t[1] = u[1] /\ t[2] <= u[2])

(* One head with distinct slots: its fact supplies every binding.          *)
DirectAnchor(r) == Len(Heads(r)) = 1 /\ Len(Heads(r)[1].args) = Rules[r].bound
=============================================================================
