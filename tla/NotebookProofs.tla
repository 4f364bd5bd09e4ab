---------------------------- MODULE NotebookProofs ----------------------------
(***************************************************************************)
(* The notebook server, for every set of clients' requests (Server), for   *)
(* all workers and keepers and any number of owners, runs and requests     *)
(* (Maintenance), and for runs of any length, batches of any size and any  *)
(* number of failures (Delivery).                                          *)
(*                                                                         *)
(* Commands take effect once and in order, and owners count their runs.    *)
(* ExecutedInOrder rests on ReceiptIsLast, by which the number of an       *)
(* owner's receipt bounds all that he did, and on OnlyAdmitted, by which   *)
(* an owner that attaches has done nothing.                                *)
(*                                                                         *)
(* The tables agree whatever the threads do.  That rests on what a thread  *)
(* knows at each of its places, from the locks it holds: that it has an    *)
(* owner, that he was not retired behind its back, what the number of a    *)
(* run that it read still denotes, and what the two tables are while one   *)
(* thread changes both.  A step of a thread disturbs nothing that another  *)
(* relies on (Undisturbed).                                                *)
(*                                                                         *)
(* The archive is exact since whoever has something of the run stands at a *)
(* place in the events of the engine: the spool, the batch that is kept,   *)
(* the row in the store and the stream of the page.  What each of them has *)
(* is what the events before its place make (StandsAt, Exact), and the     *)
(* places of row and page do not move when the server goes on (Advances).  *)
(* A cancellation may skip events without an end, and only after the last  *)
(* event was read (HoldsTheLast); nothing is closed before all is saved    *)
(* (Closes).                                                               *)
(***************************************************************************)
EXTENDS Server, Delivery, Maintenance, FiniteSetTheorems, SequenceTheorems,
        WellFoundedInduction, TLAPS

-----------------------------------------------------------------------------
(* Commands and their receipts.                                            *)

(* What took effect was asked by owners that have been admitted.           *)
OnlyAdmitted == \A i \in DOMAIN executed : executed[i].owner <= admitted

Effects == ExecutedInOrder /\ ReceiptIsLast /\ OnlyAdmitted

ServerInv == TypeOK /\ Effects /\ OwnersCountRuns

Empty == /\ boot \in Nat /\ issued = 0 /\ admitted = 0
         /\ entries = <<>> /\ runs = <<>> /\ executed = <<>>

(* At the start there is nothing.                                          *)
LEMMA EmptyInv == Empty => ServerInv
<1> SUFFICES ASSUME Empty PROVE ServerInv
    OBVIOUS
<1> USE DEF Empty
<1>1. TypeOK
    BY DEF TypeOK
<1>2. Effects
    BY DEF Effects, ExecutedInOrder, ReceiptIsLast, OnlyAdmitted
<1>3. OwnersCountRuns
    BY DEF OwnersCountRuns
<1>4. QED
    BY <1>1, <1>2, <1>3 DEF ServerInv

(* Runs of an owner are finitely many.                                     *)
LEMMA RunsFinite ==
    ASSUME TypeOK, NEW o
    PROVE  IsFiniteSet(RunsOf(o))
<1>1. DOMAIN runs = 1 .. Len(runs) /\ Len(runs) \in Nat
    BY DEF TypeOK
<1>2. IsFiniteSet(1 .. Len(runs))
    BY <1>1, FS_Interval
<1>3. RunsOf(o) \in SUBSET (1 .. Len(runs))
    BY <1>1 DEF RunsOf
<1>4. QED
    BY <1>2, <1>3, FS_Subset

-----------------------------------------------------------------------------
(* What an owner did before a command, and after it.                       *)

(* A command that is next for its owner continues his numbers.             *)
LEMMA NextKeepsOrder ==
    ASSUME TypeOK, Effects, NEW q \in Asked, q.owner \in DOMAIN entries, IsNext(q),
           executed' = Append(executed, q)
    PROVE  ExecutedInOrder'
<1> DEFINE n == Len(executed) + 1
<1>1. /\ executed \in Seq(Asked) /\ DOMAIN executed = 1 .. Len(executed) /\ Len(executed) \in Nat
      /\ DOMAIN executed' = 1 .. n
      /\ \A i \in 1 .. Len(executed) : executed'[i] = executed[i]
      /\ executed'[n] = q
    BY DEF TypeOK
<1>2. q.command \in Nat /\ \A i \in DOMAIN executed : executed[i].command \in Nat
    BY <1>1, AskedAreRequests
<1>3. \A j \in 1 .. Len(executed) : executed[j].owner = q.owner => executed[j].command < q.command
  <2>1. q.command = entries[q.owner].receipt.command + 1
    BY DEF IsNext
  <2>2. entries[q.owner].receipt.command \in Nat
    BY DEF TypeOK, Kept, NoReceipt
  <2>3. QED
    BY <1>1, <1>2, <2>1, <2>2 DEF Effects, ReceiptIsLast
<1>4. q.command = 1 \/ \E j \in 1 .. Len(executed) : /\ executed[j].owner = q.owner
                                                    /\ executed[j].command + 1 = q.command
    BY <1>1 DEF Effects, ReceiptIsLast, IsNext
<1>5. SUFFICES ASSUME NEW i \in 1 .. n
               PROVE  /\ \A j \in 1 .. i - 1 : executed'[j].owner = executed'[i].owner
                                => executed'[j].command < executed'[i].command
                      /\ executed'[i].command = 1 \/ \E j \in 1 .. i - 1 :
                            /\ executed'[j].owner = executed'[i].owner
                            /\ executed'[j].command + 1 = executed'[i].command
    BY <1>1 DEF ExecutedInOrder
<1>6. CASE i = n
    BY <1>1, <1>3, <1>4, <1>6
<1>7. CASE i \in 1 .. Len(executed)
  <2>1. \A j \in 1 .. i - 1 : j \in 1 .. Len(executed)
    BY <1>1, <1>7
  <2>2. /\ \A j \in 1 .. i - 1 :
              executed[j].owner = executed[i].owner => executed[j].command < executed[i].command
        /\ executed[i].command = 1 \/ \E j \in 1 .. i - 1 :
              /\ executed[j].owner = executed[i].owner
              /\ executed[j].command + 1 = executed[i].command
    BY <1>1, <1>7 DEF Effects, ExecutedInOrder
  <2>3. QED
    BY <1>1, <1>7, <2>1, <2>2
<1>8. QED
    BY <1>1, <1>6, <1>7

(* It is the last one of its owner when its receipt is kept.               *)
LEMMA NextIsLast ==
    ASSUME TypeOK, Effects, NEW q \in Asked, NEW answer, q.owner \in DOMAIN entries, IsNext(q),
           executed' = Append(executed, q), admitted' = admitted,
           DOMAIN entries' = DOMAIN entries,
           entries'[q.owner].receipt = Receipt(q, answer),
           \A o \in DOMAIN entries \ {q.owner} : entries'[o] = entries[o]
    PROVE  ReceiptIsLast' /\ OnlyAdmitted'
<1> DEFINE n == Len(executed) + 1
<1>1. /\ executed \in Seq(Asked) /\ DOMAIN executed = 1 .. Len(executed) /\ Len(executed) \in Nat
      /\ DOMAIN executed' = 1 .. n
      /\ \A i \in 1 .. Len(executed) : executed'[i] = executed[i]
      /\ executed'[n] = q
    BY DEF TypeOK
<1>2. q.command \in Nat /\ \A i \in DOMAIN executed : executed[i].command \in Nat
    BY <1>1, AskedAreRequests
<1>3. OnlyAdmitted'
  <2>1. q.owner <= admitted
    BY DEF TypeOK
  <2>2. QED
    BY <1>1, <2>1 DEF Effects, OnlyAdmitted
<1>4. ASSUME NEW o \in DOMAIN entries
      PROVE  /\ \A i \in 1 .. n :
                   executed'[i].owner = o => executed'[i].command <= entries'[o].receipt.command
             /\ entries'[o].receipt.command = 0 \/ \E i \in 1 .. n :
                   /\ executed'[i] = entries'[o].receipt.request /\ executed'[i].owner = o
                   /\ executed'[i].command = entries'[o].receipt.command
  <2>1. CASE o = q.owner
    <3>1. /\ entries'[o].receipt.command = q.command
          /\ entries'[o].receipt.request = q
        BY <2>1 DEF Receipt
    <3>2. entries[o].receipt.command \in Nat /\ q.command = entries[o].receipt.command + 1
        BY <2>1 DEF TypeOK, Kept, NoReceipt, IsNext
    <3>3. \A i \in 1 .. Len(executed) : executed[i].owner = o => executed[i].command <= q.command
        BY <1>1, <1>2, <3>2 DEF Effects, ReceiptIsLast
    <3>4. n \in 1 .. n
        BY <1>1
    <3>5. QED
        BY <1>1, <1>2, <2>1, <3>1, <3>3, <3>4
  <2>2. CASE o # q.owner
    <3>1. entries'[o] = entries[o]
        BY <2>2
    <3>2. /\ \A i \in DOMAIN executed :
                 executed[i].owner = o => executed[i].command <= entries[o].receipt.command
          /\ entries[o].receipt.command = 0 \/ \E i \in DOMAIN executed :
                 /\ executed[i] = entries[o].receipt.request /\ executed[i].owner = o
                 /\ executed[i].command = entries[o].receipt.command
        BY DEF Effects, ReceiptIsLast
    <3>3. \A i \in 1 .. n : i = n \/ i \in DOMAIN executed
        BY <1>1
    <3>4. DOMAIN executed \subseteq 1 .. n
        BY <1>1
    <3>5. QED
        BY <1>1, <2>2, <3>1, <3>2, <3>3, <3>4
  <2>3. QED
    BY <2>1, <2>2
<1>5. ReceiptIsLast'
    BY <1>1, <1>4 DEF ReceiptIsLast
<1>6. QED
    BY <1>3, <1>5
-----------------------------------------------------------------------------
(* One lemma per action.                                                   *)

(* Runs that keep their owners, and stay or go as they were, are counted   *)
(* as they were.                                                           *)
LEMMA SameRunsCounted ==
    ASSUME TypeOK, OwnersCountRuns, entries' = entries,
           DOMAIN runs' = DOMAIN runs,
           \A r \in DOMAIN runs : runs'[r].owner = runs[r].owner /\ runs'[r].gone = runs[r].gone
    PROVE  OwnersCountRuns'
<1>1. ASSUME NEW o \in DOMAIN entries
      PROVE  RunsOf(o)' = RunsOf(o)
    BY DEF RunsOf
<1>2. QED
    BY <1>1 DEF OwnersCountRuns

(* Replacing a run's record by another of its kind keeps the sequence one. *)
LEMMA RunReplaced ==
    ASSUME runs \in Seq(Runs), NEW r \in DOMAIN runs, NEW x \in Runs,
           runs' = [runs EXCEPT ![r] = x]
    PROVE  /\ runs' \in Seq(Runs) /\ DOMAIN runs' = DOMAIN runs
           /\ runs'[r] = x /\ \A p \in DOMAIN runs \ {r} : runs'[p] = runs[p]
OBVIOUS

(* What took effect is judged by the receipts, not by the runs or by what  *)
(* an owner counts.                                                        *)
LEMMA EffectsKept ==
    ASSUME Effects, executed' = executed, admitted' = admitted,
           DOMAIN entries' \subseteq DOMAIN entries,
           \A o \in DOMAIN entries' : entries'[o].receipt = entries[o].receipt
    PROVE  Effects'
<1>1. ExecutedInOrder' /\ OnlyAdmitted'
    BY DEF Effects, ExecutedInOrder, OnlyAdmitted
<1>2. ReceiptIsLast'
    BY DEF Effects, ReceiptIsLast
<1>3. QED
    BY <1>1, <1>2 DEF Effects

(* A number is reserved.                                                   *)
LEMMA ReserveKeepsInv ==
    ASSUME ServerInv, NEW q, NEW answer, Reserve(q, answer)
    PROVE  ServerInv'
<1>1. TypeOK'
    BY DEF ServerInv, TypeOK, Reserve
<1>2. Effects'
    BY EffectsKept DEF ServerInv, Reserve
<1>3. OwnersCountRuns'
    BY SameRunsCounted DEF ServerInv, Reserve
<1>4. QED
    BY <1>1, <1>2, <1>3 DEF ServerInv

(* An owner is attached.                                                   *)
LEMMA AttachKeepsInv ==
    ASSUME ServerInv, NEW q \in Asked, NEW answer, Attach(q, answer)
    PROVE  ServerInv'
<1>1. CASE UNCHANGED <<admitted, entries>>
  <2>1. TypeOK'
    BY <1>1 DEF ServerInv, TypeOK, Attach
  <2>2. Effects'
    BY <1>1, EffectsKept DEF ServerInv, Attach
  <2>3. OwnersCountRuns'
    BY <1>1, SameRunsCounted DEF ServerInv, Attach
  <2>4. QED
    BY <2>1, <2>2, <2>3 DEF ServerInv
<1>2. CASE /\ q.owner \notin DOMAIN entries /\ q.owner > admitted /\ q.owner <= issued
           /\ admitted' = q.owner
           /\ entries' = [o \in DOMAIN entries \cup {q.owner} |->
                            IF o = q.owner THEN NewOwner ELSE entries[o]]
  <2>1. q.owner \in Nat
    BY AskedAreRequests
  <2>2. /\ DOMAIN entries' = DOMAIN entries \cup {q.owner}
        /\ entries'[q.owner] = NewOwner
        /\ \A o \in DOMAIN entries : entries'[o] = entries[o]
    BY <1>2
  <2>3. TypeOK'
    <3>1. NewOwner \in [runs : Nat, receipt : Kept]
        BY DEF NewOwner, Kept
    <3>2. entries' \in [DOMAIN entries' -> [runs : Nat, receipt : Kept]]
        BY <1>2, <3>1 DEF ServerInv, TypeOK
    <3>3. DOMAIN entries' \subseteq 1 .. admitted'
        BY <1>2, <2>1, <2>2 DEF ServerInv, TypeOK
    <3>4. QED
        BY <1>2, <2>1, <3>2, <3>3 DEF ServerInv, TypeOK, Attach
  <2>4. \A i \in DOMAIN executed : executed[i].owner < q.owner
    <3>1. executed \in Seq(Asked) /\ \A i \in DOMAIN executed : executed[i].owner \in Nat
        BY AskedAreRequests DEF ServerInv, TypeOK
    <3>2. QED
        BY <1>2, <2>1, <3>1 DEF ServerInv, TypeOK, Effects, OnlyAdmitted
  <2>5. executed' = executed
    BY DEF Attach
  <2>6. ExecutedInOrder'
    BY <2>5 DEF ServerInv, Effects, ExecutedInOrder
  <2>7. OnlyAdmitted'
    <3>1. \A i \in DOMAIN executed : executed[i].owner \in Nat
        BY AskedAreRequests DEF ServerInv, TypeOK
    <3>2. QED
        BY <1>2, <2>1, <2>4, <2>5, <3>1 DEF OnlyAdmitted
  <2>8. ReceiptIsLast'
    <3>1. \A i \in DOMAIN executed : executed[i].owner # q.owner
        BY <2>1, <2>4, AskedAreRequests DEF ServerInv, TypeOK
    <3>2. NewOwner.receipt.command = 0
        BY DEF NewOwner, NoReceipt
    <3>3. QED
        BY <2>2, <2>5, <3>1, <3>2 DEF ServerInv, Effects, ReceiptIsLast
  <2>9. OwnersCountRuns'
    <3>1. runs' = runs
        BY DEF Attach
    <3>2. RunsOf(q.owner)' = {}
        BY <1>2, <3>1 DEF ServerInv, OwnersCountRuns, RunsOf
    <3>3. Cardinality({}) = 0 /\ NewOwner.runs = 0
        BY FS_EmptySet DEF NewOwner
    <3>4. \A o \in DOMAIN entries : RunsOf(o)' = RunsOf(o)
        BY <3>1 DEF RunsOf
    <3>5. \A o \in DOMAIN entries' : entries'[o].runs = Cardinality(RunsOf(o)')
        BY <2>2, <3>2, <3>3, <3>4 DEF ServerInv, OwnersCountRuns
    <3>6. QED
        BY <2>2, <3>1, <3>5 DEF ServerInv, OwnersCountRuns
  <2>10. QED
    BY <2>3, <2>6, <2>7, <2>8, <2>9 DEF ServerInv, Effects
<1>3. QED
    BY <1>1, <1>2, AskedAreRequests DEF Attach, UsedUp, ServerInv, TypeOK

(* An owner is retired.                                                    *)
LEMMA RetireKeepsInv ==
    ASSUME ServerInv, NEW q, NEW answer, Retire(q, answer)
    PROVE  ServerInv'
<1>1. CASE entries' = entries
  <2>1. TypeOK'
    BY <1>1 DEF ServerInv, TypeOK, Retire
  <2>2. Effects'
    BY <1>1, EffectsKept DEF ServerInv, Retire
  <2>3. OwnersCountRuns'
    BY <1>1, SameRunsCounted DEF ServerInv, Retire
  <2>4. QED
    BY <2>1, <2>2, <2>3 DEF ServerInv
<1>2. CASE /\ q.owner \in DOMAIN entries /\ entries[q.owner].runs = 0
           /\ entries' = [o \in DOMAIN entries \ {q.owner} |-> entries[o]]
  <2>1. /\ DOMAIN entries' = DOMAIN entries \ {q.owner}
        /\ \A o \in DOMAIN entries' : entries'[o] = entries[o]
    BY <1>2
  <2>2. TypeOK'
    <3>1. entries' \in [DOMAIN entries' -> [runs : Nat, receipt : Kept]]
        BY <1>2 DEF ServerInv, TypeOK
    <3>2. QED
        BY <2>1, <3>1 DEF ServerInv, TypeOK, Retire
  <2>3. Effects'
    BY <2>1, EffectsKept DEF ServerInv, Retire
  <2>4. RunsOf(q.owner) = {}
    <3>1. Cardinality(RunsOf(q.owner)) = 0
        BY <1>2 DEF ServerInv, OwnersCountRuns
    <3>2. QED
        BY <3>1, RunsFinite, FS_EmptySet DEF ServerInv
  <2>5. OwnersCountRuns'
    <3>1. runs' = runs /\ \A o : RunsOf(o)' = RunsOf(o)
        BY DEF Retire, RunsOf
    <3>2. \A r \in DOMAIN runs : ~runs[r].gone => runs[r].owner # q.owner
        BY <2>4 DEF RunsOf
    <3>3. QED
        BY <2>1, <3>1, <3>2 DEF ServerInv, OwnersCountRuns
  <2>6. QED
    BY <2>2, <2>3, <2>5 DEF ServerInv
<1>3. QED
    BY <1>1, <1>2 DEF Retire, MayRetire
(* The answer of a command is a value a receipt can keep.                  *)
LEMMA ReceiptIsKept ==
    ASSUME TypeOK, NEW q \in Asked, NEW answer \in Answer, q.command # 0
    PROVE  Receipt(q, answer) \in Kept
<1>1. Len(runs) \in Nat /\ issued \in Nat
    BY DEF TypeOK
<1>2. answer \in Answers
  <2>1. CASE answer \in {Busy, Refused, UnknownOwner}
    BY <2>1 DEF Busy, Refused, UnknownOwner, Answers
  <2>2. CASE \E n \in 0 .. issued + Len(runs) + 1 : answer = Ok(n)
    BY <1>1, <2>2 DEF Ok, Answers
  <2>3. QED
    BY <2>1, <2>2 DEF Answer
<1>3. q.command \in Nat \ {0}
    BY AskedAreRequests
<1>4. QED
    BY <1>2, <1>3 DEF Receipt, Kept

(* A run is started.                                                       *)
LEMMA StartKeepsInv ==
    ASSUME ServerInv, NEW q \in Asked, NEW answer \in Answer, q.owner \in DOMAIN entries,
           q.command # 0, IsNext(q), Start(q, answer), UNCHANGED <<boot, issued, admitted>>
    PROVE  ServerInv'
<1> DEFINE n == Len(runs) + 1
<1>1. /\ DOMAIN entries' = DOMAIN entries
      /\ entries'[q.owner] = [runs |-> entries[q.owner].runs + 1, receipt |-> Receipt(q, answer)]
      /\ \A o \in DOMAIN entries \ {q.owner} : entries'[o] = entries[o]
    BY DEF Start
<1>2. /\ NewRun(q.owner) \in Runs /\ NewRun(q.owner).owner = q.owner /\ ~NewRun(q.owner).gone
    BY AskedAreRequests DEF NewRun, Runs
<1>3. /\ runs' \in Seq(Runs) /\ DOMAIN runs' = DOMAIN runs \cup {n}
      /\ n \notin DOMAIN runs
      /\ runs'[n] = NewRun(q.owner) /\ \A r \in DOMAIN runs : runs'[r] = runs[r]
    BY <1>2 DEF ServerInv, TypeOK, Start
<1>4. TypeOK'
  <2>1. Receipt(q, answer) \in Kept
    BY ReceiptIsKept DEF ServerInv
  <2>2. entries' \in [DOMAIN entries' -> [runs : Nat, receipt : Kept]]
    BY <1>1, <2>1 DEF ServerInv, TypeOK, Start
  <2>3. executed' \in Seq(Asked)
    BY DEF ServerInv, TypeOK, Start
  <2>4. QED
    BY <1>1, <1>3, <2>2, <2>3 DEF ServerInv, TypeOK
<1>5. Effects'
  <2>1. ExecutedInOrder'
    BY NextKeepsOrder DEF ServerInv, Start
  <2>2. entries'[q.owner].receipt = Receipt(q, answer)
    BY <1>1
  <2>3. ReceiptIsLast' /\ OnlyAdmitted'
    BY <1>1, <2>2, NextIsLast DEF ServerInv, Start
  <2>4. QED
    BY <2>1, <2>3 DEF Effects
<1>6. OwnersCountRuns'
  <2>1. \A o \in DOMAIN entries \ {q.owner} : RunsOf(o)' = RunsOf(o)
    BY <1>2, <1>3 DEF RunsOf
  <2>2. RunsOf(q.owner)' = RunsOf(q.owner) \cup {n} /\ n \notin RunsOf(q.owner)
    BY <1>2, <1>3 DEF RunsOf
  <2>3. Cardinality(RunsOf(q.owner)') = Cardinality(RunsOf(q.owner)) + 1
    BY <2>2, RunsFinite, FS_AddElement DEF ServerInv
  <2>4. \A o \in DOMAIN entries' : entries'[o].runs = Cardinality(RunsOf(o)')
    BY <1>1, <2>1, <2>3 DEF ServerInv, OwnersCountRuns
  <2>5. \A r \in DOMAIN runs' : ~runs'[r].gone => runs'[r].owner \in DOMAIN entries'
    BY <1>1, <1>2, <1>3 DEF ServerInv, OwnersCountRuns
  <2>6. QED
    BY <2>4, <2>5 DEF OwnersCountRuns
<1>7. QED
    BY <1>4, <1>5, <1>6 DEF ServerInv

(* A run that takes a command stays a run, of the same owner.              *)
LEMMA ControlledIsRun ==
    ASSUME NEW r \in Runs, NEW route \in {"step", "resume", "continue", "pause"}
    PROVE  /\ Controlled(route, r) \in Runs
           /\ Controlled(route, r).owner = r.owner /\ Controlled(route, r).gone = r.gone
<1>1. CASE route = "pause"
    BY <1>1 DEF Controlled, Runs
<1>2. CASE route = "step"
    BY <1>2 DEF Controlled, Runs
<1>3. CASE route = "resume"
    BY <1>3 DEF Controlled, Runs
<1>4. CASE route = "continue"
    BY <1>4 DEF Controlled, Runs
<1>5. QED
    BY <1>1, <1>2, <1>3, <1>4

(* A run is controlled.                                                    *)
LEMMA ControlKeepsInv ==
    ASSUME ServerInv, NEW q \in Asked, NEW answer \in Answer, q.owner \in DOMAIN entries,
           q.command # 0, IsNext(q), Control(q, answer), UNCHANGED <<boot, issued, admitted>>
    PROVE  ServerInv'
<1>1. /\ DOMAIN entries' = DOMAIN entries
      /\ entries'[q.owner].receipt = Receipt(q, answer)
      /\ entries'[q.owner].runs = entries[q.owner].runs
      /\ entries'[q.owner] = [runs |-> entries[q.owner].runs, receipt |-> Receipt(q, answer)]
      /\ \A o \in DOMAIN entries \ {q.owner} : entries'[o] = entries[o]
  <2>1. entries[q.owner] \in [runs : Nat, receipt : Kept]
    BY DEF ServerInv, TypeOK
  <2>2. QED
    BY <2>1 DEF Control
<1>2. q.run \in DOMAIN runs /\ runs[q.run] \in Runs
    BY DEF Control, Owned, ServerInv, TypeOK
<1>3. /\ runs' \in Seq(Runs) /\ DOMAIN runs' = DOMAIN runs
      /\ \A r \in DOMAIN runs : runs'[r].owner = runs[r].owner /\ runs'[r].gone = runs[r].gone
  <2>1. /\ Controlled(q.route, runs[q.run]) \in Runs
        /\ Controlled(q.route, runs[q.run]).owner = runs[q.run].owner
        /\ Controlled(q.route, runs[q.run]).gone = runs[q.run].gone
    BY <1>2, ControlledIsRun DEF Control
  <2>2. runs' = [runs EXCEPT ![q.run] = Controlled(q.route, runs[q.run])]
    BY DEF Control
  <2>3. runs \in Seq(Runs)
    BY DEF ServerInv, TypeOK
  <2>4. /\ runs' \in Seq(Runs) /\ DOMAIN runs' = DOMAIN runs
        /\ runs'[q.run] = Controlled(q.route, runs[q.run])
        /\ \A p \in DOMAIN runs \ {q.run} : runs'[p] = runs[p]
    BY <1>2, <2>1, <2>2, <2>3, RunReplaced
  <2>5. QED
    BY <2>1, <2>4
<1>4. TypeOK'
  <2>1. Receipt(q, answer) \in Kept
    BY ReceiptIsKept DEF ServerInv
  <2>2. entries' \in [DOMAIN entries' -> [runs : Nat, receipt : Kept]]
    BY <1>1, <2>1 DEF ServerInv, TypeOK, Control
  <2>3. executed' \in Seq(Asked)
    BY DEF ServerInv, TypeOK, Control
  <2>4. QED
    BY <1>1, <1>3, <2>2, <2>3 DEF ServerInv, TypeOK
<1>5. Effects'
  <2>1. ExecutedInOrder'
    BY NextKeepsOrder DEF ServerInv, Control
  <2>2. ReceiptIsLast' /\ OnlyAdmitted'
    BY <1>1, NextIsLast DEF ServerInv, Control
  <2>3. QED
    BY <2>1, <2>2 DEF Effects
<1>6. OwnersCountRuns'
  <2>1. \A o : RunsOf(o)' = RunsOf(o)
    BY <1>3 DEF RunsOf
  <2>2. \A o \in DOMAIN entries' : entries'[o].runs = entries[o].runs
    BY <1>1
  <2>3. QED
    BY <1>1, <1>3, <2>1, <2>2 DEF ServerInv, OwnersCountRuns
<1>7. QED
    BY <1>4, <1>5, <1>6 DEF ServerInv

(* Nothing changes: a repetition, a refusal, a request out of date.        *)
LEMMA NothingKeepsInv ==
    ASSUME ServerInv, UNCHANGED serverVars
    PROVE  ServerInv'
<1>1. TypeOK'
    BY DEF ServerInv, TypeOK, serverVars
<1>2. Effects'
    BY EffectsKept DEF ServerInv, serverVars
<1>3. OwnersCountRuns'
    BY SameRunsCounted DEF ServerInv, serverVars
<1>4. QED
    BY <1>1, <1>2, <1>3 DEF ServerInv

(* Any command.                                                            *)
LEMMA CommandKeepsInv ==
    ASSUME ServerInv, NEW q \in Asked, NEW answer \in Answer, Command(q, answer)
    PROVE  ServerInv'
<1>1. CASE UNCHANGED <<entries, runs, executed>>
    BY <1>1, NothingKeepsInv DEF Command, serverVars
<1>2. CASE q.owner \in DOMAIN entries /\ IsNext(q) /\ Start(q, answer)
    BY <1>2, StartKeepsInv DEF Command
<1>3. CASE q.owner \in DOMAIN entries /\ IsNext(q) /\ Control(q, answer)
    BY <1>3, ControlKeepsInv DEF Command
<1>4. QED
    BY <1>1, <1>2, <1>3 DEF Command, Deny

(* Steps that only change flags of a run.                                  *)
LEMMA RunChangesKeepInv ==
    ASSUME ServerInv, NEW r \in DOMAIN runs, NEW x \in Runs,
           x.owner = runs[r].owner, x.gone = runs[r].gone,
           runs' = [runs EXCEPT ![r] = x],
           UNCHANGED <<boot, issued, admitted, entries, executed>>
    PROVE  ServerInv'
<1>1. /\ runs' \in Seq(Runs) /\ DOMAIN runs' = DOMAIN runs
      /\ runs'[r] = x /\ \A p \in DOMAIN runs \ {r} : runs'[p] = runs[p]
    BY RunReplaced DEF ServerInv, TypeOK
<1>2. TypeOK'
    BY <1>1 DEF ServerInv, TypeOK
<1>3. Effects'
    BY EffectsKept DEF ServerInv
<1>4. OwnersCountRuns'
    BY <1>1, SameRunsCounted DEF ServerInv
<1>5. QED
    BY <1>2, <1>3, <1>4 DEF ServerInv

(* A run stops.                                                            *)
LEMMA StopKeepsInv ==
    ASSUME ServerInv, NEW q, NEW answer, Stop(q, answer)
    PROVE  ServerInv'
<1>1. CASE UNCHANGED runs
    BY <1>1, NothingKeepsInv DEF Stop, serverVars
<1>2. CASE /\ q.run \in DOMAIN runs
           /\ runs' = [runs EXCEPT ![q.run].running = FALSE, ![q.run].canceled = TRUE,
                                   ![q.run].closing = @ \/ q.route = "close"]
  <2> DEFINE x == [runs[q.run] EXCEPT !.running = FALSE, !.canceled = TRUE,
                                      !.closing = @ \/ q.route = "close"]
  <2>1. runs[q.run] \in Runs /\ runs \in Seq(Runs)
    BY <1>2 DEF ServerInv, TypeOK
  <2>2. x \in Runs /\ x.owner = runs[q.run].owner /\ x.gone = runs[q.run].gone
    BY <2>1 DEF Runs
  <2>3. runs' = [runs EXCEPT ![q.run] = x]
    BY <1>2, <2>1 DEF Runs
  <2>4. QED
    BY <1>2, <2>2, <2>3, RunChangesKeepInv DEF Stop
<1>3. QED
    BY <1>1, <1>2 DEF Stop, Owned

(* A run is driven.                                                        *)
LEMMA DriveKeepsInv ==
    ASSUME ServerInv, NEW r \in DOMAIN runs, Drive(r)
    PROVE  ServerInv'
<1>1. runs[r] \in Runs /\ runs \in Seq(Runs)
    BY DEF ServerInv, TypeOK
<1>2. CASE runs' = [runs EXCEPT ![r].step = "done", ![r].running = FALSE]
  <2> DEFINE x == [runs[r] EXCEPT !.step = "done", !.running = FALSE]
  <2>1. x \in Runs /\ x.owner = runs[r].owner /\ x.gone = runs[r].gone
    BY <1>1 DEF Runs
  <2>2. runs' = [runs EXCEPT ![r] = x]
    BY <1>1, <1>2 DEF Runs
  <2>3. QED
    BY <2>1, <2>2, RunChangesKeepInv DEF Drive
<1>3. CASE runs' = [runs EXCEPT ![r].step = "none"]
  <2> DEFINE x == [runs[r] EXCEPT !.step = "none"]
  <2>1. x \in Runs /\ x.owner = runs[r].owner /\ x.gone = runs[r].gone
    BY <1>1 DEF Runs
  <2>2. runs' = [runs EXCEPT ![r] = x]
    BY <1>1, <1>3 DEF Runs
  <2>3. QED
    BY <2>1, <2>2, RunChangesKeepInv DEF Drive
<1>4. QED
    BY <1>2, <1>3 DEF Drive

(* A run is reclaimed.                                                     *)
LEMMA ReclaimKeepsInv ==
    ASSUME ServerInv, NEW r \in DOMAIN runs, Reclaim(r)
    PROVE  ServerInv'
<1> DEFINE x == [runs[r] EXCEPT !.gone = TRUE]
<1>0. PICK o : o = runs[r].owner
    OBVIOUS
<1>1. runs[r] \in Runs /\ runs \in Seq(Runs)
    BY DEF ServerInv, TypeOK
<1>2. x \in Runs /\ x.owner = o /\ x.gone
    BY <1>0, <1>1 DEF Runs
<1>3. /\ runs' \in Seq(Runs) /\ DOMAIN runs' = DOMAIN runs
      /\ runs'[r] = x /\ \A p \in DOMAIN runs \ {r} : runs'[p] = runs[p]
  <2>1. runs' = [runs EXCEPT ![r] = x]
    BY <1>1 DEF Reclaim, Runs
  <2>2. QED
    BY <1>1, <1>2, <2>1, RunReplaced
<1>4. o \in DOMAIN entries /\ r \in RunsOf(o)
    BY <1>0 DEF Reclaim, RunsOf
<1>5. Cardinality(RunsOf(o)) \in Nat /\ Cardinality(RunsOf(o)) # 0
    BY <1>4, RunsFinite, FS_EmptySet, FS_CardinalityType DEF ServerInv
<1>6. /\ DOMAIN entries' = DOMAIN entries
      /\ entries'[o] = [runs |-> entries[o].runs - 1, receipt |-> entries[o].receipt]
      /\ \A p \in DOMAIN entries \ {o} : entries'[p] = entries[p]
  <2>1. entries[o] \in [runs : Nat, receipt : Kept]
    BY <1>4 DEF ServerInv, TypeOK
  <2>2. QED
    BY <1>0, <1>4, <2>1 DEF Reclaim, Returned
<1>7. TypeOK'
  <2>1. entries[o].runs - 1 \in Nat
    BY <1>4, <1>5 DEF ServerInv, OwnersCountRuns
  <2>2. entries' \in [DOMAIN entries' -> [runs : Nat, receipt : Kept]]
    BY <1>0, <1>4, <1>6, <2>1 DEF ServerInv, TypeOK, Reclaim, Returned
  <2>3. QED
    BY <1>3, <1>6, <2>2 DEF ServerInv, TypeOK, Reclaim
<1>8. Effects'
  <2>1. \A p \in DOMAIN entries' : entries'[p].receipt = entries[p].receipt
    BY <1>6
  <2>2. QED
    BY <1>6, <2>1, EffectsKept DEF ServerInv, Reclaim
<1>9. OwnersCountRuns'
  <2>1. \A p \in DOMAIN entries \ {o} : RunsOf(p)' = RunsOf(p)
    BY <1>0, <1>2, <1>3 DEF RunsOf
  <2>2. RunsOf(o)' = RunsOf(o) \ {r}
    BY <1>0, <1>2, <1>3 DEF RunsOf
  <2>3. Cardinality(RunsOf(o)') = Cardinality(RunsOf(o)) - 1
    BY <1>4, <2>2, RunsFinite, FS_RemoveElement DEF ServerInv
  <2>4. \A p \in DOMAIN entries' : entries'[p].runs = Cardinality(RunsOf(p)')
    BY <1>4, <1>6, <2>1, <2>3 DEF ServerInv, OwnersCountRuns
  <2>5. \A p \in DOMAIN runs' : ~runs'[p].gone => runs'[p].owner \in DOMAIN entries'
    BY <1>0, <1>2, <1>3, <1>6 DEF ServerInv, OwnersCountRuns
  <2>6. QED
    BY <2>4, <2>5 DEF OwnersCountRuns
<1>10. QED
    BY <1>7, <1>8, <1>9 DEF ServerInv

-----------------------------------------------------------------------------

(* Every step keeps the invariant.                                         *)
LEMMA NextKeepsInv == ServerInv /\ [Next]_serverVars => ServerInv'
<1> SUFFICES ASSUME ServerInv, [Next]_serverVars PROVE ServerInv'
    OBVIOUS
<1>1. CASE UNCHANGED serverVars
    BY <1>1, NothingKeepsInv
<1>2. CASE Serve
  <2>1. PICK q \in Asked, answer \in Answer : Dispatch(q, answer)
    BY <1>2 DEF Serve
  <2>2. QED
    BY <2>1, NothingKeepsInv, ReserveKeepsInv, AttachKeepsInv, RetireKeepsInv, CommandKeepsInv,
       StopKeepsInv DEF Dispatch
<1>3. CASE Tick
    BY <1>3, DriveKeepsInv, ReclaimKeepsInv DEF Tick
<1>4. CASE Restart
  <2>1. boot' \in Nat
    BY <1>4 DEF Restart, ServerInv, TypeOK
  <2>2. Empty'
    BY <1>4, <2>1 DEF Restart, Empty
  <2>3. QED
    BY <2>2, EmptyInv, PTL
<1>5. QED
    BY <1>1, <1>2, <1>3, <1>4 DEF Next

(* It always holds.                                                        *)
THEOREM ServerInvHolds == Spec => []ServerInv
<1>1. Init => ServerInv
    BY EmptyInv DEF Init, ServerInit, Empty
<1>2. QED
    BY <1>1, NextKeepsInv, PTL DEF Spec

(* Whatever clients ask, the tables of owners and runs keep their types.   *)
THEOREM TypesHold == Spec => []TypeOK
<1>1. ServerInv => TypeOK
    BY DEF ServerInv
<1>2. QED
    BY <1>1, ServerInvHolds, PTL

(* Whatever clients ask, and however often they repeat it, commands of an  *)
(* owner take effect once, in the order of their numbers, none left out.   *)
THEOREM CommandsExecutedInOrder == Spec => []ExecutedInOrder
<1>1. ServerInv => ExecutedInOrder
    BY DEF ServerInv, Effects
<1>2. QED
    BY <1>1, ServerInvHolds, PTL

(* A receipt always answers for the last effect of its owner.              *)
THEOREM ReceiptsAnswerForTheLast == Spec => []ReceiptIsLast
<1>1. ServerInv => ReceiptIsLast
    BY DEF ServerInv, Effects
<1>2. QED
    BY <1>1, ServerInvHolds, PTL

(* No run outlives its owner, as an owner counts his runs exactly.         *)
THEOREM RunsHaveOwners == Spec => []OwnersCountRuns
<1>1. ServerInv => OwnersCountRuns
    BY DEF ServerInv
<1>2. QED
    BY <1>1, ServerInvHolds, PTL

-----------------------------------------------------------------------------
(* Threads and locks.                                                      *)

(* The places of a worker after its owner was found, while it has the      *)
(* owner, and after it saw that the owner is not retired.                  *)
Serving == {"Insert", "Started", "Mapped", "Find", "Lock", "Recheck", "Effect"}
Having == {"Entitled", "Fence", "Retired"} \cup Serving
PastLookup == {"Wait"} \cup Having
OfRun == {"Find", "Lock", "Recheck", "Effect"}

(* The same of a caller of tick.                                           *)
Turning == {"Held", "Work", "Reclaim", "Reclaimed"}
Turned == {"Work", "Reclaim", "Reclaimed"}
PastOwner == {"Waiting", "Try"} \cup Turning

Thread == Worker \cup Keeper

Maps(S, T) == UNION {[D -> T] : D \in SUBSET S}

BusyWorker == [at : {"Lookup", "Admission"} \cup PastLookup, route : Route, owner : OwnerId, run : Nat]

Turn == [at : {"Owner"} \cup PastOwner, run : Nat, owner : OwnerId \cup {0},
         closing : {"no", "begun", "torn"}]

Types ==
    /\ owners \in [holder : {Free} \cup Thread, admitted : Nat, entries : SUBSET OwnerId,
                   runs : Maps(Nat, OwnerId)]
    /\ table \in [holder : {Free} \cup Thread, next : Nat, entries : SUBSET Nat,
                  closing : Maps(Nat, BOOLEAN), after : Nat, round : Nat]
    /\ owner \in [OwnerId -> [holder : {Free} \cup Thread, waiting : SUBSET Worker,
                              retired : BOOLEAN, runs : Nat]]
    /\ kept \subseteq Nat
    /\ worker \in [Worker -> {AtRest} \cup BusyWorker]
    /\ keeper \in [Keeper -> {AtRest} \cup Turn]

(* The owner of a worker is his, and did not leave the table unless he was *)
(* retired first; his run is that of the owner; and while he starts a run, *)
(* this is the one by which the tables differ.                             *)
WorkerKnows(w) ==
    LET x == worker[w]
        o == x.owner
    IN /\ x.at \in Having => owner[o].holder = w
       /\ x.at \in PastLookup => o \in owners.entries \/ owner[o].retired
       /\ x.at \in Serving => ~owner[o].retired
       /\ x.at = "Retired" => owner[o].retired
       /\ x.at \in OfRun => x.run \in DOMAIN owners.runs /\ owners.runs[x.run] = o
       /\ table.holder = w => x.at = "Started"
       /\ x.at = "Started" =>
             /\ table.holder = w /\ x.run = table.next
             /\ table.entries = DOMAIN owners.runs \cup {x.run}
             /\ x.run \notin DOMAIN owners.runs

(* The run of a keeper is that of the owner, or it is gone for ever; while *)
(* it is reclaimed it is the one by which the tables differ.               *)
KeeperKnows(k) ==
    LET x == keeper[k]
        o == x.owner
    IN /\ x.at \in Turning => owner[o].holder = k /\ ~owner[o].retired
       /\ x.at \in PastOwner => o \in OwnerId /\ (o \in owners.entries \/ owner[o].retired)
       /\ x # AtRest => x.run \in 1 .. table.next
       /\ x # AtRest => \A w \in Worker : At(w, "Started") => worker[w].run # x.run
       /\ x.at \in PastOwner /\ x.run \in DOMAIN owners.runs => owners.runs[x.run] = o
       /\ x.at \in Turned => x.run \in DOMAIN owners.runs
       /\ x.at \in {"Reclaim", "Reclaimed"} => x.run \notin kept
       /\ table.holder = k => x.at = "Reclaimed"
       /\ x.at = "Reclaimed" =>
             /\ table.holder = k
             /\ DOMAIN owners.runs = table.entries \cup {x.run}
             /\ x.run \notin table.entries

(* What is kept of a run goes before the run.                              *)
TablesKnow ==
    /\ table.holder = Free => table.entries = DOMAIN owners.runs
    /\ table.entries \subseteq 1 .. table.next /\ DOMAIN owners.runs \subseteq 1 .. table.next
    /\ DOMAIN table.closing \subseteq table.entries
    /\ kept \subseteq table.entries

RunsOwned(o) == {r \in DOMAIN owners.runs : owners.runs[r] = o}

Counted ==
    \A o \in OwnerId :
        /\ owner[o].runs = Cardinality(RunsOwned(o))
        /\ owner[o].retired => owner[o].runs = 0

Inv ==
    /\ Types /\ TablesKnow /\ Counted
    /\ \A w \in Worker : WorkerKnows(w)
    /\ \A k \in Keeper : KeeperKnows(k)

-----------------------------------------------------------------------------
(* What a step of another thread leaves alone of what thread x relies on:  *)
(* the owners it holds and their runs, the tables while it has one, and    *)
(* for ever that an owner retired and what the number of a run denotes.    *)
Undisturbed(x) ==
    /\ \A o \in OwnerId : owner[o].holder = x =>
          owner'[o].holder = x /\ owner'[o].retired = owner[o].retired
    /\ \A o \in OwnerId : owner[o].retired => owner'[o].retired
    /\ \A o \in owners.entries : o \in owners'.entries \/ owner'[o].retired
    /\ \A r \in DOMAIN owners.runs : owner[owners.runs[r]].holder = x =>
          /\ r \in DOMAIN owners'.runs /\ owners'.runs[r] = owners.runs[r]
          /\ r \in kept' => r \in kept
    /\ \A r \in DOMAIN owners'.runs :
          \/ r \in DOMAIN owners.runs /\ owners'.runs[r] = owners.runs[r]
          \/ \E w \in Worker : At(w, "Started") /\ worker[w].run = r
    /\ table'.holder = x <=> table.holder = x
    /\ table.holder = x => /\ table'.next = table.next /\ table'.entries = table.entries
                           /\ DOMAIN owners'.runs = DOMAIN owners.runs
    /\ table'.next \in Nat /\ table.next <= table'.next
    /\ \A w \in Worker : worker'[w].at = "Started" =>
          worker'[w].run > table.next \/ worker'[w] = worker[w]

(* Where a thread may be.                                                  *)
LEMMA ThreadAts ==
    ASSUME Types
    PROVE  /\ \A w \in Worker : \/ worker[w] = AtRest /\ worker[w].at = "Rest"
                               \/ /\ worker[w].at \in {"Lookup", "Admission"} \cup PastLookup
                                  /\ worker[w] # AtRest
                                  /\ worker[w].route \in Route
                                  /\ worker[w].owner \in OwnerId /\ worker[w].run \in Nat
           /\ \A k \in Keeper : \/ keeper[k] = AtRest /\ keeper[k].at = "Rest"
                               \/ /\ keeper[k].at \in {"Owner"} \cup PastOwner
                                  /\ keeper[k] # AtRest
                                  /\ keeper[k].run \in Nat
                                  /\ keeper[k].owner \in OwnerId \cup {0}
                                  /\ keeper[k].closing \in {"no", "begun", "torn"}
BY DEF Types, AtRest, BusyWorker, Turn, PastLookup, Having, Serving, PastOwner, Turning

(* A worker that neither moves nor is disturbed knows what it knew.        *)
LEMMA OtherWorker ==
    ASSUME Types, NEW w \in Worker, WorkerKnows(w), worker'[w] = worker[w], Undisturbed(w)
    PROVE  WorkerKnows(w)'
<1> DEFINE x == worker[w]
           o == worker[w].owner
<1>1. x.at \in PastLookup => o \in OwnerId
    BY ThreadAts DEF PastLookup, Having, Serving
<1>2. OfRun \subseteq Serving /\ Serving \subseteq Having /\ Having \subseteq PastLookup
      /\ "Started" \in Serving /\ "Retired" \in Having
    BY DEF OfRun, Serving, Having, PastLookup
<1>3. /\ x.at \in Having => owner'[o].holder = w
      /\ x.at \in PastLookup => o \in owners'.entries \/ owner'[o].retired
      /\ x.at \in Serving => ~owner'[o].retired
      /\ x.at = "Retired" => owner'[o].retired
    BY <1>1, <1>2 DEF WorkerKnows, Undisturbed
<1>4. x.at \in OfRun => x.run \in DOMAIN owners'.runs /\ owners'.runs[x.run] = o
    BY <1>2 DEF WorkerKnows, Undisturbed
<1>5. /\ table'.holder = w => x.at = "Started"
      /\ x.at = "Started" =>
             /\ table'.holder = w /\ x.run = table'.next
             /\ table'.entries = DOMAIN owners'.runs \cup {x.run}
             /\ x.run \notin DOMAIN owners'.runs
    BY DEF WorkerKnows, Undisturbed
<1>6. QED
    BY <1>3, <1>4, <1>5 DEF WorkerKnows

(* A caller of tick that neither moves nor is disturbed knows what it      *)
(* knew.                                                                   *)
LEMMA OtherKeeper ==
    ASSUME Types, NEW k \in Keeper, KeeperKnows(k), keeper'[k] = keeper[k], Undisturbed(k)
    PROVE  KeeperKnows(k)'
<1> DEFINE x == keeper[k]
           o == keeper[k].owner
<1>1. x.at \in PastOwner => o \in OwnerId /\ x # AtRest
    BY ThreadAts DEF KeeperKnows, AtRest, PastOwner, Turning
<1>2. /\ Turned \subseteq Turning /\ Turning \subseteq PastOwner
      /\ "Reclaimed" \in Turned /\ "Reclaim" \in Turned
    BY DEF Turned, Turning, PastOwner
<1>3. /\ x.at \in Turning => owner'[o].holder = k /\ ~owner'[o].retired
      /\ x.at \in PastOwner => o \in OwnerId /\ (o \in owners'.entries \/ owner'[o].retired)
    BY <1>1, <1>2 DEF KeeperKnows, Undisturbed
<1>4. x # AtRest => x.run \in 1 .. table'.next
  <2>1. table.next \in Nat
    BY DEF Types
  <2>2. QED
    BY <2>1 DEF KeeperKnows, Undisturbed
<1>5. x # AtRest => \A w \in Worker : worker'[w].at = "Started" => worker'[w].run # x.run
  <2>1. table.next \in Nat
    BY DEF Types
  <2>2. SUFFICES ASSUME x # AtRest, NEW w \in Worker, worker'[w].at = "Started" PROVE worker'[w].run # x.run
    OBVIOUS
  <2>3. x.run \in 1 .. table.next /\ (worker[w].at = "Started" => worker[w].run # x.run)
    BY <2>2 DEF KeeperKnows, At
  <2>4. worker'[w].run > table.next \/ worker'[w] = worker[w]
    BY <2>2 DEF Undisturbed
  <2>5. QED
    BY <2>1, <2>2, <2>3, <2>4
<1>6. x.at \in PastOwner /\ x.run \in DOMAIN owners'.runs => owners'.runs[x.run] = o
    BY <1>1 DEF KeeperKnows, Undisturbed
<1>7. /\ x.at \in Turned => x.run \in DOMAIN owners'.runs
      /\ x.at \in {"Reclaim", "Reclaimed"} => x.run \notin kept'
    BY <1>1, <1>2 DEF KeeperKnows, Undisturbed
<1>8. /\ table'.holder = k => x.at = "Reclaimed"
      /\ x.at = "Reclaimed" =>
             /\ table'.holder = k
             /\ DOMAIN owners'.runs = table'.entries \cup {x.run}
             /\ x.run \notin table'.entries
    BY DEF KeeperKnows, Undisturbed
<1>9. QED
    BY <1>3, <1>4, <1>5, <1>6, <1>7, <1>8 DEF KeeperKnows, At
(* Which places hold which locks.                                          *)
LEMMA PlacesNest ==
    /\ OfRun \subseteq Serving /\ Serving \subseteq Having /\ Having \subseteq PastLookup
    /\ Turned \subseteq Turning /\ Turning \subseteq PastOwner
BY DEF OfRun, Serving, Having, PastLookup, Turned, Turning, PastOwner

-----------------------------------------------------------------------------
(* What the parts of a step do.                                            *)

(* A worker goes to another place with its request.                        *)
LEMMA GoesOn ==
    ASSUME Types, NEW w \in Worker, worker[w] # AtRest,
           NEW place \in {"Admission"} \cup PastLookup, Goes(w, place)
    PROVE  /\ worker' \in [Worker -> {AtRest} \cup BusyWorker]
           /\ worker'[w].at = place /\ worker'[w].owner = worker[w].owner
           /\ worker'[w].run = worker[w].run /\ worker'[w].route = worker[w].route
           /\ \A v \in Worker : v # w => worker'[v] = worker[v]
BY DEF Types, AtRest, BusyWorker, Goes, PastLookup, Having, Serving

(* A worker that answers is at rest.                                       *)
LEMMA Rests ==
    ASSUME Types, NEW w \in Worker, Responds(w)
    PROVE  /\ worker' \in [Worker -> {AtRest} \cup BusyWorker]
           /\ worker'[w] = AtRest /\ worker'[w].at = "Rest"
           /\ \A v \in Worker : v # w => worker'[v] = worker[v]
BY DEF Types, AtRest, Responds

(* A caller of tick goes on.                                               *)
LEMMA KeeperMoves ==
    ASSUME Types, NEW k \in Keeper, keeper[k] # AtRest, NEW place \in PastOwner, Moves(k, place)
    PROVE  /\ keeper' \in [Keeper -> {AtRest} \cup Turn]
           /\ keeper'[k].at = place /\ keeper'[k].owner = keeper[k].owner
           /\ keeper'[k].run = keeper[k].run /\ keeper'[k].closing = keeper[k].closing
           /\ keeper'[k] # AtRest
           /\ \A j \in Keeper : j # k => keeper'[j] = keeper[j]
<1>1. place # "Rest"
    BY DEF PastOwner, Turning
<1>2. QED
    BY <1>1 DEF Types, AtRest, Turn, Moves

(* A caller of tick has done its round.                                    *)
LEMMA KeeperReturns ==
    ASSUME Types, NEW k \in Keeper, Returns(k)
    PROVE  /\ keeper' \in [Keeper -> {AtRest} \cup Turn]
           /\ keeper'[k] = AtRest /\ keeper'[k].at = "Rest"
           /\ \A j \in Keeper : j # k => keeper'[j] = keeper[j]
BY DEF Types, AtRest, Returns

OwnerRecords == [OwnerId -> [holder : {Free} \cup Thread, waiting : SUBSET Worker,
                             retired : BOOLEAN, runs : Nat]]

(* A thread takes an owner or leaves it.                                   *)
LEMMA HolderChanges ==
    ASSUME Types, NEW o \in OwnerId, NEW h \in {Free} \cup Thread,
           owner' = [owner EXCEPT ![o].holder = h]
    PROVE  /\ owner' \in OwnerRecords
           /\ owner'[o].holder = h /\ owner'[o].retired = owner[o].retired
           /\ owner'[o].runs = owner[o].runs
           /\ \A p \in OwnerId : p # o => owner'[p] = owner[p]
BY DEF Types, OwnerRecords, Thread

(* A run is put in a table with its owner.                                 *)
LEMMA RunAdded ==
    ASSUME NEW f \in Maps(Nat, OwnerId), NEW r \in Nat, NEW o \in OwnerId
    PROVE  /\ With(f, r, o) \in Maps(Nat, OwnerId)
           /\ DOMAIN With(f, r, o) = DOMAIN f \cup {r}
           /\ With(f, r, o)[r] = o
           /\ \A q \in DOMAIN f : q # r => With(f, r, o)[q] = f[q]
<1>1. PICK D \in SUBSET Nat : f \in [D -> OwnerId]
    BY DEF Maps
<1>2. With(f, r, o) \in [D \cup {r} -> OwnerId]
    BY <1>1 DEF With
<1>3. D \cup {r} \in SUBSET Nat
    OBVIOUS
<1>4. QED
    BY <1>1, <1>2, <1>3 DEF With, Maps

(* A run is marked as closing.                                             *)
LEMMA MarkIs ==
    ASSUME NEW f \in Maps(Nat, BOOLEAN), NEW r \in Nat
    PROVE  /\ With(f, r, FALSE) \in Maps(Nat, BOOLEAN) /\ With(f, r, TRUE) \in Maps(Nat, BOOLEAN)
           /\ DOMAIN With(f, r, FALSE) = DOMAIN f \cup {r}
           /\ DOMAIN With(f, r, TRUE) = DOMAIN f \cup {r}
<1>1. PICK D \in SUBSET Nat : f \in [D -> BOOLEAN]
    BY DEF Maps
<1>2. With(f, r, FALSE) \in [D \cup {r} -> BOOLEAN] /\ With(f, r, TRUE) \in [D \cup {r} -> BOOLEAN]
    BY <1>1 DEF With
<1>3. D \cup {r} \in SUBSET Nat
    OBVIOUS
<1>4. QED
    BY <1>1, <1>2, <1>3 DEF With, Maps

-----------------------------------------------------------------------------
(* Steps that change neither table but for an owner's admission.           *)

Quiet(x) ==
    /\ UNCHANGED <<table.holder, table.next, table.entries, table.closing, kept, owners.runs>>
    /\ owners.entries \subseteq owners'.entries
    /\ \A o \in OwnerId :
          /\ owner'[o].retired = owner[o].retired /\ owner'[o].runs = owner[o].runs
          /\ owner[o].holder \notin {Free, x} => owner'[o].holder = owner[o].holder
    /\ \A w \in Worker : w # x => worker'[w] = worker[w]
    /\ \A k \in Keeper : k # x => keeper'[k] = keeper[k]
    /\ x \in Worker => worker'[x].at # "Started" /\ worker[x].at # "Started" /\ WorkerKnows(x)'
    /\ x \in Keeper => KeeperKnows(x)'

(* A step of a thread that changes nothing others know.                    *)
LEMMA QuietStep ==
    ASSUME Inv, Types', NEW x \in Thread, Quiet(x)
    PROVE  Inv'
<1>0. Types /\ table.next \in Nat
    BY DEF Inv, Types
<1>1. ASSUME NEW y \in Thread, y # x PROVE Undisturbed(y)
  <2>1. /\ \A o \in OwnerId : owner[o].holder = y =>
              owner'[o].holder = y /\ owner'[o].retired = owner[o].retired
        /\ \A o \in OwnerId : owner[o].retired => owner'[o].retired
    BY <1>1, ThreadsDiffer DEF Quiet, Thread
  <2>2. \A o \in owners.entries : o \in owners'.entries \/ owner'[o].retired
    BY DEF Quiet
  <2>3. \A w \in Worker : worker'[w].at = "Started" =>
          worker'[w].run > table.next \/ worker'[w] = worker[w]
    BY DEF Quiet
  <2>4. QED
    BY <1>0, <2>1, <2>2, <2>3 DEF Quiet, Undisturbed
<1>2. ASSUME NEW w \in Worker PROVE WorkerKnows(w)'
    BY <1>0, <1>1, OtherWorker DEF Quiet, Inv, Thread
<1>3. ASSUME NEW k \in Keeper PROVE KeeperKnows(k)'
    BY <1>0, <1>1, OtherKeeper DEF Quiet, Inv, Thread
<1>4. TablesKnow'
    BY DEF Quiet, Inv, TablesKnow
<1>5. Counted'
    BY DEF Quiet, Inv, Counted, RunsOwned
<1>6. QED
    BY <1>2, <1>3, <1>4, <1>5 DEF Inv

(* A request is asked.                                                     *)
LEMMA AskKeeps ==
    ASSUME Inv, NEW w \in Worker, Ask(w)
    PROVE  Inv'
<1>0. Types /\ worker[w].at = "Rest"
    BY DEF Inv, Ask, AtRest
<1>1. PICK route \in Route, o \in OwnerId, r \in 1 .. MaxStarted :
        worker' = [worker EXCEPT ![w] = [at |-> "Lookup", route |-> route, owner |-> o, run |-> r]]
    BY DEF Ask
<1>2. /\ worker' \in [Worker -> {AtRest} \cup BusyWorker] /\ worker'[w].at = "Lookup"
      /\ \A v \in Worker : v # w => worker'[v] = worker[v]
    BY <1>0, <1>1, MaintenanceBounds DEF Types, BusyWorker
<1>3. UNCHANGED <<owners, table, owner, kept, keeper>>
    BY DEF Ask
<1>4. Types'
    BY <1>0, <1>2, <1>3 DEF Types
<1>5. WorkerKnows(w)'
  <2>1. "Lookup" \notin PastLookup
    BY DEF PastLookup, Having, Serving
  <2>2. table.holder # w
    BY <1>0 DEF Inv, WorkerKnows
  <2>3. QED
    BY <1>2, <1>3, <2>1, <2>2, PlacesNest DEF WorkerKnows
<1>6. Quiet(w)
    BY <1>0, <1>2, <1>3, <1>5, ThreadsDiffer DEF Quiet
<1>7. QED
    BY <1>4, <1>6, QuietStep DEF Thread
(* A worker that answers knows nothing any more.                           *)
LEMMA AtRestKnows ==
    ASSUME Inv, NEW w \in Worker, worker[w].at # "Started",
           worker'[w].at = "Rest", table'.holder = table.holder
    PROVE  WorkerKnows(w)'
<1>1. "Rest" \notin PastLookup
    BY DEF PastLookup, Having, Serving
<1>2. table.holder # w
    BY DEF Inv, WorkerKnows
<1>3. QED
    BY <1>1, <1>2, PlacesNest DEF WorkerKnows

(* What a worker at a place knows, in a step in which it leaves no table.  *)
LEMMA Leaving ==
    ASSUME Inv, NEW w \in Worker, worker[w].at \in Having \ {"Started"},
           Leaves(w), Responds(w), UNCHANGED <<owners, table, kept, keeper>>
    PROVE  Inv'
<1> DEFINE o == worker[w].owner
<1>0. Types /\ o \in OwnerId /\ owner[o].holder = w
    BY ThreadAts, PlacesNest DEF Inv, WorkerKnows, Having, Serving
<1>1. /\ owner' \in OwnerRecords
      /\ owner'[o].retired = owner[o].retired /\ owner'[o].runs = owner[o].runs
      /\ \A p \in OwnerId : p # o => owner'[p] = owner[p]
    BY <1>0, HolderChanges DEF Leaves
<1>2. /\ worker' \in [Worker -> {AtRest} \cup BusyWorker] /\ worker'[w].at = "Rest"
      /\ \A v \in Worker : v # w => worker'[v] = worker[v]
    BY <1>0, Rests
<1>3. Types'
    BY <1>0, <1>1, <1>2 DEF Types, OwnerRecords
<1>4. WorkerKnows(w)'
    BY <1>2, AtRestKnows
<1>5. Quiet(w)
    BY <1>0, <1>1, <1>2, <1>4, ThreadsDiffer DEF Quiet
<1>6. QED
    BY <1>3, <1>5, QuietStep DEF Thread

(* A worker goes on with its request.                                      *)
LEMMA Going ==
    ASSUME Inv, NEW w \in Worker, worker[w].at \in Having \ {"Started"},
           NEW place \in Having \ {"Started"}, Goes(w, place),
           UNCHANGED <<owners, table, owner, kept, keeper>>,
           place \in Serving => ~owner[worker[w].owner].retired,
           place = "Retired" => owner[worker[w].owner].retired,
           place \in OfRun => /\ worker[w].run \in DOMAIN owners.runs
                              /\ owners.runs[worker[w].run] = worker[w].owner
    PROVE  Inv'
<1> DEFINE o == worker[w].owner
<1>0. /\ Types /\ o \in OwnerId /\ owner[o].holder = w /\ worker[w] # AtRest
      /\ o \in owners.entries \/ owner[o].retired
      /\ table.holder # w
    BY ThreadAts, PlacesNest DEF Inv, WorkerKnows, Having, Serving
<1>1. /\ worker' \in [Worker -> {AtRest} \cup BusyWorker]
      /\ worker'[w].at = place /\ worker'[w].owner = o /\ worker'[w].run = worker[w].run
      /\ \A v \in Worker : v # w => worker'[v] = worker[v]
    BY <1>0, GoesOn, PlacesNest
<1>2. Types'
    BY <1>0, <1>1 DEF Types
<1>3. WorkerKnows(w)'
    BY <1>0, <1>1 DEF WorkerKnows
<1>4. Quiet(w)
    BY <1>1, <1>3, ThreadsDiffer DEF Quiet
<1>5. QED
    BY <1>2, <1>4, QuietStep DEF Thread

(* A worker waits for an owner's lock.                                     *)
LEMMA WaitingKeeps ==
    ASSUME Inv, NEW w \in Worker, worker[w].at \in {"Lookup", "Admission"},
           Register(w), Goes(w, "Wait"), worker[w].owner \in owners.entries,
           UNCHANGED <<owners.runs, owners.entries, owners.admitted, table, kept, keeper>>,
           owners' \in [holder : {Free} \cup Thread, admitted : Nat, entries : SUBSET OwnerId,
                        runs : Maps(Nat, OwnerId)]
    PROVE  Inv'
<1> DEFINE o == worker[w].owner
<1>0. Types /\ worker[w] # AtRest /\ o \in OwnerId /\ table.holder # w
    BY ThreadAts DEF Inv, WorkerKnows, PastLookup, Having, Serving
<1>1. /\ worker' \in [Worker -> {AtRest} \cup BusyWorker]
      /\ worker'[w].at = "Wait" /\ worker'[w].owner = o
      /\ \A v \in Worker : v # w => worker'[v] = worker[v]
    BY <1>0, GoesOn DEF PastLookup
<1>2. /\ owner' \in OwnerRecords
      /\ \A p \in OwnerId : /\ owner'[p].holder = owner[p].holder
                            /\ owner'[p].retired = owner[p].retired /\ owner'[p].runs = owner[p].runs
    BY <1>0 DEF Register, Types, OwnerRecords
<1>3. Types'
    BY <1>0, <1>1, <1>2 DEF Types, OwnerRecords
<1>4. WorkerKnows(w)'
    BY <1>0, <1>1, PlacesNest DEF WorkerKnows, Having, Serving
<1>5. Quiet(w)
    BY <1>1, <1>2, <1>4, ThreadsDiffer DEF Quiet
<1>6. QED
    BY <1>3, <1>5, QuietStep DEF Thread

(* A worker looks the owner up.                                            *)
LEMMA LookupKeeps ==
    ASSUME Inv, NEW w \in Worker, Lookup(w)
    PROVE  Inv'
<1> DEFINE o == worker[w].owner
<1>0. Types /\ worker[w].at = "Lookup" /\ worker[w] # AtRest /\ table.holder # w
    BY ThreadAts DEF Inv, WorkerKnows, Lookup, At, AtRest
<1>1. CASE worker[w].route \in {"attach", "retire"}
  <2>1. /\ owners' = [owners EXCEPT !.holder = w] /\ Goes(w, "Admission")
        /\ UNCHANGED <<owner, table, kept, keeper>>
    BY <1>1 DEF Lookup
  <2>2. /\ worker' \in [Worker -> {AtRest} \cup BusyWorker] /\ worker'[w].at = "Admission"
        /\ \A v \in Worker : v # w => worker'[v] = worker[v]
    BY <1>0, <2>1, GoesOn
  <2>3. Types' /\ owners'.entries = owners.entries /\ owners'.runs = owners.runs
    BY <1>0, <2>1, <2>2 DEF Types, Thread
  <2>4. WorkerKnows(w)'
    BY <1>0, <2>1, <2>2, PlacesNest DEF WorkerKnows, PastLookup, Having, Serving
  <2>5. Quiet(w)
    BY <1>0, <2>1, <2>2, <2>3, <2>4, ThreadsDiffer DEF Quiet
  <2>6. QED
    BY <2>3, <2>5, QuietStep DEF Thread
<1>2. CASE worker[w].route \notin {"attach", "retire"} /\ o \in owners.entries
    BY <1>0, <1>2, WaitingKeeps DEF Lookup, Types
<1>3. CASE worker[w].route \notin {"attach", "retire"} /\ o \notin owners.entries
  <2>1. Responds(w) /\ UNCHANGED <<owners, owner, table, kept, keeper>>
    BY <1>3 DEF Lookup
  <2>2. /\ worker' \in [Worker -> {AtRest} \cup BusyWorker] /\ worker'[w].at = "Rest"
        /\ \A v \in Worker : v # w => worker'[v] = worker[v]
    BY <1>0, <2>1, Rests
  <2>3. Types'
    BY <1>0, <2>1, <2>2 DEF Types
  <2>4. WorkerKnows(w)'
    BY <1>0, <2>1, <2>2, AtRestKnows
  <2>5. Quiet(w)
    BY <1>0, <2>1, <2>2, <2>4, ThreadsDiffer DEF Quiet
  <2>6. QED
    BY <2>3, <2>5, QuietStep DEF Thread
<1>4. QED
    BY <1>1, <1>2, <1>3

(* It is admitted or refused.                                              *)
LEMMA AdmissionKeeps ==
    ASSUME Inv, NEW w \in Worker, Admission(w)
    PROVE  Inv'
<1> DEFINE o == worker[w].owner
<1>0. /\ Types /\ worker[w].at = "Admission" /\ worker[w] # AtRest /\ table.holder # w
      /\ o \in OwnerId /\ o \in Nat
    BY ThreadAts, MaintenanceBounds DEF Inv, WorkerKnows, Admission, At, AtRest
<1>1. CASE o \in owners.entries
  <2>1. owners' = Unheld(owners) /\ Register(w) /\ Goes(w, "Wait") /\ UNCHANGED <<table, kept, keeper>>
    BY <1>1 DEF Admission
  <2>2. /\ UNCHANGED <<owners.runs, owners.entries, owners.admitted>>
        /\ owners' \in [holder : {Free} \cup Thread, admitted : Nat, entries : SUBSET OwnerId,
                        runs : Maps(Nat, OwnerId)]
    BY <1>0, <2>1 DEF Unheld, Types
  <2>3. QED
    BY <1>0, <1>1, <2>1, <2>2, WaitingKeeps
<1>2. CASE o \notin owners.entries
  <2>1. /\ owners' = [owners EXCEPT !.holder = Free, !.admitted = o, !.entries = @ \cup {o}]
           \/ owners' = [owners EXCEPT !.holder = Free]
        /\ Responds(w) /\ UNCHANGED <<owner, table, kept, keeper>>
    BY <1>2 DEF Admission
  <2>2. /\ owners' \in [holder : {Free} \cup Thread, admitted : Nat, entries : SUBSET OwnerId,
                        runs : Maps(Nat, OwnerId)]
        /\ owners'.runs = owners.runs /\ owners.entries \subseteq owners'.entries
    <3>1. CASE owners' = [owners EXCEPT !.holder = Free]
      BY <1>0, <3>1 DEF Types
    <3>2. CASE owners' = [owners EXCEPT !.holder = Free, !.admitted = o, !.entries = @ \cup {o}]
      <4>1. owners.entries \cup {o} \in SUBSET OwnerId
        BY <1>0 DEF Types
      <4>2. QED
        BY <1>0, <3>2, <4>1 DEF Types
    <3>3. QED
      BY <2>1, <3>1, <3>2
  <2>3. /\ worker' \in [Worker -> {AtRest} \cup BusyWorker] /\ worker'[w].at = "Rest"
        /\ \A v \in Worker : v # w => worker'[v] = worker[v]
    BY <1>0, <2>1, Rests
  <2>4. Types'
    BY <1>0, <2>1, <2>2, <2>3 DEF Types
  <2>5. WorkerKnows(w)'
    BY <1>0, <2>1, <2>3, AtRestKnows
  <2>6. Quiet(w)
    BY <1>0, <2>1, <2>2, <2>3, <2>5, ThreadsDiffer DEF Quiet
  <2>7. QED
    BY <2>4, <2>6, QuietStep DEF Thread
<1>3. QED
    BY <1>1, <1>2

(* A worker gets the owner's lock.                                         *)
LEMMA WaitKeeps ==
    ASSUME Inv, NEW w \in Worker, Wait(w)
    PROVE  Inv'
<1> DEFINE o == worker[w].owner
<1>0. /\ Types /\ worker[w].at = "Wait" /\ worker[w] # AtRest /\ owner[o].holder = Free
      /\ o \in OwnerId /\ (o \in owners.entries \/ owner[o].retired) /\ table.holder # w
    BY ThreadAts DEF Inv, WorkerKnows, Wait, At, Self, AtRest, PastLookup
<1>1. /\ worker' \in [Worker -> {AtRest} \cup BusyWorker]
      /\ worker'[w].at = "Entitled" /\ worker'[w].owner = o
      /\ \A v \in Worker : v # w => worker'[v] = worker[v]
    BY <1>0, GoesOn DEF Wait, PastLookup, Having
<1>2. /\ owner' \in OwnerRecords
      /\ owner'[o].holder = w /\ owner'[o].retired = owner[o].retired /\ owner'[o].runs = owner[o].runs
      /\ \A p \in OwnerId : p # o => owner'[p] = owner[p]
    BY <1>0 DEF Wait, Types, Thread, OwnerRecords
<1>3. UNCHANGED <<owners, table, kept, keeper>>
    BY DEF Wait
<1>4. Types'
    BY <1>0, <1>1, <1>2, <1>3 DEF Types, OwnerRecords
<1>5. WorkerKnows(w)'
    BY <1>0, <1>1, <1>2, <1>3, PlacesNest DEF WorkerKnows, OfRun, Serving
<1>6. Quiet(w)
    BY <1>0, <1>1, <1>2, <1>3, <1>5, ThreadsDiffer DEF Quiet
<1>7. QED
    BY <1>4, <1>6, QuietStep DEF Thread

(* A worker is entitled or refused.                                        *)
LEMMA EntitledKeeps ==
    ASSUME Inv, NEW w \in Worker, Entitled(w)
    PROVE  Inv'
<1>0. /\ Types /\ worker[w].at = "Entitled" /\ worker[w].route \in Route
      /\ UNCHANGED <<owners, table, kept, keeper>>
    BY ThreadAts DEF Inv, Entitled, At, AtRest
<1>1. CASE worker[w].route = "attach" \/ (Self(w).retired /\ worker[w].route # "retire")
    BY <1>0, <1>1, Leaving DEF Entitled, Having
<1>2. CASE worker[w].route = "retire"
    BY <1>0, <1>2, Going DEF Entitled, Having, Serving, Thereafter, OfRun
<1>3. CASE worker[w].route \in {"start", "output", "close"} /\ ~Self(w).retired
  <2>1. Goes(w, Thereafter[worker[w].route]) /\ UNCHANGED owner
    BY <1>3 DEF Entitled
  <2>2. Thereafter[worker[w].route] \in {"Insert", "Mapped"}
    BY <1>3 DEF Thereafter
  <2>3. QED
    BY <1>0, <1>3, <2>1, <2>2, Going DEF Having, Serving, OfRun, Self
<1>4. QED
    BY <1>0, <1>1, <1>2, <1>3 DEF Route

(* It asks whether the run is its owner's.                                 *)
LEMMA MappedKeeps ==
    ASSUME Inv, NEW w \in Worker, Mapped(w)
    PROVE  Inv'
<1>0. /\ worker[w].at = "Mapped" /\ UNCHANGED <<owners, table, kept, keeper>>
      /\ ~owner[worker[w].owner].retired
    BY DEF Mapped, At, Inv, WorkerKnows, Serving
<1>1. CASE worker[w].run \in DOMAIN owners.runs /\ owners.runs[worker[w].run] = worker[w].owner
    BY <1>0, <1>1, Going DEF Mapped, Having, Serving
<1>2. CASE ~(worker[w].run \in DOMAIN owners.runs /\ owners.runs[worker[w].run] = worker[w].owner)
    BY <1>0, <1>2, Leaving DEF Mapped, Having, Serving
<1>3. QED
    BY <1>1, <1>2

(* A run on which a worker goes on is still that of the owner.             *)
LEMMA FindLockRecheckKeep ==
    ASSUME Inv, NEW w \in Worker, Find(w) \/ Lock(w) \/ Recheck(w)
    PROVE  Inv'
<1>0. /\ worker[w].at \in {"Find", "Lock", "Recheck"} /\ UNCHANGED <<owners, table, kept, keeper>>
      /\ \/ Leaves(w) /\ Responds(w)
         \/ \E place \in {"Lock", "Recheck", "Effect"} : Goes(w, place) /\ UNCHANGED owner
    BY DEF Find, Lock, Recheck, At
<1>1. /\ ~owner[worker[w].owner].retired /\ worker[w].run \in DOMAIN owners.runs
      /\ owners.runs[worker[w].run] = worker[w].owner
    BY <1>0 DEF Inv, WorkerKnows, Serving, OfRun
<1>2. CASE Leaves(w) /\ Responds(w)
    BY <1>0, <1>2, Leaving DEF Having, Serving
<1>3. ASSUME NEW place \in {"Lock", "Recheck", "Effect"}, Goes(w, place), UNCHANGED owner
      PROVE  Inv'
    BY <1>0, <1>1, <1>3, Going DEF Having, Serving
<1>4. QED
    BY <1>0, <1>2, <1>3
-----------------------------------------------------------------------------
(* Steps of a worker that change a table.                                  *)

(* A thread that has the owner of a run, and does not reclaim it, finds it *)
(* in the table of runs.                                                   *)
LEMMA RunIsThere ==
    ASSUME Inv, NEW x \in Thread, NEW r \in DOMAIN owners.runs,
           owner[owners.runs[r]].holder = x, x \in Keeper => keeper[x].at # "Reclaimed"
    PROVE  r \in table.entries
<1>1. table.holder \in {Free} \cup Thread
    BY DEF Inv, Types
<1>2. CASE table.holder = Free
    BY <1>2 DEF Inv, TablesKnow
<1>3. CASE table.holder \in Worker
    BY <1>3 DEF Inv, WorkerKnows
<1>4. CASE table.holder \in Keeper
  <2> DEFINE k == table.holder
  <2>1. /\ keeper[k].at = "Reclaimed" /\ owner[keeper[k].owner].holder = k
        /\ DOMAIN owners.runs = table.entries \cup {keeper[k].run}
        /\ owners.runs[keeper[k].run] = keeper[k].owner
    BY <1>4, PlacesNest DEF Inv, KeeperKnows, Turned
  <2>2. x # k
    BY <1>4, <2>1
  <2>3. r # keeper[k].run
    BY <2>1, <2>2
  <2>4. QED
    BY <2>1, <2>3
<1>5. QED
    BY <1>1, <1>2, <1>3, <1>4 DEF Thread

(* The threads beside one that takes a step.                               *)
LEMMA OthersKnow ==
    ASSUME Types, NEW x \in Thread,
           \A w \in Worker : WorkerKnows(w), \A k \in Keeper : KeeperKnows(k),
           \A w \in Worker : w # x => worker'[w] = worker[w],
           \A k \in Keeper : k # x => keeper'[k] = keeper[k],
           \A y \in Thread : y # x => Undisturbed(y),
           x \in Worker => WorkerKnows(x)', x \in Keeper => KeeperKnows(x)'
    PROVE  (\A w \in Worker : WorkerKnows(w)') /\ (\A k \in Keeper : KeeperKnows(k)')
BY OtherWorker, OtherKeeper DEF Thread

(* An owner without runs is fenced off.                                    *)
LEMMA FenceKeeps ==
    ASSUME Inv, NEW w \in Worker, Fence(w)
    PROVE  Inv'
<1> DEFINE o == worker[w].owner
<1>0. /\ Types /\ worker[w].at = "Fence" /\ worker[w] # AtRest /\ o \in OwnerId
      /\ owner[o].holder = w /\ table.holder # w
      /\ UNCHANGED <<owners, table, kept, keeper>>
      /\ o \in owners.entries \/ owner[o].retired
    BY ThreadAts DEF Inv, WorkerKnows, Fence, At, AtRest, Having, PastLookup
<1>1. CASE Self(w).runs # 0
    BY <1>0, <1>1, Leaving DEF Fence, Having
<1>2. CASE Self(w).runs = 0
  <2>1. owner' = [owner EXCEPT ![o].retired = TRUE] /\ Goes(w, "Retired")
    BY <1>2 DEF Fence
  <2>2. /\ owner' \in OwnerRecords /\ owner'[o].holder = w /\ owner'[o].retired
        /\ \A p \in OwnerId : owner'[p].runs = owner[p].runs
        /\ \A p \in OwnerId : p # o => owner'[p] = owner[p]
    BY <1>0, <2>1 DEF Types, OwnerRecords
  <2>3. /\ worker' \in [Worker -> {AtRest} \cup BusyWorker]
        /\ worker'[w].at = "Retired" /\ worker'[w].owner = o
        /\ \A v \in Worker : v # w => worker'[v] = worker[v]
    BY <1>0, <2>1, GoesOn DEF PastLookup, Having
  <2>4. Types'
    BY <1>0, <2>2, <2>3 DEF Types, OwnerRecords
  <2>5. ASSUME NEW y \in Thread, y # w PROVE Undisturbed(y)
    <3>1. \A p \in OwnerId : owner[p].holder = y => p # o
      BY <1>0, <2>5
    <3>2. table.next \in Nat
      BY <1>0 DEF Types
    <3>3. \A v \in Worker : worker'[v].at = "Started" => worker'[v] = worker[v]
      BY <2>3
    <3>4. \A p \in OwnerId : owner[p].retired => owner'[p].retired
      BY <2>2
    <3>5. QED
      BY <1>0, <2>2, <3>1, <3>2, <3>3, <3>4 DEF Undisturbed
  <2>6. WorkerKnows(w)'
    BY <1>0, <2>2, <2>3 DEF WorkerKnows, Serving, OfRun
  <2>7. (\A v \in Worker : WorkerKnows(v)') /\ (\A k \in Keeper : KeeperKnows(k)')
    BY <1>0, <2>3, <2>5, <2>6, OthersKnow, ThreadsDiffer DEF Inv, Thread
  <2>8. TablesKnow'
    BY <1>0 DEF Inv, TablesKnow
  <2>9. Counted'
    BY <1>0, <1>2, <2>2 DEF Inv, Counted, RunsOwned, Self
  <2>10. QED
    BY <2>4, <2>7, <2>8, <2>9 DEF Inv
<1>3. QED
    BY <1>1, <1>2

(* The owner leaves the table.                                             *)
LEMMA RetiredKeeps ==
    ASSUME Inv, NEW w \in Worker, Retired(w)
    PROVE  Inv'
<1> DEFINE o == worker[w].owner
<1>0. /\ Types /\ worker[w].at = "Retired" /\ o \in OwnerId
      /\ owner[o].holder = w /\ owner[o].retired /\ table.holder # w
      /\ owners' = [owners EXCEPT !.entries = @ \ {o}]
      /\ Leaves(w) /\ Responds(w) /\ UNCHANGED <<table, kept, keeper>>
    BY ThreadAts DEF Inv, WorkerKnows, Retired, At, AtRest, Having, PastLookup
<1>1. /\ owner' \in OwnerRecords
      /\ \A p \in OwnerId : /\ owner'[p].runs = owner[p].runs
                            /\ owner'[p].retired = owner[p].retired
      /\ \A p \in OwnerId : p # o => owner'[p] = owner[p]
    BY <1>0, HolderChanges DEF Leaves
<1>2. /\ worker' \in [Worker -> {AtRest} \cup BusyWorker] /\ worker'[w].at = "Rest"
      /\ \A v \in Worker : v # w => worker'[v] = worker[v]
    BY <1>0, Rests
<1>3. /\ owners' \in [holder : {Free} \cup Thread, admitted : Nat, entries : SUBSET OwnerId,
                      runs : Maps(Nat, OwnerId)]
      /\ owners'.runs = owners.runs /\ owners'.entries = owners.entries \ {o}
    BY <1>0 DEF Types
<1>4. Types'
    BY <1>0, <1>1, <1>2, <1>3 DEF Types, OwnerRecords
<1>5. ASSUME NEW y \in Thread, y # w PROVE Undisturbed(y)
  <2>1. \A p \in OwnerId : owner[p].holder = y => p # o
    BY <1>0, <1>5
  <2>2. table.next \in Nat
    BY <1>0 DEF Types
  <2>3. \A v \in Worker : worker'[v].at = "Started" => worker'[v] = worker[v]
    BY <1>2
  <2>4. \A p \in owners.entries : p \in owners'.entries \/ owner'[p].retired
    BY <1>0, <1>1, <1>3
  <2>5. QED
    BY <1>0, <1>1, <1>3, <2>1, <2>2, <2>3, <2>4 DEF Undisturbed
<1>6. WorkerKnows(w)'
    BY <1>0, <1>2, AtRestKnows
<1>7. (\A v \in Worker : WorkerKnows(v)') /\ (\A k \in Keeper : KeeperKnows(k)')
    BY <1>0, <1>2, <1>5, <1>6, OthersKnow, ThreadsDiffer DEF Inv, Thread
<1>8. TablesKnow'
    BY <1>0, <1>3 DEF Inv, TablesKnow
<1>9. Counted'
    BY <1>1, <1>3 DEF Inv, Counted, RunsOwned
<1>10. QED
    BY <1>4, <1>7, <1>8, <1>9 DEF Inv

(* A start inserts its run in the table of runs.                           *)
LEMMA InsertKeeps ==
    ASSUME Inv, NEW w \in Worker, Insert(w)
    PROVE  Inv'
<1> SUFFICES ASSUME NEW o, o = worker[w].owner, NEW r, r = table.next + 1
             PROVE  Inv'
    OBVIOUS
<1>0. /\ Types /\ r \in Nat /\ table.next \in Nat /\ worker[w].at = "Insert" /\ worker[w] # AtRest /\ o \in OwnerId /\ table.holder = Free
      /\ owner[o].holder = w /\ ~owner[o].retired /\ (o \in owners.entries \/ owner[o].retired)
      /\ table' = [table EXCEPT !.holder = w, !.next = r, !.entries = @ \cup {r}]
      /\ worker' = [worker EXCEPT ![w].at = "Started", ![w].run = r]
      /\ UNCHANGED <<owners, owner, kept, keeper>>
  <2>1. Types /\ table.next \in Nat
    BY DEF Inv, Types
  <2>2. QED
    BY <2>1, ThreadAts DEF Inv, WorkerKnows, Insert, At, AtRest, Having, PastLookup, Serving
<1>1. /\ worker' \in [Worker -> {AtRest} \cup BusyWorker]
      /\ worker'[w].at = "Started" /\ worker'[w].owner = o /\ worker'[w].run = r
      /\ \A v \in Worker : v # w => worker'[v] = worker[v]
  <2>1. worker' = [worker EXCEPT ![w] = [worker[w] EXCEPT !.at = "Started", !.run = r]]
    BY <1>0 DEF Types
  <2>2. worker[w] \in BusyWorker
    BY <1>0 DEF Types
  <2>3. "Started" \in PastLookup
    BY DEF PastLookup, Having, Serving
  <2>4. [worker[w] EXCEPT !.at = "Started", !.run = r] \in BusyWorker
    BY <1>0, <2>2, <2>3 DEF BusyWorker
  <2>5. QED
    BY <1>0, <2>1, <2>2, <2>4 DEF Types, BusyWorker
<1>2. /\ table' \in [holder : {Free} \cup Thread, next : Nat, entries : SUBSET Nat,
                     closing : Maps(Nat, BOOLEAN), after : Nat, round : Nat]
      /\ table'.holder = w /\ table'.next = r /\ table'.entries = table.entries \cup {r}
      /\ table'.closing = table.closing
  <2>1. r \in Nat /\ table.entries \cup {r} \in SUBSET Nat /\ w \in Thread
    BY <1>0 DEF Types, Thread
  <2>2. QED
    BY <1>0, <2>1 DEF Types
<1>3. Types'
    BY <1>0, <1>1, <1>2 DEF Types
<1>4. table.entries = DOMAIN owners.runs /\ table.entries \subseteq 1 .. table.next /\ table.next \in Nat
    BY <1>0 DEF Inv, TablesKnow, Types
<1>5. ASSUME NEW y \in Thread, y # w PROVE Undisturbed(y)
  <2>1. table.holder # y
    BY <1>0, ThreadsDiffer DEF Thread
  <2>2. \A v \in Worker : worker'[v].at = "Started" => worker'[v].run > table.next \/ worker'[v] = worker[v]
    BY <1>1, <1>4
  <2>3. /\ table'.holder = y <=> table.holder = y
        /\ table.holder = y => /\ table'.next = table.next /\ table'.entries = table.entries
                               /\ DOMAIN owners'.runs = DOMAIN owners.runs
        /\ table'.next \in Nat /\ table.next <= table'.next
    BY <1>0, <1>2, <1>4, <1>5, <2>1
  <2>4. QED
    BY <1>0, <2>2, <2>3 DEF Undisturbed, Inv, Types
<1>6. WorkerKnows(w)'
  <2>1. r \notin DOMAIN owners.runs
    BY <1>4
  <2>2. QED
    BY <1>0, <1>1, <1>2, <1>4, <2>1 DEF WorkerKnows, OfRun
<1>7. (\A v \in Worker : WorkerKnows(v)') /\ (\A k \in Keeper : KeeperKnows(k)')
    BY <1>0, <1>1, <1>5, <1>6, OthersKnow, ThreadsDiffer DEF Inv, Thread
<1>8. TablesKnow'
  <2>1. w # Free
    BY ThreadsDiffer
  <2>2. table'.entries \subseteq 1 .. table'.next
    BY <1>2, <1>4
  <2>3. DOMAIN owners'.runs \subseteq 1 .. table'.next
    BY <1>0, <1>2, <1>4
  <2>4. QED
    BY <1>0, <1>2, <2>1, <2>2, <2>3 DEF Inv, TablesKnow
<1>9. Counted'
    BY <1>0 DEF Inv, Counted, RunsOwned
<1>10. QED
    BY <1>3, <1>7, <1>8, <1>9 DEF Inv

(* An owner has finitely many runs.                                        *)
LEMMA RunsOwnedFinite ==
    ASSUME Types, TablesKnow, NEW o
    PROVE  IsFiniteSet(RunsOwned(o))
<1>1. table.next \in Nat
    BY DEF Types
<1>2. IsFiniteSet(1 .. table.next)
    BY <1>1, FS_Interval
<1>3. RunsOwned(o) \in SUBSET (1 .. table.next)
    BY DEF RunsOwned, TablesKnow
<1>4. QED
    BY <1>2, <1>3, FS_Subset

(* The run is put in the table of its owner, which counts it.              *)
LEMMA StartedKeeps ==
    ASSUME Inv, NEW w \in Worker, Started(w)
    PROVE  Inv'
<1> SUFFICES ASSUME NEW o, o = worker[w].owner, NEW r, r = worker[w].run
             PROVE  Inv'
    OBVIOUS
<1>0. /\ Types /\ worker[w].at = "Started" /\ o \in OwnerId /\ r \in Nat
      /\ owner[o].holder = w /\ ~owner[o].retired
      /\ table.holder = w /\ r = table.next
      /\ table.entries = DOMAIN owners.runs \cup {r} /\ r \notin DOMAIN owners.runs
      /\ owners' = [owners EXCEPT !.runs = With(@, r, o)]
      /\ owner' = [owner EXCEPT ![o].holder = Free, ![o].runs = @ + 1]
      /\ table' = [table EXCEPT !.holder = Free]
      /\ Responds(w) /\ UNCHANGED <<kept, keeper>>
    BY ThreadAts DEF Inv, WorkerKnows, Started, At, AtRest, Having, Serving
<1>1. /\ owner' \in OwnerRecords /\ owner'[o].runs = owner[o].runs + 1
      /\ \A p \in OwnerId : owner'[p].retired = owner[p].retired
      /\ \A p \in OwnerId : p # o => owner'[p] = owner[p]
    BY <1>0 DEF Types, OwnerRecords
<1>2. /\ worker' \in [Worker -> {AtRest} \cup BusyWorker] /\ worker'[w].at = "Rest"
      /\ \A v \in Worker : v # w => worker'[v] = worker[v]
    BY <1>0, Rests
<1>3. /\ owners' \in [holder : {Free} \cup Thread, admitted : Nat, entries : SUBSET OwnerId,
                      runs : Maps(Nat, OwnerId)]
      /\ owners'.entries = owners.entries
      /\ DOMAIN owners'.runs = DOMAIN owners.runs \cup {r} /\ owners'.runs[r] = o
      /\ \A q \in DOMAIN owners.runs : owners'.runs[q] = owners.runs[q]
  <2>1. owners.runs \in Maps(Nat, OwnerId)
    BY <1>0 DEF Types
  <2>2. /\ With(owners.runs, r, o) \in Maps(Nat, OwnerId)
        /\ DOMAIN With(owners.runs, r, o) = DOMAIN owners.runs \cup {r}
        /\ With(owners.runs, r, o)[r] = o
        /\ \A q \in DOMAIN owners.runs : q # r => With(owners.runs, r, o)[q] = owners.runs[q]
    <3>1. o \in OwnerId /\ r \in Nat
      BY <1>0
    <3>2. QED
      BY <2>1, <3>1, RunAdded, ZenonT(60)
  <2>3. owners' \in [holder : {Free} \cup Thread, admitted : Nat, entries : SUBSET OwnerId,
                      runs : Maps(Nat, OwnerId)]
        /\ owners'.entries = owners.entries /\ owners'.runs = With(owners.runs, r, o)
    BY <1>0, <2>2 DEF Types
  <2>4. QED
    BY <1>0, <2>2, <2>3
<1>4. /\ table' \in [holder : {Free} \cup Thread, next : Nat, entries : SUBSET Nat,
                     closing : Maps(Nat, BOOLEAN), after : Nat, round : Nat]
      /\ table'.holder = Free /\ table'.next = table.next /\ table'.entries = table.entries
      /\ table'.closing = table.closing
    BY <1>0 DEF Types
<1>5. Types'
    BY <1>0, <1>1, <1>2, <1>3, <1>4 DEF Types, OwnerRecords
<1>6. ASSUME NEW y \in Thread, y # w PROVE Undisturbed(y)
  <2>1. \A p \in OwnerId : owner[p].holder = y => p # o
    BY <1>0, <1>6
  <2>2. table.next \in Nat /\ table.holder # y /\ table'.holder # y
    BY <1>0, <1>4, <1>6, ThreadsDiffer DEF Types, Thread
  <2>3. \A v \in Worker : worker'[v].at = "Started" => worker'[v] = worker[v]
    BY <1>2
  <2>4. \A q \in DOMAIN owners'.runs :
          \/ q \in DOMAIN owners.runs /\ owners'.runs[q] = owners.runs[q]
          \/ \E v \in Worker : At(v, "Started") /\ worker[v].run = q
    BY <1>0, <1>3 DEF At
  <2>5. \A p \in OwnerId : owner[p].holder = y =>
          owner'[p].holder = y /\ owner'[p].retired = owner[p].retired
    BY <1>1, <2>1
  <2>6. \A q \in DOMAIN owners.runs : owner[owners.runs[q]].holder = y =>
          /\ q \in DOMAIN owners'.runs /\ owners'.runs[q] = owners.runs[q]
          /\ q \in kept' => q \in kept
    BY <1>0, <1>3
  <2>7. /\ \A p \in OwnerId : owner[p].retired => owner'[p].retired
        /\ \A p \in owners.entries : p \in owners'.entries \/ owner'[p].retired
    BY <1>1, <1>3
  <2>8. /\ table'.holder = y <=> table.holder = y
        /\ table'.next \in Nat /\ table.next <= table'.next
    BY <1>4, <2>2
  <2>9. QED
    BY <2>2, <2>3, <2>4, <2>5, <2>6, <2>7, <2>8 DEF Undisturbed
<1>7. WorkerKnows(w)'
  <2>1. "Rest" \notin PastLookup /\ "Rest" # "Started"
    BY DEF PastLookup, Having, Serving
  <2>2. table'.holder # w
    BY <1>4, ThreadsDiffer
  <2>3. QED
    BY <1>2, <2>1, <2>2, PlacesNest DEF WorkerKnows
<1>8. (\A v \in Worker : WorkerKnows(v)') /\ (\A k \in Keeper : KeeperKnows(k)')
    BY <1>0, <1>2, <1>6, <1>7, OthersKnow, ThreadsDiffer DEF Inv, Thread
<1>9. TablesKnow'
    BY <1>0, <1>3, <1>4 DEF Inv, TablesKnow
<1>10. Counted'
  <2>1. ASSUME NEW p \in OwnerId, p # o PROVE RunsOwned(p)' = RunsOwned(p)
    BY <1>0, <1>3, <2>1 DEF RunsOwned
  <2>2. RunsOwned(o)' = RunsOwned(o) \cup {r} /\ r \notin RunsOwned(o)
    BY <1>0, <1>3 DEF RunsOwned
  <2>3. Cardinality(RunsOwned(o) \cup {r}) = Cardinality(RunsOwned(o)) + 1
    BY <2>2, RunsOwnedFinite, FS_AddElement DEF Inv
  <2>4. ASSUME NEW p \in OwnerId
        PROVE  owner'[p].runs = Cardinality(RunsOwned(p)') /\ (owner'[p].retired => owner'[p].runs = 0)
    <3>1. owner[p].runs = Cardinality(RunsOwned(p)) /\ (owner[p].retired => owner[p].runs = 0)
      BY DEF Inv, Counted
    <3>2. CASE p = o
      BY <1>0, <1>1, <2>2, <2>3, <3>1, <3>2
    <3>3. CASE p # o
      BY <1>1, <2>1, <3>1, <3>3
    <3>4. QED
      BY <3>2, <3>3
  <2>5. QED
    BY <2>4 DEF Counted
<1>11. QED
    BY <1>5, <1>8, <1>9, <1>10 DEF Inv

(* Its command takes effect.                                               *)
LEMMA EffectKeeps ==
    ASSUME Inv, NEW w \in Worker, Effect(w)
    PROVE  Inv'
<1> SUFFICES ASSUME NEW o, o = worker[w].owner, NEW r, r = worker[w].run
             PROVE  Inv'
    OBVIOUS
<1>0. /\ Types /\ worker[w].at = "Effect" /\ o \in OwnerId /\ r \in Nat
      /\ owner[o].holder = w /\ r \in DOMAIN owners.runs /\ owners.runs[r] = o
      /\ Leaves(w) /\ Responds(w) /\ UNCHANGED <<owners, keeper>>
    BY ThreadAts DEF Inv, WorkerKnows, Effect, At, AtRest, Having, Serving, OfRun
<1>1. r \in table.entries
    BY <1>0, RunIsThere, ThreadsDiffer DEF Thread
<1>2. /\ owner' \in OwnerRecords
      /\ \A p \in OwnerId : /\ owner'[p].runs = owner[p].runs
                            /\ owner'[p].retired = owner[p].retired
      /\ \A p \in OwnerId : p # o => owner'[p] = owner[p]
    BY <1>0, HolderChanges DEF Leaves
<1>3. /\ worker' \in [Worker -> {AtRest} \cup BusyWorker] /\ worker'[w].at = "Rest"
      /\ \A v \in Worker : v # w => worker'[v] = worker[v]
    BY <1>0, Rests
<1>4. /\ table' \in [holder : {Free} \cup Thread, next : Nat, entries : SUBSET Nat,
                     closing : Maps(Nat, BOOLEAN), after : Nat, round : Nat]
      /\ table'.holder = table.holder /\ table'.next = table.next /\ table'.entries = table.entries
      /\ DOMAIN table'.closing \subseteq DOMAIN table.closing \cup {r}
      /\ kept' \subseteq kept \cup {r}
  <2>1. CASE UNCHANGED table /\ kept' = kept \cup {r}
    BY <1>0, <2>1 DEF Types
  <2>2. CASE /\ table' = [table EXCEPT !.closing = IF r \in DOMAIN @ THEN @ ELSE With(@, r, FALSE)]
             /\ UNCHANGED kept
    <3>1. table.closing \in Maps(Nat, BOOLEAN)
      BY <1>0 DEF Types
    <3>2. /\ With(table.closing, r, FALSE) \in Maps(Nat, BOOLEAN)
          /\ DOMAIN With(table.closing, r, FALSE) = DOMAIN table.closing \cup {r}
      BY <1>0, <3>1, MarkIs
    <3>3. QED
      BY <1>0, <2>2, <3>1, <3>2 DEF Types
  <2>3. QED
    BY <2>1, <2>2 DEF Effect
<1>5. Types'
    BY <1>0, <1>2, <1>3, <1>4 DEF Types, OwnerRecords
<1>6. ASSUME NEW y \in Thread, y # w PROVE Undisturbed(y)
  <2>1. \A p \in OwnerId : owner[p].holder = y => p # o
    BY <1>0, <1>6
  <2>2. \A p \in OwnerId : owner[p].holder = y =>
          owner'[p].holder = y /\ owner'[p].retired = owner[p].retired
    BY <1>2, <2>1
  <2>3. table.next \in Nat
    BY <1>0 DEF Types
  <2>4. \A v \in Worker : worker'[v].at = "Started" => worker'[v] = worker[v]
    BY <1>3
  <2>5. \A q \in DOMAIN owners.runs : owner[owners.runs[q]].holder = y => q # r
    BY <1>0, <1>6
  <2>6. QED
    BY <1>0, <1>2, <1>4, <2>2, <2>3, <2>4, <2>5 DEF Undisturbed
<1>7. WorkerKnows(w)'
    BY <1>0, <1>3, <1>4, AtRestKnows
<1>8. (\A v \in Worker : WorkerKnows(v)') /\ (\A k \in Keeper : KeeperKnows(k)')
    BY <1>0, <1>3, <1>6, <1>7, OthersKnow, ThreadsDiffer DEF Inv, Thread
<1>9. TablesKnow'
    BY <1>0, <1>1, <1>4 DEF Inv, TablesKnow
<1>10. Counted'
    BY <1>0, <1>2 DEF Inv, Counted, RunsOwned
<1>11. QED
    BY <1>5, <1>8, <1>9, <1>10 DEF Inv
-----------------------------------------------------------------------------
(* Steps of a caller of tick.                                              *)

(* A set of numbers has a least one.                                       *)
LEMMA LeastNatural ==
    ASSUME NEW S \in SUBSET Nat, S # {}
    PROVE  \E m \in S : \A n \in S : m <= n
<1> DEFINE R == {p \in Nat \X Nat : p[1] < p[2]}
<1>1. IsWellFoundedOn(R, Nat)
    BY NatLessThanWellFounded DEF OpToRel
<1>2. PICK m \in S : \A n \in S : <<n, m>> \notin R
  <2> HIDE DEF R
  <2> QED
    BY <1>1, WFMin
<1>3. \A n \in S : ~(n < m)
    BY <1>2
<1>4. QED
    BY <1>3

(* The minimum of a set is in it and below the others.                     *)
LEMMA MinIsIn ==
    ASSUME NEW S \in SUBSET Nat, S # {}
    PROVE  Min(S) \in S /\ \A n \in S : Min(S) <= n
<1>1. \E m \in S : \A n \in S : m <= n
    BY LeastNatural
<1>2. QED
    BY <1>1 DEF Min

(* The maximum of a finite set is in it and above the others.              *)
LEMMA MaxIsIn ==
    ASSUME NEW n \in Nat, NEW S \in SUBSET (0 .. n), S # {}
    PROVE  Max(S) \in S /\ \A y \in S : Max(S) >= y
<1> DEFINE D == {n - x : x \in S}
<1>1. D \in SUBSET Nat /\ D # {}
  <2>1. \A x \in S : n - x \in Nat
    OBVIOUS
  <2>2. QED
    BY <2>1
<1>2. \E d \in D : \A e \in D : d <= e
  <2> HIDE DEF D
  <2> QED
    BY <1>1, LeastNatural
<1>3. PICK x \in S : \A y \in S : n - x <= n - y
    BY <1>2
<1>4. \A y \in S : y <= x
    BY <1>3
<1>5. \E m \in S : \A y \in S : m >= y
    BY <1>4
<1>6. QED
    BY <1>5 DEF Max

(* A keeper at rest knows nothing.                                         *)
LEMMA KeeperAtRest ==
    ASSUME Inv, NEW k \in Keeper, keeper[k].at # "Reclaimed",
           keeper'[k] = AtRest, keeper'[k].at = "Rest", table'.holder = table.holder
    PROVE  KeeperKnows(k)'
<1>1. "Rest" \notin PastOwner
    BY DEF PastOwner, Turning
<1>2. table.holder # k
    BY DEF Inv, KeeperKnows
<1>3. QED
    BY <1>1, <1>2, PlacesNest DEF KeeperKnows

(* A round ends.                                                           *)
LEMMA TurnEnds ==
    ASSUME Inv, NEW k \in Keeper, keeper[k].at # "Reclaimed", Returns(k),
           UNCHANGED <<owners, table, owner, kept, worker>>
    PROVE  Inv'
<1>1. /\ keeper' \in [Keeper -> {AtRest} \cup Turn] /\ keeper'[k] = AtRest /\ keeper'[k].at = "Rest"
      /\ \A j \in Keeper : j # k => keeper'[j] = keeper[j]
    BY KeeperReturns DEF Inv
<1>2. Types'
    BY <1>1 DEF Inv, Types
<1>3. KeeperKnows(k)'
    BY <1>1, KeeperAtRest
<1>4. Quiet(k)
    BY <1>1, <1>3, ThreadsDiffer DEF Quiet
<1>5. QED
    BY <1>2, <1>4, QuietStep DEF Thread

(* A caller of tick lets go of the owner.                                  *)
LEMMA LetGoKeeps ==
    ASSUME Inv, NEW k \in Keeper, keeper[k].at \in Turning \ {"Reclaimed"}, LetGo(k),
           UNCHANGED <<owners, table, kept, worker>>
    PROVE  Inv'
<1> SUFFICES ASSUME NEW o, o = keeper[k].owner
             PROVE  Inv'
    OBVIOUS
<1>0. Types /\ o \in OwnerId /\ owner[o].holder = k /\ Returns(k)
      /\ owner' = [owner EXCEPT ![o].holder = Free]
    BY PlacesNest DEF Inv, KeeperKnows, LetGo
<1>1. /\ owner' \in OwnerRecords
      /\ \A p \in OwnerId : /\ owner'[p].runs = owner[p].runs
                            /\ owner'[p].retired = owner[p].retired
                            /\ owner[p].holder # k => owner'[p].holder = owner[p].holder
    BY <1>0, HolderChanges
<1>2. /\ keeper' \in [Keeper -> {AtRest} \cup Turn] /\ keeper'[k] = AtRest /\ keeper'[k].at = "Rest"
      /\ \A j \in Keeper : j # k => keeper'[j] = keeper[j]
    BY <1>0, KeeperReturns
<1>3. Types'
    BY <1>0, <1>1, <1>2 DEF Types, OwnerRecords
<1>4. KeeperKnows(k)'
    BY <1>2, KeeperAtRest
<1>5. Quiet(k)
    BY <1>1, <1>2, <1>4, ThreadsDiffer DEF Quiet
<1>6. QED
    BY <1>3, <1>5, QuietStep DEF Thread

(* The next run is picked.                                                 *)
LEMMA PickKeeps ==
    ASSUME Inv, NEW k \in Keeper, Pick(k)
    PROVE  Inv'
<1> SUFFICES ASSUME NEW last, last = (IF table.round = 0 THEN Max(table.entries \cup {0}) ELSE table.round),
                    NEW ahead, ahead = {r \in table.entries : table.after < r /\ r <= last}
             PROVE  Inv'
    OBVIOUS
<1>0. /\ Types /\ keeper[k] = AtRest /\ keeper[k].at = "Rest" /\ table.holder = Free
      /\ UNCHANGED <<owners, owner, kept, worker>>
      /\ table.entries \subseteq 1 .. table.next /\ table.next \in Nat
    BY DEF Inv, Pick, AtRest, TablesKnow, Types
<1>1. last \in Nat
  <2>1. table.entries \cup {0} \in SUBSET (0 .. table.next)
    BY <1>0
  <2>2. Max(table.entries \cup {0}) \in table.entries \cup {0}
    BY <1>0, <2>1, MaxIsIn
  <2>3. QED
    BY <1>0, <2>1, <2>2 DEF Types
<1>2. CASE ahead # {}
  <2> SUFFICES ASSUME NEW r, r = Min(ahead)
               PROVE  Inv'
    OBVIOUS
  <2>1. r \in table.entries /\ r \in Nat
    BY <1>0, <1>2, MinIsIn
  <2>2. /\ table' = [table EXCEPT !.round = last, !.after = r]
        /\ \E c \in {"no", "begun", "torn"} :
              keeper' = [keeper EXCEPT ![k] = [at |-> "Owner", run |-> r, owner |-> 0, closing |-> c]]
    BY <1>2 DEF Pick
  <2>3. /\ table' \in [holder : {Free} \cup Thread, next : Nat, entries : SUBSET Nat,
                       closing : Maps(Nat, BOOLEAN), after : Nat, round : Nat]
        /\ UNCHANGED <<table.holder, table.next, table.entries, table.closing>>
    BY <1>0, <1>1, <2>1, <2>2 DEF Types
  <2>4. /\ keeper' \in [Keeper -> {AtRest} \cup Turn]
        /\ keeper'[k].at = "Owner" /\ keeper'[k].run = r
        /\ \A j \in Keeper : j # k => keeper'[j] = keeper[j]
    BY <1>0, <2>1, <2>2 DEF Types, Turn
  <2>5. Types'
    BY <1>0, <2>3, <2>4 DEF Types
  <2>6. KeeperKnows(k)'
    <3>1. "Owner" \notin PastOwner
      BY DEF PastOwner, Turning
    <3>2. \A w \in Worker : worker[w].at # "Started"
      BY <1>0, ThreadsDiffer DEF Inv, WorkerKnows
    <3>3. table.holder # k
      BY <1>0, ThreadsDiffer
    <3>4. QED
      BY <1>0, <2>1, <2>3, <2>4, <3>1, <3>2, <3>3, PlacesNest DEF KeeperKnows, At
  <2>7. Quiet(k)
    BY <1>0, <2>3, <2>4, <2>6, ThreadsDiffer DEF Quiet
  <2>8. QED
    BY <2>5, <2>7, QuietStep DEF Thread
<1>3. CASE ahead = {}
  <2>1. table' = [table EXCEPT !.round = 0, !.after = 0] /\ UNCHANGED keeper
    BY <1>3 DEF Pick
  <2>2. /\ table' \in [holder : {Free} \cup Thread, next : Nat, entries : SUBSET Nat,
                       closing : Maps(Nat, BOOLEAN), after : Nat, round : Nat]
        /\ UNCHANGED <<table.holder, table.next, table.entries, table.closing>>
    BY <1>0, <2>1 DEF Types
  <2>3. Types'
    BY <1>0, <2>1, <2>2 DEF Types
  <2>4. KeeperKnows(k)'
    BY <1>0, <2>1, <2>2, KeeperAtRest
  <2>5. Quiet(k)
    BY <1>0, <2>1, <2>2, <2>4, ThreadsDiffer DEF Quiet
  <2>6. QED
    BY <2>3, <2>5, QuietStep DEF Thread
<1>4. QED
    BY <1>2, <1>3

(* Its owner is looked up.                                                 *)
LEMMA OwnerOfKeeps ==
    ASSUME Inv, NEW k \in Keeper, OwnerOf(k)
    PROVE  Inv'
<1> SUFFICES ASSUME NEW r, r = keeper[k].run
             PROVE  Inv'
    OBVIOUS
<1>0. /\ Types /\ keeper[k].at = "Owner" /\ keeper[k] # AtRest /\ r \in 1 .. table.next
      /\ UNCHANGED <<owners, table, owner, kept, worker>>
      /\ \A w \in Worker : At(w, "Started") => worker[w].run # r
    BY DEF Inv, OwnerOf, In, AtRest, KeeperKnows
<1>1. CASE r \in DOMAIN owners.runs /\ owners.runs[r] \in owners.entries
  <2>1. keeper' = [keeper EXCEPT ![k].at = "Waiting", ![k].owner = owners.runs[r]]
    BY <1>1 DEF OwnerOf
  <2>2. owners.runs[r] \in OwnerId
    BY <1>0, <1>1 DEF Types
  <2>3. /\ keeper' \in [Keeper -> {AtRest} \cup Turn]
        /\ keeper'[k].at = "Waiting" /\ keeper'[k].run = r /\ keeper'[k].owner = owners.runs[r]
        /\ \A j \in Keeper : j # k => keeper'[j] = keeper[j]
    <3>1. keeper' = [keeper EXCEPT ![k] = [keeper[k] EXCEPT !.at = "Waiting", !.owner = owners.runs[r]]]
      BY <1>0, <2>1 DEF Types
    <3>2. keeper[k] \in Turn
      BY <1>0 DEF Types
    <3>3. [keeper[k] EXCEPT !.at = "Waiting", !.owner = owners.runs[r]] \in Turn
      BY <2>2, <3>2 DEF Turn, PastOwner
    <3>4. QED
      BY <1>0, <3>1, <3>2, <3>3 DEF Types, Turn
  <2>4. Types'
    BY <1>0, <2>3 DEF Types
  <2>5. KeeperKnows(k)'
    <3>1. "Waiting" \notin Turning /\ "Waiting" # "Rest" /\ keeper'[k] # AtRest
      BY <2>3 DEF Turning, AtRest
    <3>2. table.holder # k
      BY <1>0 DEF Inv, KeeperKnows
    <3>3. QED
      BY <1>0, <1>1, <2>2, <2>3, <3>1, <3>2, PlacesNest DEF KeeperKnows, At
  <2>6. Quiet(k)
    BY <1>0, <2>3, <2>5, ThreadsDiffer DEF Quiet
  <2>7. QED
    BY <2>4, <2>6, QuietStep DEF Thread
<1>2. CASE ~(r \in DOMAIN owners.runs /\ owners.runs[r] \in owners.entries)
    BY <1>0, <1>2, TurnEnds DEF OwnerOf
<1>3. QED
    BY <1>1, <1>2

(* A keeper goes on to a place it is entitled to.                          *)
LEMMA TurnGoesOn ==
    ASSUME Inv, NEW k \in Keeper, keeper[k].at \in PastOwner \ {"Reclaimed"},
           NEW place \in PastOwner \ {"Reclaimed"}, Moves(k, place),
           UNCHANGED <<owners, table, kept, worker>>,
           \/ owner' = owner
           \/ /\ owner' = [owner EXCEPT ![keeper[k].owner].holder = k]
              /\ owner[keeper[k].owner].holder = Free,
           place \in Turning => owner'[keeper[k].owner].holder = k /\ ~owner[keeper[k].owner].retired,
           place \in Turned => keeper[k].run \in DOMAIN owners.runs,
           place = "Reclaim" => keeper[k].run \notin kept
    PROVE  Inv'
<1> SUFFICES ASSUME NEW o, o = keeper[k].owner
             PROVE  Inv'
    OBVIOUS
<1>0. /\ Types /\ keeper[k] # AtRest /\ o \in OwnerId /\ table.holder # k
      /\ o \in owners.entries \/ owner[o].retired
    BY DEF Inv, KeeperKnows, AtRest, PastOwner, Turning
<1>1. /\ owner' \in OwnerRecords
      /\ \A p \in OwnerId : /\ owner'[p].runs = owner[p].runs
                            /\ owner'[p].retired = owner[p].retired
                            /\ owner[p].holder # Free => owner'[p].holder = owner[p].holder
  <2>1. CASE owner' = owner
    BY <1>0, <2>1 DEF Types, OwnerRecords
  <2>2. CASE owner' = [owner EXCEPT ![o].holder = k] /\ owner[o].holder = Free
    <3>1. k \in {Free} \cup Thread
      BY DEF Thread
    <3>2. Types /\ o \in OwnerId /\ owner' = [owner EXCEPT ![o].holder = k]
      BY <1>0, <2>2
    <3>3. /\ owner' \in OwnerRecords
          /\ owner'[o].retired = owner[o].retired /\ owner'[o].runs = owner[o].runs
          /\ \A p \in OwnerId : p # o => owner'[p] = owner[p]
      BY <3>1, <3>2, HolderChanges
    <3>4. QED
      BY <2>2, <3>3
  <2>3. QED
    BY <2>1, <2>2
<1>2. /\ keeper' \in [Keeper -> {AtRest} \cup Turn] /\ keeper'[k] # AtRest
      /\ keeper'[k].at = place /\ keeper'[k].owner = o /\ keeper'[k].run = keeper[k].run
      /\ \A j \in Keeper : j # k => keeper'[j] = keeper[j]
    BY <1>0, KeeperMoves
<1>3. Types'
    BY <1>0, <1>1, <1>2 DEF Types, OwnerRecords
<1>4. KeeperKnows(k)'
  <2>1. KeeperKnows(k)
    BY DEF Inv
  <2>2. QED
    BY <1>0, <1>1, <1>2, <2>1 DEF KeeperKnows, At
<1>5. Quiet(k)
    BY <1>1, <1>2, <1>4, ThreadsDiffer DEF Quiet
<1>6. QED
    BY <1>3, <1>5, QuietStep DEF Thread

(* A lock is waited for, tried or held.                                    *)
LEMMA WaitingTryHeldKeep ==
    ASSUME Inv, NEW k \in Keeper, Waiting(k) \/ Try(k) \/ Held(k)
    PROVE  Inv'
<1> SUFFICES ASSUME NEW o, o = keeper[k].owner, NEW r, r = keeper[k].run
             PROVE  Inv'
    OBVIOUS
<1>0. KeeperKnows(k) /\ Types
    BY DEF Inv
<1>1. CASE Waiting(k)
  <2>1. keeper[k].at = "Waiting" /\ UNCHANGED <<owners, table, owner, kept, worker>>
        /\ (Moves(k, "Try") \/ Returns(k))
    BY <1>1 DEF Waiting, In
  <2>2. CASE Moves(k, "Try")
    BY <2>1, <2>2, TurnGoesOn DEF PastOwner, Turning, Turned
  <2>3. CASE Returns(k)
    BY <2>1, <2>3, TurnEnds
  <2>4. QED
    BY <2>1, <2>2, <2>3
<1>2. CASE Try(k)
  <2>1. /\ keeper[k].at = "Try" /\ UNCHANGED <<owners, table, kept, worker>>
        /\ \/ /\ owner[o].holder = Free /\ ~owner[o].retired
              /\ owner' = [owner EXCEPT ![o].holder = k] /\ Moves(k, "Held")
           \/ Returns(k) /\ UNCHANGED owner
    BY <1>2 DEF Try, In
  <2>2. CASE Returns(k) /\ UNCHANGED owner
    BY <2>1, <2>2, TurnEnds
  <2>3. CASE /\ owner[o].holder = Free /\ ~owner[o].retired
             /\ owner' = [owner EXCEPT ![o].holder = k] /\ Moves(k, "Held")
    <3>1. o \in OwnerId
      BY <1>0, <2>1 DEF KeeperKnows, PastOwner
    <3>2. owner'[o].holder = k
      BY <1>0, <2>3, <3>1 DEF Types
    <3>3. QED
      BY <2>1, <2>3, <3>2, TurnGoesOn DEF PastOwner, Turning, Turned
  <2>4. QED
    BY <2>1, <2>2, <2>3
<1>3. CASE Held(k)
  <2>1. /\ keeper[k].at = "Held" /\ UNCHANGED <<owners, table, kept, worker>>
        /\ \/ r \in DOMAIN owners.runs /\ Moves(k, "Work") /\ UNCHANGED owner
           \/ LetGo(k)
    BY <1>3 DEF Held, In, StillThere
  <2>2. owner[o].holder = k /\ ~owner[o].retired
    BY <1>0, <2>1 DEF KeeperKnows, Turning
  <2>3. CASE r \in DOMAIN owners.runs /\ Moves(k, "Work") /\ UNCHANGED owner
    BY <2>1, <2>2, <2>3, TurnGoesOn DEF PastOwner, Turning, Turned
  <2>4. CASE LetGo(k)
    BY <2>1, <2>4, LetGoKeeps DEF Turning
  <2>5. QED
    BY <2>1, <2>3, <2>4
<1>4. QED
    BY <1>1, <1>2, <1>3
(* A turn that ends the closing of a run, or drops its batch.              *)
LEMMA WorkLeaves ==
    ASSUME Inv, NEW k \in Keeper, keeper[k].at = "Work", LetGo(k), UNCHANGED <<owners, worker>>,
           kept' \subseteq kept,
           \/ UNCHANGED table
           \/ table' = [table EXCEPT !.closing = With(@, keeper[k].run, TRUE)]
    PROVE  Inv'
<1> SUFFICES ASSUME NEW o, o = keeper[k].owner, NEW r, r = keeper[k].run
             PROVE  Inv'
    OBVIOUS
<1>0. /\ Types /\ o \in OwnerId /\ owner[o].holder = k /\ Returns(k)
      /\ owner' = [owner EXCEPT ![o].holder = Free]
      /\ r \in DOMAIN owners.runs /\ owners.runs[r] = o
    BY DEF Inv, KeeperKnows, LetGo, Turning, PastOwner, Turned
<1>1. r \in table.entries /\ r \in Nat
  <2>1. r \in table.entries
    BY <1>0, RunIsThere DEF Thread
  <2>2. QED
    BY <1>0, <2>1 DEF Types
<1>2. /\ owner' \in OwnerRecords
      /\ \A p \in OwnerId : /\ owner'[p].runs = owner[p].runs
                            /\ owner'[p].retired = owner[p].retired
                            /\ owner[p].holder # k => owner'[p].holder = owner[p].holder
    BY <1>0, HolderChanges
<1>3. /\ keeper' \in [Keeper -> {AtRest} \cup Turn] /\ keeper'[k] = AtRest /\ keeper'[k].at = "Rest"
      /\ \A j \in Keeper : j # k => keeper'[j] = keeper[j]
    BY <1>0, KeeperReturns
<1>4. /\ table' \in [holder : {Free} \cup Thread, next : Nat, entries : SUBSET Nat,
                     closing : Maps(Nat, BOOLEAN), after : Nat, round : Nat]
      /\ table'.holder = table.holder /\ table'.next = table.next /\ table'.entries = table.entries
      /\ DOMAIN table'.closing \subseteq DOMAIN table.closing \cup {r}
  <2>1. CASE UNCHANGED table
    BY <1>0, <2>1 DEF Types
  <2>2. CASE table' = [table EXCEPT !.closing = With(@, r, TRUE)]
    <3>1. table.closing \in Maps(Nat, BOOLEAN)
      BY <1>0 DEF Types
    <3>2. /\ With(table.closing, r, TRUE) \in Maps(Nat, BOOLEAN)
          /\ DOMAIN With(table.closing, r, TRUE) = DOMAIN table.closing \cup {r}
      BY <1>1, <3>1, MarkIs
    <3>3. QED
      BY <1>0, <2>2, <3>1, <3>2 DEF Types
  <2>3. QED
    BY <2>1, <2>2
<1>5. Types'
    BY <1>0, <1>2, <1>3, <1>4 DEF Types, OwnerRecords
<1>6. ASSUME NEW y \in Thread, y # k PROVE Undisturbed(y)
  <2>1. \A p \in OwnerId : owner[p].holder = y =>
          owner'[p].holder = y /\ owner'[p].retired = owner[p].retired
    BY <1>2, <1>6
  <2>2. table.next \in Nat
    BY <1>0 DEF Types
  <2>3. QED
    BY <1>2, <1>4, <2>1, <2>2 DEF Undisturbed
<1>7. KeeperKnows(k)'
    BY <1>3, <1>4, KeeperAtRest
<1>8. (\A w \in Worker : WorkerKnows(w)') /\ (\A j \in Keeper : KeeperKnows(j)')
    BY <1>0, <1>3, <1>6, <1>7, OthersKnow, ThreadsDiffer DEF Inv, Thread
<1>9. TablesKnow'
    BY <1>1, <1>4 DEF Inv, TablesKnow
<1>10. Counted'
    BY <1>2 DEF Inv, Counted, RunsOwned
<1>11. QED
    BY <1>5, <1>8, <1>9, <1>10 DEF Inv

(* A run is driven or torn down.                                           *)
LEMMA WorkKeeps ==
    ASSUME Inv, NEW k \in Keeper, Work(k)
    PROVE  Inv'
<1> DEFINE r == keeper[k].run
<1>0. /\ keeper[k].at = "Work" /\ UNCHANGED <<owners, worker>>
      /\ \/ LetGo(k) /\ UNCHANGED <<table, kept>>
         \/ LetGo(k) /\ UNCHANGED kept /\ (\/ UNCHANGED table
                                           \/ table' = [table EXCEPT !.closing = With(@, r, TRUE)])
         \/ LetGo(k) /\ UNCHANGED table /\ kept' = kept \ {r}
         \/ Moves(k, "Reclaim") /\ r \notin kept /\ UNCHANGED <<table, kept, owner>>
    BY DEF Work, In
<1>1. CASE Moves(k, "Reclaim") /\ r \notin kept /\ UNCHANGED <<table, kept, owner>>
  <2>1. /\ owner[keeper[k].owner].holder = k /\ ~owner[keeper[k].owner].retired
        /\ r \in DOMAIN owners.runs
    BY <1>0 DEF Inv, KeeperKnows, Turning, Turned
  <2>2. QED
    BY <1>0, <1>1, <2>1, TurnGoesOn DEF PastOwner, Turning
<1>2. CASE LetGo(k)
  <2>1. kept' \subseteq kept
    BY <1>0
  <2>2. UNCHANGED table \/ table' = [table EXCEPT !.closing = With(@, r, TRUE)]
    BY <1>0
  <2>3. QED
    BY <1>0, <1>2, <2>1, <2>2, WorkLeaves
<1>3. QED
    BY <1>0, <1>1, <1>2

(* An entry leaves a table of flags.                                       *)
LEMMA ClosingWithout ==
    ASSUME NEW f \in Maps(Nat, BOOLEAN), NEW r
    PROVE  Without(f, r) \in Maps(Nat, BOOLEAN) /\ DOMAIN Without(f, r) = DOMAIN f \ {r}
<1>1. PICK D \in SUBSET Nat : f \in [D -> BOOLEAN]
    BY DEF Maps
<1>2. Without(f, r) \in [D \ {r} -> BOOLEAN] /\ D \ {r} \in SUBSET Nat
    BY <1>1 DEF Without
<1>3. QED
    BY <1>1, <1>2 DEF Without, Maps

(* A run is withdrawn from the table.                                      *)
LEMMA WithdrawKeeps ==
    ASSUME Inv, NEW k \in Keeper, Withdraw(k)
    PROVE  Inv'
<1> SUFFICES ASSUME NEW o, o = keeper[k].owner, NEW r, r = keeper[k].run
             PROVE  Inv'
    OBVIOUS
<1>0. /\ Types /\ KeeperKnows(k) /\ keeper[k].at = "Reclaim" /\ keeper[k] # AtRest
      /\ o \in OwnerId /\ owner[o].holder = k /\ ~owner[o].retired
      /\ (o \in owners.entries \/ owner[o].retired)
      /\ r \in DOMAIN owners.runs /\ owners.runs[r] = o /\ r \notin kept
      /\ table.holder = Free /\ table.entries = DOMAIN owners.runs
      /\ table' = [table EXCEPT !.holder = k, !.entries = @ \ {r}, !.closing = Without(@, r)]
      /\ Moves(k, "Reclaimed") /\ UNCHANGED <<owners, owner, kept, worker>>
    BY DEF Inv, KeeperKnows, Withdraw, In, AtRest, Turning, PastOwner, Turned, TablesKnow
<1>1. /\ keeper' \in [Keeper -> {AtRest} \cup Turn] /\ keeper'[k] # AtRest
      /\ keeper'[k].at = "Reclaimed" /\ keeper'[k].owner = o /\ keeper'[k].run = r
      /\ \A j \in Keeper : j # k => keeper'[j] = keeper[j]
    BY <1>0, KeeperMoves DEF PastOwner, Turning
<1>2. /\ table' \in [holder : {Free} \cup Thread, next : Nat, entries : SUBSET Nat,
                     closing : Maps(Nat, BOOLEAN), after : Nat, round : Nat]
      /\ table'.holder = k /\ table'.next = table.next /\ table'.entries = table.entries \ {r}
      /\ DOMAIN table'.closing = DOMAIN table.closing \ {r}
  <2>1. table.closing \in Maps(Nat, BOOLEAN) /\ k \in {Free} \cup Thread
    BY <1>0 DEF Types, Thread
  <2>2. Without(table.closing, r) \in Maps(Nat, BOOLEAN)
        /\ DOMAIN Without(table.closing, r) = DOMAIN table.closing \ {r}
    BY <2>1, ClosingWithout
  <2>3. QED
    BY <1>0, <2>1, <2>2 DEF Types
<1>3. Types'
    BY <1>0, <1>1, <1>2 DEF Types
<1>4. ASSUME NEW y \in Thread, y # k PROVE Undisturbed(y)
  <2>1. table.next \in Nat /\ table.holder # y /\ table'.holder # y
    BY <1>0, <1>2, <1>4, ThreadsDiffer DEF Types, Thread
  <2>2. QED
    BY <1>0, <1>2, <2>1 DEF Undisturbed
<1>5. KeeperKnows(k)'
    BY <1>0, <1>1, <1>2 DEF KeeperKnows, At
<1>6. (\A w \in Worker : WorkerKnows(w)') /\ (\A j \in Keeper : KeeperKnows(j)')
    BY <1>0, <1>1, <1>4, <1>5, OthersKnow, ThreadsDiffer DEF Inv, Thread
<1>7. TablesKnow'
  <2>1. table'.holder # Free
    BY <1>2, ThreadsDiffer
  <2>2. QED
    BY <1>0, <1>2, <2>1 DEF Inv, TablesKnow
<1>8. Counted'
    BY <1>0 DEF Inv, Counted, RunsOwned
<1>9. QED
    BY <1>3, <1>6, <1>7, <1>8 DEF Inv

(* It is reclaimed, and its owner counts one less.                         *)
LEMMA ReclaimedKeeps ==
    ASSUME Inv, NEW k \in Keeper, Reclaimed(k)
    PROVE  Inv'
<1> SUFFICES ASSUME NEW o, o = keeper[k].owner, NEW r, r = keeper[k].run
             PROVE  Inv'
    OBVIOUS
<1>0. /\ Types /\ keeper[k].at = "Reclaimed"
      /\ o \in OwnerId /\ owner[o].holder = k /\ ~owner[o].retired
      /\ owners.runs[r] = o /\ r \notin table.entries
      /\ table.holder = k /\ DOMAIN owners.runs = table.entries \cup {r}
      /\ owners' = [owners EXCEPT !.runs = Without(@, r)]
      /\ owner' = [owner EXCEPT ![o].holder = Free, ![o].runs = @ - 1]
      /\ table' = [table EXCEPT !.holder = Free]
      /\ Returns(k) /\ UNCHANGED <<kept, worker>>
    BY DEF Inv, KeeperKnows, Reclaimed, In, Turning, PastOwner, Turned
<1>1. /\ owners' \in [holder : {Free} \cup Thread, admitted : Nat, entries : SUBSET OwnerId,
                      runs : Maps(Nat, OwnerId)]
      /\ owners'.entries = owners.entries
      /\ DOMAIN owners'.runs = DOMAIN owners.runs \ {r}
      /\ \A q \in DOMAIN owners.runs : q # r => owners'.runs[q] = owners.runs[q]
  <2>1. PICK D \in SUBSET Nat : owners.runs \in [D -> OwnerId]
    BY <1>0 DEF Types, Maps
  <2>2. Without(owners.runs, r) \in [D \ {r} -> OwnerId] /\ D \ {r} \in SUBSET Nat
    BY <2>1 DEF Without
  <2>3. Without(owners.runs, r) \in Maps(Nat, OwnerId)
    BY <2>2 DEF Maps
  <2>4. /\ DOMAIN Without(owners.runs, r) = DOMAIN owners.runs \ {r}
        /\ \A q \in DOMAIN owners.runs : q # r => Without(owners.runs, r)[q] = owners.runs[q]
    BY DEF Without
  <2>5. /\ owners' \in [holder : {Free} \cup Thread, admitted : Nat, entries : SUBSET OwnerId,
                      runs : Maps(Nat, OwnerId)]
        /\ owners'.entries = owners.entries /\ owners'.runs = Without(owners.runs, r)
    BY <1>0, <2>3 DEF Types
  <2>6. QED
    BY <2>4, <2>5
<1>2. Counted' /\ owner[o].runs - 1 \in Nat
  <2>1. ASSUME NEW p \in OwnerId, p # o PROVE RunsOwned(p)' = RunsOwned(p)
    BY <1>0, <1>1, <2>1 DEF RunsOwned
  <2>2. RunsOwned(o)' = RunsOwned(o) \ {r} /\ r \in RunsOwned(o)
    BY <1>0, <1>1 DEF RunsOwned
  <2>3. /\ Cardinality(RunsOwned(o) \ {r}) = Cardinality(RunsOwned(o)) - 1
        /\ Cardinality(RunsOwned(o) \ {r}) \in Nat
    <3>1. IsFiniteSet(RunsOwned(o))
      BY RunsOwnedFinite DEF Inv
    <3>2. IsFiniteSet(RunsOwned(o) \ {r})
      BY <3>1, FS_Subset
    <3>3. QED
      BY <2>2, <3>1, <3>2, FS_RemoveElement, FS_CardinalityType
  <2>4. ASSUME NEW p \in OwnerId
        PROVE  owner'[p].runs = Cardinality(RunsOwned(p)') /\ (owner'[p].retired => owner'[p].runs = 0)
    <3>1. owner[p].runs = Cardinality(RunsOwned(p)) /\ (owner[p].retired => owner[p].runs = 0)
      BY DEF Inv, Counted
    <3>2. CASE p = o
      <4>1. owner'[p].runs = owner[p].runs - 1 /\ owner'[p].retired = owner[p].retired
        BY <1>0, <3>2 DEF Types
      <4>2. QED
        BY <1>0, <2>2, <2>3, <3>1, <3>2, <4>1
    <3>3. CASE p # o
      <4>1. owner'[p] = owner[p]
        BY <1>0, <3>3 DEF Types
      <4>2. QED
        BY <2>1, <3>1, <3>3, <4>1
    <3>4. QED
      BY <3>2, <3>3
  <2>5. owner[o].runs = Cardinality(RunsOwned(o))
    BY <1>0 DEF Inv, Counted
  <2>6. QED
    BY <2>3, <2>4, <2>5 DEF Counted
<1>3. /\ owner' \in OwnerRecords
      /\ \A p \in OwnerId : owner'[p].retired = owner[p].retired
      /\ \A p \in OwnerId : p # o => owner'[p] = owner[p]
    BY <1>0, <1>2 DEF Types, OwnerRecords
<1>4. /\ keeper' \in [Keeper -> {AtRest} \cup Turn] /\ keeper'[k] = AtRest /\ keeper'[k].at = "Rest"
      /\ \A j \in Keeper : j # k => keeper'[j] = keeper[j]
    BY <1>0, KeeperReturns
<1>5. /\ table' \in [holder : {Free} \cup Thread, next : Nat, entries : SUBSET Nat,
                     closing : Maps(Nat, BOOLEAN), after : Nat, round : Nat]
      /\ table'.holder = Free /\ table'.next = table.next /\ table'.entries = table.entries
      /\ table'.closing = table.closing
    BY <1>0 DEF Types
<1>6. Types'
    BY <1>0, <1>1, <1>3, <1>4, <1>5 DEF Types, OwnerRecords
<1>7. ASSUME NEW y \in Thread, y # k PROVE Undisturbed(y)
  <2>1. \A p \in OwnerId : owner[p].holder = y =>
          owner'[p].holder = y /\ owner'[p].retired = owner[p].retired
    BY <1>0, <1>3, <1>7
  <2>2. table.next \in Nat /\ table.holder # y /\ table'.holder # y
    BY <1>0, <1>5, <1>7, ThreadsDiffer DEF Types, Thread
  <2>3. \A q \in DOMAIN owners.runs : owner[owners.runs[q]].holder = y => q # r
    BY <1>0, <1>7
  <2>4. \A q \in DOMAIN owners.runs : owner[owners.runs[q]].holder = y =>
          /\ q \in DOMAIN owners'.runs /\ owners'.runs[q] = owners.runs[q]
          /\ q \in kept' => q \in kept
    BY <1>0, <1>1, <2>3
  <2>5. \A q \in DOMAIN owners'.runs : q \in DOMAIN owners.runs /\ owners'.runs[q] = owners.runs[q]
    BY <1>1
  <2>6. /\ \A p \in OwnerId : owner[p].retired => owner'[p].retired
        /\ \A p \in owners.entries : p \in owners'.entries \/ owner'[p].retired
        /\ \A w \in Worker : worker'[w] = worker[w]
    BY <1>0, <1>1, <1>3
  <2>7. /\ table'.holder = y <=> table.holder = y
        /\ table'.next \in Nat /\ table.next <= table'.next
    BY <1>5, <2>2
  <2>8. QED
    BY <2>1, <2>2, <2>4, <2>5, <2>6, <2>7 DEF Undisturbed
<1>8. KeeperKnows(k)'
  <2>1. "Rest" \notin PastOwner /\ table'.holder # k
    BY <1>5, ThreadsDiffer DEF PastOwner, Turning
  <2>2. QED
    BY <1>4, <2>1, PlacesNest DEF KeeperKnows
<1>9. (\A w \in Worker : WorkerKnows(w)') /\ (\A j \in Keeper : KeeperKnows(j)')
    BY <1>0, <1>4, <1>7, <1>8, OthersKnow, ThreadsDiffer DEF Inv, Thread
<1>10. TablesKnow'
  <2>1. DOMAIN owners'.runs = table'.entries
    BY <1>0, <1>1, <1>5
  <2>2. TablesKnow
    BY DEF Inv
  <2>3. QED
    BY <1>0, <1>5, <2>1, <2>2 DEF TablesKnow
<1>11. QED
    BY <1>2, <1>6, <1>9, <1>10 DEF Inv

-----------------------------------------------------------------------------
(* Empty tables agree.                                                     *)
LEMMA InitInv == MaintenanceInit => Inv
<1> SUFFICES ASSUME MaintenanceInit PROVE Inv
    OBVIOUS
<1>1. <<>> \in Maps(Nat, OwnerId) /\ <<>> \in Maps(Nat, BOOLEAN) /\ DOMAIN <<>> = {}
  <2>1. <<>> \in [{} -> OwnerId] /\ <<>> \in [{} -> BOOLEAN] /\ {} \in SUBSET Nat
    OBVIOUS
  <2>2. QED
    BY <2>1 DEF Maps
<1>2. Types
    BY <1>1 DEF MaintenanceInit, Types, Thread
<1>3. TablesKnow
    BY <1>1 DEF MaintenanceInit, TablesKnow
<1>4. Counted
  <2>1. \A o : RunsOwned(o) = {}
    BY <1>1 DEF MaintenanceInit, RunsOwned
  <2>2. QED
    BY <2>1, FS_EmptySet DEF MaintenanceInit, Counted
<1>5. ASSUME NEW w \in Worker PROVE WorkerKnows(w)
    BY ThreadsDiffer DEF MaintenanceInit, WorkerKnows, AtRest, PastLookup, Having, Serving, OfRun
<1>6. ASSUME NEW k \in Keeper PROVE KeeperKnows(k)
    BY ThreadsDiffer DEF MaintenanceInit, KeeperKnows, AtRest, PastOwner, Turning, Turned
<1>7. QED
    BY <1>2, <1>3, <1>4, <1>5, <1>6 DEF Inv

(* Every step keeps the invariant.                                         *)
LEMMA NextInv == Inv /\ [MaintenanceNext]_threadVars => Inv'
<1> SUFFICES ASSUME Inv, [MaintenanceNext]_threadVars PROVE Inv'
    OBVIOUS
<1>1. ASSUME NEW w \in Worker, WorkerStep(w) PROVE Inv'
    BY <1>1, LookupKeeps, AdmissionKeeps, WaitKeeps, EntitledKeeps, FenceKeeps, RetiredKeeps,
       InsertKeeps, StartedKeeps, MappedKeeps, FindLockRecheckKeep, EffectKeeps DEF WorkerStep
<1>2. ASSUME NEW k \in Keeper, KeeperStep(k) PROVE Inv'
    BY <1>2, PickKeeps, OwnerOfKeeps, WaitingTryHeldKeep, WorkKeeps, WithdrawKeeps, ReclaimedKeeps
       DEF KeeperStep
<1>3. CASE UNCHANGED threadVars
    BY <1>3 DEF threadVars, Inv, Types, TablesKnow, Counted, RunsOwned, WorkerKnows, KeeperKnows, At
<1>4. QED
    BY <1>1, <1>2, <1>3, AskKeeps DEF MaintenanceNext

(* The invariant says what TablesAgree does.                               *)
LEMMA InvAgree == Inv => TablesAgree
<1> SUFFICES ASSUME Inv PROVE TablesAgree
    OBVIOUS
<1>0. Types
    BY DEF Inv
<1>1. ASSUME NEW w \in Worker PROVE OnRun(worker[w].at, worker[w].owner, worker[w].run)
  <2>1. WorkerKnows(w) /\ worker[w].at # "Work"
    BY <1>0, ThreadAts DEF Inv, PastLookup, Having, Serving
  <2>2. SUFFICES ASSUME worker[w].at = "Effect"
                 PROVE  OnRun("Effect", worker[w].owner, worker[w].run)
    BY <2>1 DEF OnRun
  <2>3. /\ worker[w].run \in DOMAIN owners.runs /\ owners.runs[worker[w].run] = worker[w].owner
        /\ owner[worker[w].owner].holder = w /\ ~owner[worker[w].owner].retired
        /\ worker[w].owner \in owners.entries
    BY <2>1, <2>2 DEF WorkerKnows, OfRun, Serving, Having, PastLookup
  <2>4. worker[w].run \in table.entries
    BY <2>3, RunIsThere, ThreadsDiffer DEF Thread
  <2>5. QED
    BY <2>3, <2>4 DEF OnRun
<1>2. ASSUME NEW k \in Keeper PROVE OnRun(keeper[k].at, keeper[k].owner, keeper[k].run)
  <2>1. KeeperKnows(k) /\ keeper[k].at # "Effect"
    BY <1>0, ThreadAts DEF Inv, PastOwner, Turning
  <2>2. SUFFICES ASSUME keeper[k].at = "Work"
                 PROVE  OnRun("Work", keeper[k].owner, keeper[k].run)
    BY <2>1 DEF OnRun
  <2>3. /\ keeper[k].run \in DOMAIN owners.runs /\ owners.runs[keeper[k].run] = keeper[k].owner
        /\ owner[keeper[k].owner].holder = k /\ ~owner[keeper[k].owner].retired
        /\ keeper[k].owner \in owners.entries
    BY <2>1, <2>2 DEF KeeperKnows, Turned, Turning, PastOwner
  <2>4. keeper[k].run \in table.entries
    BY <2>2, <2>3, RunIsThere DEF Thread
  <2>5. QED
    BY <2>3, <2>4 DEF OnRun
<1>3. QED
    BY <1>1, <1>2 DEF Inv, TablesKnow, Counted, RunsOwned, TablesAgree

(* No thread works on a run that was reclaimed or for an owner that        *)
(* retired, and the tables agree, in every behaviour of the threads.       *)
THEOREM TablesAlwaysAgree == MaintenanceSpec => []TablesAgree
<1>1. QED
    BY InitInv, NextInv, InvAgree, PTL DEF MaintenanceSpec

-----------------------------------------------------------------------------
(* The way of the answers of a run into the store of the browser: places   *)
(* in the events of the engine.                                            *)

(* How many events of a kind are among the first k, and how many parts of  *)
(* an alternative.                                                         *)
CountTo(events, k, kind) == Cardinality({i \in 1 .. k : events[i].kind = kind})
PartsTo(events, k, a) == Cardinality({i \in 1 .. k : events[i] = Event("part", a)})

Begins(events, k) == CountTo(events, k, "begin")
Ends(events, k) == CountTo(events, k, "end")

(* The alternative under way after k events.                               *)
CurrentAt(events, k) ==
    IF Begins(events, k) = Ends(events, k) THEN Nothing
    ELSE [number |-> Ends(events, k) + 1, alternative |-> Ends(events, k) + 1,
          parts |-> PartsTo(events, k, Ends(events, k) + 1)]

(* The events of the engine.                                               *)
Events == [kind : {"begin", "part", "end"}, alternative : Nat]

-----------------------------------------------------------------------------
(* Counting.                                                               *)

(* The members of a set up to a number are finitely many; one more number  *)
(* adds one or none.                                                       *)
Below(T, k) == {i \in 1 .. k : i \in T}

LEMMA UpTo ==
    ASSUME NEW T, NEW k \in Nat
    PROVE  /\ IsFiniteSet(Below(T, k))
           /\ Cardinality(Below(T, k)) \in Nat
           /\ Cardinality(Below(T, k + 1)) = Cardinality(Below(T, k)) + (IF k + 1 \in T THEN 1 ELSE 0)
           /\ Cardinality(Below(T, 0)) = 0
<1>1. IsFiniteSet(Below(T, k))
  <2>1. IsFiniteSet(1 .. k)
      BY FS_Interval
  <2>2. Below(T, k) \subseteq 1 .. k
      BY DEF Below
  <2>3. QED
      BY <2>1, <2>2, FS_Subset
<1>2. Cardinality(Below(T, k)) \in Nat
    BY <1>1, FS_CardinalityType
<1>3. Cardinality(Below(T, k + 1)) = Cardinality(Below(T, k)) + (IF k + 1 \in T THEN 1 ELSE 0)
  <2>1. CASE k + 1 \in T
    <3>1. Below(T, k + 1) = Below(T, k) \cup {k + 1} /\ k + 1 \notin Below(T, k)
        BY <2>1 DEF Below
    <3>2. Cardinality(Below(T, k) \cup {k + 1}) = Cardinality(Below(T, k)) + 1
        BY <1>1, <3>1, FS_AddElement
    <3>3. QED
        BY <2>1, <3>1, <3>2
  <2>2. CASE k + 1 \notin T
    <3>1. Below(T, k + 1) = Below(T, k)
        BY <2>2 DEF Below
    <3>2. QED
        BY <2>2, <3>1, <1>2
  <2>3. QED
      BY <2>1, <2>2
<1>4. Below(T, 0) = {}
    BY DEF Below
<1>5. Cardinality(Below(T, 0)) = 0
    BY <1>4, FS_EmptySet
<1>6. QED
    BY <1>1, <1>2, <1>3, <1>5

(* The counts of events are numbers, and grow by one with an event of      *)
(* their kind.                                                             *)
LEMMA CountNext ==
    ASSUME NEW events, NEW k \in Nat, NEW kind
    PROVE  /\ CountTo(events, k, kind) \in Nat
           /\ CountTo(events, 0, kind) = 0
           /\ CountTo(events, k + 1, kind)
                = CountTo(events, k, kind) + (IF events[k + 1].kind = kind THEN 1 ELSE 0)
<1> DEFINE T == {i \in Nat : events[i].kind = kind}
<1>1. ASSUME NEW n \in Nat
      PROVE  CountTo(events, n, kind) = Cardinality(Below(T, n))
  <2>1. {i \in 1 .. n : events[i].kind = kind} = Below(T, n)
      BY DEF Below
  <2>2. QED
      BY <2>1 DEF CountTo
<1>2. k + 1 \in T <=> events[k + 1].kind = kind
    OBVIOUS
<1> HIDE DEF T
<1>3. /\ Cardinality(Below(T, k)) \in Nat
      /\ Cardinality(Below(T, k + 1)) = Cardinality(Below(T, k)) + (IF k + 1 \in T THEN 1 ELSE 0)
      /\ Cardinality(Below(T, 0)) = 0
    BY UpTo
<1>4. QED
    BY <1>1, <1>2, <1>3

(* The same of the parts of an alternative.                                *)
LEMMA PartsNext ==
    ASSUME NEW events, NEW k \in Nat, NEW a
    PROVE  /\ PartsTo(events, k, a) \in Nat
           /\ PartsTo(events, 0, a) = 0
           /\ PartsTo(events, k + 1, a)
                = PartsTo(events, k, a) + (IF events[k + 1] = Event("part", a) THEN 1 ELSE 0)
<1> DEFINE T == {i \in Nat : events[i] = Event("part", a)}
<1>1. ASSUME NEW n \in Nat
      PROVE  PartsTo(events, n, a) = Cardinality(Below(T, n))
  <2>1. {i \in 1 .. n : events[i] = Event("part", a)} = Below(T, n)
      BY DEF Below
  <2>2. QED
      BY <2>1 DEF PartsTo
<1>2. k + 1 \in T <=> events[k + 1] = Event("part", a)
    OBVIOUS
<1> HIDE DEF T
<1>3. /\ Cardinality(Below(T, k)) \in Nat
      /\ Cardinality(Below(T, k + 1)) = Cardinality(Below(T, k)) + (IF k + 1 \in T THEN 1 ELSE 0)
      /\ Cardinality(Below(T, 0)) = 0
    BY UpTo
<1>4. QED
    BY <1>1, <1>2, <1>3

(* Counts of the first events are counts of the events before one more.    *)
LEMMA CountsOfPrefix ==
    ASSUME NEW events \in Seq(Events), NEW e \in Events, NEW k \in 0 .. Len(events)
    PROVE  /\ \A kind : CountTo(Append(events, e), k, kind) = CountTo(events, k, kind)
           /\ \A a : PartsTo(Append(events, e), k, a) = PartsTo(events, k, a)
<1>1. \A i \in 1 .. k : Append(events, e)[i] = events[i]
  <2>1. \A i \in 1 .. Len(events) : Append(events, e)[i] = events[i]
      BY AppendProperties
  <2>2. QED
      BY <2>1, LenProperties
<1>2. ASSUME NEW kind
      PROVE  CountTo(Append(events, e), k, kind) = CountTo(events, k, kind)
  <2>1. {i \in 1 .. k : Append(events, e)[i].kind = kind} = {i \in 1 .. k : events[i].kind = kind}
      BY <1>1
  <2>2. QED
      BY <2>1 DEF CountTo
<1>3. ASSUME NEW a
      PROVE  PartsTo(Append(events, e), k, a) = PartsTo(events, k, a)
  <2>1. {i \in 1 .. k : Append(events, e)[i] = Event("part", a)}
          = {i \in 1 .. k : events[i] = Event("part", a)}
      BY <1>1
  <2>2. QED
      BY <2>1 DEF PartsTo
<1>4. QED
    BY <1>2, <1>3

(* Counts grow.                                                            *)
LEMMA CountsGrow ==
    ASSUME NEW events, NEW kind, NEW j \in Nat, NEW k \in Nat, j <= k
    PROVE  CountTo(events, j, kind) <= CountTo(events, k, kind)
<1> DEFINE M(n) == {i \in 1 .. n : events[i].kind = kind}
<1>1. M(j) \subseteq M(k)
    OBVIOUS
<1>2. IsFiniteSet(M(k))
  <2>1. IsFiniteSet(1 .. k)
      BY FS_Interval
  <2>2. M(k) \subseteq 1 .. k
      OBVIOUS
  <2>3. QED
      BY <2>1, <2>2, FS_Subset
<1>3. Cardinality(M(j)) <= Cardinality(M(k))
  <2> HIDE DEF M
  <2> QED
    BY <1>1, <1>2, FS_Subset
<1>4. QED
    BY <1>3 DEF CountTo

(* Where no event of a kind lies between, the counts are the same.         *)
LEMMA NoneBetween ==
    ASSUME NEW events, NEW kind, NEW j \in Nat, NEW k \in Nat, j <= k,
           \A i \in j + 1 .. k : events[i].kind # kind
    PROVE  CountTo(events, j, kind) = CountTo(events, k, kind)
<1>1. {i \in 1 .. j : events[i].kind = kind} = {i \in 1 .. k : events[i].kind = kind}
    OBVIOUS
<1>2. QED
    BY <1>1 DEF CountTo

(* Complete, Begun and PartsSoFar are the counts of all events.            *)
LEMMA AllCounted ==
    ASSUME NEW events \in Seq(Events)
    PROVE  /\ \A kind : Alternatives(events, kind) = CountTo(events, Len(events), kind)
           /\ \A a : PartsSoFar(events, a) = PartsTo(events, Len(events), a)
<1>1. DOMAIN events = 1 .. Len(events)
    BY LenProperties
<1>2. QED
    BY <1>1 DEF Alternatives, CountTo, PartsSoFar, PartsTo

-----------------------------------------------------------------------------
(* Streams.                                                                *)

(* Induction over the numbers, as a fact about sets.                       *)
LEMMA Inductive ==
    ASSUME NEW S \in SUBSET Nat, 0 \in S, \A n \in S : n + 1 \in S
    PROVE  S = Nat
<1>1. SUFFICES ASSUME Nat \ S # {} PROVE FALSE
    OBVIOUS
<1>2. PICK k \in Nat \ S : \A j \in Nat \ S : k <= j
    BY <1>1, LeastNatural
<1>3. k - 1 \in Nat /\ k - 1 \in S
    BY <1>2
<1>4. QED
    BY <1>2, <1>3

(* The streams after the events from index to n.                           *)
AreStreams(f, t, events, index, n) ==
    f = [k \in index .. n |-> IF k = index THEN t ELSE Push(f[k - 1], events[k])]

(* There are such streams.                                                 *)
LEMMA StreamsExist ==
    ASSUME NEW t, NEW events, NEW index \in Nat, NEW m \in Nat, index <= m
    PROVE  \E f : AreStreams(f, t, events, index, m)
<1> DEFINE S == {d \in Nat : \E f : AreStreams(f, t, events, index, index + d)}
<1>1. 0 \in S
  <2> DEFINE g == [k \in index .. index + 0 |-> t]
  <2>1. g = [k \in index .. index + 0 |-> IF k = index THEN t ELSE Push(g[k - 1], events[k])]
      OBVIOUS
  <2>2. AreStreams(g, t, events, index, index + 0)
      BY <2>1 DEF AreStreams
  <2>3. QED
      BY <2>2
<1>2. ASSUME NEW d \in S PROVE d + 1 \in S
  <2>1. PICK f : AreStreams(f, t, events, index, index + d)
      OBVIOUS
  <2> DEFINE g == [k \in index .. index + (d + 1) |->
                      IF k = index + (d + 1) THEN Push(f[k - 1], events[k]) ELSE f[k]]
  <2>2. ASSUME NEW k \in index .. index + (d + 1)
        PROVE  g[k] = IF k = index THEN t ELSE Push(g[k - 1], events[k])
    <3>1. CASE k = index + (d + 1)
      <4>1. k # index /\ k - 1 \in index .. index + (d + 1) /\ k - 1 # index + (d + 1)
          BY <3>1
      <4>2. g[k] = Push(f[k - 1], events[k]) /\ g[k - 1] = f[k - 1]
          BY <3>1, <4>1
      <4>3. QED
          BY <4>1, <4>2
    <3>2. CASE k # index + (d + 1)
      <4>1. k \in index .. index + d
            /\ (k # index => /\ k - 1 \in index .. index + (d + 1)
                             /\ k - 1 # index + (d + 1))
          BY <3>2
      <4>2. g[k] = f[k] /\ (k # index => g[k - 1] = f[k - 1])
          BY <3>2, <4>1
      <4>3. f[k] = IF k = index THEN t ELSE Push(f[k - 1], events[k])
          BY <2>1, <4>1 DEF AreStreams
      <4>4. QED
          BY <4>2, <4>3
    <3>3. QED
        BY <3>1, <3>2
  <2> DEFINE D == index .. index + (d + 1)
             h == [k \in D |-> IF k = index THEN t ELSE Push(g[k - 1], events[k])]
  <2>3. g = h
    <3>1. \A k \in D : g[k] = h[k]
        BY <2>2
    <3> DEFINE V == {g[k] : k \in D}
    <3>2. g \in [D -> V]
        OBVIOUS
    <3>3. h \in [D -> V]
      <4>1. h = [k \in D |-> h[k]]
          OBVIOUS
      <4> HIDE DEF g, h, D
      <4> QED
        BY <3>1, <4>1
    <3> HIDE DEF g, h, D, V
    <3> QED
      BY <3>1, <3>2, <3>3
  <2>4. g = [k \in D |-> IF k = index THEN t ELSE Push(g[k - 1], events[k])]
    <3> HIDE DEF g, D
    <3> QED
      BY <2>3
  <2>5. AreStreams(g, t, events, index, index + (d + 1))
    <3> HIDE DEF g
    <3> QED
      BY <2>4 DEF AreStreams, D
  <2>6. QED
    <3> HIDE DEF g
    <3> QED
      BY <2>5
<1>3. S = Nat
  <2> HIDE DEF S
  <2>1. S \in SUBSET Nat
      BY DEF S
  <2>2. QED
      BY <1>1, <1>2, <2>1, Inductive
<1>4. m - index \in Nat /\ index + (m - index) = m
    OBVIOUS
<1>5. m - index \in S
  <2> HIDE DEF S
  <2> QED
    BY <1>3, <1>4
<1>6. QED
    BY <1>4, <1>5

(* Each event makes of the stream before it the stream after it.           *)
LEMMA StreamsAre ==
    ASSUME NEW t, NEW events, NEW index \in Nat, Len(events) \in Nat, index <= Len(events)
    PROVE  /\ Streams(t, events, index)[index] = t
           /\ \A k \in index + 1 .. Len(events) :
                 Streams(t, events, index)[k] = Push(Streams(t, events, index)[k - 1], events[k])
<1> DEFINE f == Streams(t, events, index)
<1>1. \E g : AreStreams(g, t, events, index, Len(events))
    BY StreamsExist
<1>2. \E g : g = [k \in index .. Len(events) |->
                     IF k = index THEN t ELSE Push(g[k - 1], events[k])]
    BY <1>1 DEF AreStreams
<1>3. f = [k \in index .. Len(events) |-> IF k = index THEN t ELSE Push(f[k - 1], events[k])]
    BY <1>2 DEF Streams
<1>4. \A k \in index .. Len(events) : f[k] = IF k = index THEN t ELSE Push(f[k - 1], events[k])
  <2> HIDE DEF f
  <2> QED
    BY <1>3
<1>5. QED
    BY <1>4

-----------------------------------------------------------------------------
(* The events are one alternative after the other.                         *)

(* The engine brings out one alternative after the other, each with its    *)
(* parts; the parts of an alternative that is over are no more to change.  *)
NextEvents(events, k) ==
    IF Begins(events, k) = Ends(events, k)
    THEN {Event("begin", Ends(events, k) + 1)}
    ELSE {Event("part", Ends(events, k) + 1), Event("end", Ends(events, k) + 1)}

OneByOne(events) ==
    /\ \A k \in 0 .. Len(events) : Begins(events, k) \in {Ends(events, k), Ends(events, k) + 1}
    /\ \A k \in 1 .. Len(events) : events[k] \in NextEvents(events, k - 1)
    /\ \A k \in 0 .. Len(events) : \A a \in Nat :
          /\ a > Begins(events, k) => PartsTo(events, k, a) = 0
          /\ a <= Ends(events, k) => PartsTo(events, k, a) = PartsTo(events, Len(events), a)

(* What the server, a stream and its writes are.                           *)
Batches == [sequence : Nat, events : Seq(Events), drained : BOOLEAN, done : BOOLEAN,
            canceled : BOOLEAN, error : BOOLEAN]

Servers == [emitted : Seq(Events), ended : BOOLEAN, canceled : BOOLEAN, error : BOOLEAN,
            closing : BOOLEAN, gone : BOOLEAN, file : Seq(Events), read : Nat, batch : Batches]

Currents == [number : Nat, alternative : Nat, parts : Nat] \cup {Nothing}

PartRecords == [store : {"parts"}, number : Nat, slot : Nat, alternative : Nat]
AnswerRecords == [store : {"answers"}, number : Nat, slot : {0}, size : Nat, alternative : Nat]

StreamRecords == [total : Nat, current : Currents, refuted : BOOLEAN,
                  writes : SUBSET (PartRecords \cup AnswerRecords)]

(* The records of the first alternatives and of the one under way.         *)
PartsUpTo(total, current) ==
    (UNION {PartsOf(n, PartsSoFar(server.emitted, n)) : n \in 1 .. total}) \cup
    (IF current = Nothing THEN {} ELSE PartsOf(total + 1, current.parts))
AnswersUpTo(total) == {AnswerOf(n) : n \in 1 .. total}

Of(writes, store) == {w \in writes : w.store = store}

(* With what is to be written, the shelf has all of the stream.            *)
Written(t) ==
    /\ shelf.parts \cup Of(t.writes, "parts") = PartsUpTo(t.total, t.current)
    /\ shelf.answers \cup Of(t.writes, "answers") = AnswersUpTo(t.total)

(* A stream is what the first k events make of it.                         *)
Exact(t, k) ==
    /\ t \in StreamRecords
    /\ ~t.refuted
    /\ t.total = Ends(server.emitted, k)
    /\ t.current = CurrentAt(server.emitted, k)
    /\ Written(t)

-----------------------------------------------------------------------------
(* One more event.                                                         *)
LEMMA OneMore ==
    ASSUME NEW events \in Seq(Events), OneByOne(events),
           NEW e \in NextEvents(events, Len(events))
    PROVE  e \in Events /\ OneByOne(Append(events, e))
<1> DEFINE n == Len(events)
           more == Append(events, e)
<1>1. n \in Nat /\ Ends(events, n) \in Nat /\ Begins(events, n) \in Nat
    BY LenProperties, CountNext DEF Begins, Ends
<1>2. e \in Events
    BY <1>1 DEF NextEvents, Event, Events
<1>3. Len(more) = n + 1 /\ more[n + 1] = e /\ (\A i \in 1 .. n : more[i] = events[i])
    BY <1>2, AppendProperties
<1>4. ASSUME NEW k \in 0 .. n
      PROVE  /\ Begins(more, k) = Begins(events, k) /\ Ends(more, k) = Ends(events, k)
             /\ \A a : PartsTo(more, k, a) = PartsTo(events, k, a)
    BY <1>2, CountsOfPrefix DEF Begins, Ends
<1>5. /\ Begins(more, n + 1) = Begins(more, n) + (IF e.kind = "begin" THEN 1 ELSE 0)
      /\ Ends(more, n + 1) = Ends(more, n) + (IF e.kind = "end" THEN 1 ELSE 0)
      /\ \A a : PartsTo(more, n + 1, a)
                  = PartsTo(more, n, a) + (IF e = Event("part", a) THEN 1 ELSE 0)
  <2>1. \A kind : CountTo(more, n + 1, kind)
                     = CountTo(more, n, kind) + (IF more[n + 1].kind = kind THEN 1 ELSE 0)
    <3> HIDE DEF more, n
    <3> QED
      BY <1>1, CountNext
  <2>2. \A a : PartsTo(more, n + 1, a)
                  = PartsTo(more, n, a) + (IF more[n + 1] = Event("part", a) THEN 1 ELSE 0)
    <3> HIDE DEF more, n
    <3> QED
      BY <1>1, PartsNext
  <2> HIDE DEF more, n
  <2> QED
    BY <1>3, <2>1, <2>2 DEF Begins, Ends
<1>6. n \in 0 .. n
    BY <1>1
<1>7. Begins(events, n) \in {Ends(events, n), Ends(events, n) + 1}
    BY <1>6 DEF OneByOne
<1>8. \/ e = Event("begin", Ends(events, n) + 1) /\ Begins(events, n) = Ends(events, n)
      \/ e = Event("part", Ends(events, n) + 1) /\ Begins(events, n) = Ends(events, n) + 1
      \/ e = Event("end", Ends(events, n) + 1) /\ Begins(events, n) = Ends(events, n) + 1
    BY <1>7 DEF NextEvents
<1>9. /\ Begins(more, n + 1) \in {Ends(more, n + 1), Ends(more, n + 1) + 1}
      /\ Begins(more, n + 1) >= Begins(events, n)
      /\ Ends(more, n + 1) \in {Ends(events, n), Ends(events, n) + 1}
      /\ Ends(more, n + 1) \in Nat /\ Begins(more, n + 1) \in Nat
  <2> HIDE DEF more, n
  <2> QED
    BY <1>1, <1>4, <1>5, <1>6, <1>8 DEF Event
<1>10. ASSUME NEW k \in 0 .. n + 1
       PROVE  Begins(more, k) \in {Ends(more, k), Ends(more, k) + 1}
  <2>1. k = n + 1 \/ k \in 0 .. n
      BY <1>1
  <2>2. CASE k \in 0 .. n
      BY <2>2, <1>4 DEF OneByOne
  <2>3. QED
      BY <2>1, <2>2, <1>9
<1>11. ASSUME NEW k \in 1 .. n + 1
       PROVE  more[k] \in NextEvents(more, k - 1)
  <2>1. k - 1 \in 0 .. n /\ (k = n + 1 \/ k \in 1 .. n) /\ (n + 1) - 1 = n
      BY <1>1
  <2>2. NextEvents(more, k - 1) = NextEvents(events, k - 1)
      BY <2>1, <1>4 DEF NextEvents
  <2>3. CASE k \in 1 .. n
      BY <2>2, <2>3, <1>3 DEF OneByOne
  <2>4. CASE k = n + 1
      BY <2>1, <2>2, <2>4, <1>3
  <2>5. QED
      BY <2>1, <2>3, <2>4
<1>12. ASSUME NEW k \in 0 .. n + 1, NEW a \in Nat
       PROVE  /\ a > Begins(more, k) => PartsTo(more, k, a) = 0
              /\ a <= Ends(more, k) => PartsTo(more, k, a) = PartsTo(more, n + 1, a)
  <2>1. k = n + 1 \/ k \in 0 .. n
      BY <1>1
  <2>2. CASE k = n + 1
    <3>1. ASSUME a > Begins(more, k) PROVE PartsTo(more, k, a) = 0
      <4>1. a > Begins(events, n)
          BY <3>1, <2>2, <1>1, <1>9
      <4>2. PartsTo(events, n, a) = 0
          BY <4>1, <1>6 DEF OneByOne
      <4>3. e # Event("part", a)
        <5>1. CASE e = Event("begin", Ends(events, n) + 1)
            BY <5>1 DEF Event
        <5>2. CASE e = Event("end", Ends(events, n) + 1)
            BY <5>2 DEF Event
        <5>3. CASE e = Event("part", Ends(events, n) + 1) /\ Begins(events, n) = Ends(events, n) + 1
            BY <5>3, <4>1, <1>1 DEF Event
        <5>4. QED
            BY <5>1, <5>2, <5>3, <1>8
      <4>4. QED
          BY <4>2, <4>3, <1>4, <1>5, <1>6, <2>2
    <3>2. QED
        BY <3>1, <2>2
  <2>3. CASE k \in 0 .. n
    <3>1. Ends(events, k) <= Ends(events, n)
        BY <2>3, <1>1, CountsGrow DEF Ends
    <3>2. ASSUME a <= Ends(more, k)
          PROVE  PartsTo(more, k, a) = PartsTo(more, n + 1, a)
      <4>1. a <= Ends(events, k) /\ Ends(events, k) \in Nat
          BY <3>2, <2>3, <1>4, CountNext DEF Ends
      <4>2. PartsTo(events, k, a) = PartsTo(events, n, a)
          BY <4>1, <2>3 DEF OneByOne
      <4>3. a < Ends(events, n) + 1
          BY <4>1, <3>1, <1>1
      <4>4. e # Event("part", a)
          BY <4>3, <1>1, <1>8 DEF Event
      <4>5. PartsTo(more, n + 1, a) = PartsTo(more, n, a) /\ PartsTo(more, n, a) = PartsTo(events, n, a)
            /\ PartsTo(more, k, a) = PartsTo(events, k, a)
        <5>1. PartsTo(events, n, a) \in Nat
            BY <1>1, PartsNext
        <5>2. QED
            BY <5>1, <4>4, <1>4, <1>5, <1>6, <2>3
      <4>6. QED
          BY <4>2, <4>5
    <3>3. ASSUME a > Begins(more, k) PROVE PartsTo(more, k, a) = 0
        BY <3>3, <2>3, <1>4 DEF OneByOne
    <3>4. QED
        BY <3>2, <3>3
  <2>4. QED
      BY <2>1, <2>2, <2>3
<1>13. QED
  <2> HIDE DEF more, n
  <2> QED
    BY <1>2, <1>3, <1>10, <1>11, <1>12 DEF OneByOne, more

-----------------------------------------------------------------------------
(* OutputAssembler.push.                                                   *)

(* The parts of an alternative that is complete among the first k events.  *)
LEMMA AllPartsThere ==
    ASSUME NEW events \in Seq(Events), OneByOne(events), NEW k \in 0 .. Len(events),
           NEW a \in Nat, a <= Ends(events, k)
    PROVE  PartsSoFar(events, a) = PartsTo(events, k, a)
  BY AllCounted DEF OneByOne

(* A stream that is exact and has room takes the next event and is exact.  *)
LEMMA PushIsExact ==
    ASSUME server.emitted \in Seq(Events), OneByOne(server.emitted),
           NEW k \in Nat, k + 1 <= Len(server.emitted),
           NEW t, Exact(t, k), ~NeedsFlush(t)
    PROVE  Exact(Push(t, server.emitted[k + 1]), k + 1)
<1> DEFINE E == server.emitted
           n == Ends(E, k) + 1
           event == E[k + 1]
           u == Push(t, event)
<1>1. /\ Len(E) \in Nat /\ k \in 0 .. Len(E) /\ k + 1 \in 0 .. Len(E) /\ k + 1 \in 1 .. Len(E)
      /\ (k + 1) - 1 = k
    BY LenProperties
<1>2. /\ Ends(E, k) \in Nat /\ Begins(E, k) \in Nat
      /\ Begins(E, k + 1) = Begins(E, k) + (IF event.kind = "begin" THEN 1 ELSE 0)
      /\ Ends(E, k + 1) = Ends(E, k) + (IF event.kind = "end" THEN 1 ELSE 0)
  <2> HIDE DEF E
  <2> QED
    BY CountNext DEF Begins, Ends
<1>3. \A a : /\ PartsTo(E, k, a) \in Nat
             /\ PartsTo(E, k + 1, a) = PartsTo(E, k, a) + (IF event = Event("part", a) THEN 1 ELSE 0)
    BY PartsNext
<1>4. event \in NextEvents(E, k) /\ Begins(E, k) \in {Ends(E, k), Ends(E, k) + 1}
    BY <1>1 DEF OneByOne
<1>5. /\ t \in StreamRecords /\ ~t.refuted /\ t.total = Ends(E, k) /\ t.current = CurrentAt(E, k)
      /\ t.writes \subseteq PartRecords \cup AnswerRecords
      /\ Written(t)
    BY DEF Exact, StreamRecords
<1>6. CASE Begins(E, k) = Ends(E, k)
  <2>1. event = Event("begin", n) /\ event.kind = "begin" /\ event.alternative = n
      BY <1>4, <1>6 DEF NextEvents, Event
  <2>2. t.current = Nothing
      BY <1>5, <1>6 DEF CurrentAt
  <2> DEFINE c == [number |-> n, alternative |-> n, parts |-> 0]
  <2>3. c \in Currents /\ c # Nothing /\ c.parts = 0
      BY <1>2 DEF Currents, Nothing
  <2>4. u = [t EXCEPT !.current = c]
    <3>1. t.total + 1 = n
        BY <1>5
    <3> HIDE DEF event, n, E
    <3>2. ~Misplaced(t, event)
        BY <2>1, <2>2 DEF Misplaced
    <3>3. event.kind = "begin" /\ event.alternative = n
        BY <2>1
    <3>4. Push(t, event) = [t EXCEPT !.current = [number |-> t.total + 1, alternative |-> n,
                                                  parts |-> 0]]
        BY <3>2, <3>3 DEF Push
    <3>5. QED
        BY <3>1, <3>4
  <2>5. u \in StreamRecords /\ ~u.refuted /\ u.total = t.total /\ u.current = c /\ u.writes = t.writes
      BY <2>3, <2>4, <1>5 DEF StreamRecords
  <2>6. PartsTo(E, k + 1, n) = 0
    <3>1. n \in Nat /\ n > Begins(E, k)
        BY <1>2, <1>6
    <3>2. PartsTo(E, k, n) = 0
        BY <3>1, <1>1 DEF OneByOne
    <3>3. event # Event("part", n)
        BY <2>1 DEF Event
    <3>4. QED
        BY <3>2, <3>3, <1>3
  <2>7. Ends(E, k + 1) = Ends(E, k) /\ Begins(E, k + 1) = Ends(E, k) + 1
      BY <2>1, <1>2, <1>6
  <2>8. CurrentAt(E, k + 1) = c
      BY <2>6, <2>7, <1>2 DEF CurrentAt
  <2>9. PartsUpTo(u.total, u.current) = PartsUpTo(t.total, t.current)
    <3>1. PartsOf(u.total + 1, 0) = {}
        BY DEF PartsOf
    <3>2. QED
        BY <2>2, <2>3, <2>5, <3>1 DEF PartsUpTo
  <2>10. Written(u)
      BY <2>5, <2>9, <1>5 DEF Written
  <2>11. QED
      BY <2>5, <2>7, <2>8, <2>10, <1>5 DEF Exact
<1>7. CASE Begins(E, k) # Ends(E, k)
  <2> DEFINE parts == PartsTo(E, k, n)
             c == [number |-> n, alternative |-> n, parts |-> parts]
  <2>1. t.current = c /\ c # Nothing /\ n \in Nat /\ parts \in Nat
    <3>1. n \in Nat /\ parts \in Nat
        BY <1>2, <1>3
    <3>2. t.current = c
        BY <1>5, <1>7 DEF CurrentAt
    <3> HIDE DEF n, parts
    <3>3. c # Nothing
        BY DEF Nothing
    <3> QED
      BY <3>1, <3>2, <3>3
  <2>2. t.current # Nothing /\ t.current.number = n /\ t.current.alternative = n
        /\ t.current.parts = parts
      BY <2>1
  <2>3. CASE event = Event("part", n)
    <3> DEFINE w == [store |-> "parts", number |-> n, slot |-> parts, alternative |-> n]
               d == [number |-> n, alternative |-> n, parts |-> parts + 1]
    <3>1. event.kind = "part" /\ event.alternative = n
        BY <2>3 DEF Event
    <3>2. w \in PartRecords /\ d \in Currents /\ d # Nothing /\ w.store = "parts" /\ d.parts = parts + 1
        BY <2>1 DEF PartRecords, Currents, Nothing
    <3>3. [t.current EXCEPT !.parts = parts + 1] = d
        BY <2>1
    <3>4. u = [t EXCEPT !.writes = t.writes \cup {w}, !.current = d]
      <4>1. ~Misplaced(t, event)
          BY <2>2, <3>1 DEF Misplaced
      <4>2. QED
          BY <2>2, <3>1, <3>3, <4>1, <1>5 DEF Push, StreamRecords
    <3>5. /\ u \in StreamRecords /\ ~u.refuted /\ u.total = t.total /\ u.current = d
          /\ u.writes = t.writes \cup {w}
      <4> HIDE DEF w, d, u, event
      <4> QED
        BY <3>2, <3>4, <1>5 DEF StreamRecords
    <3>6. Ends(E, k + 1) = Ends(E, k) /\ Begins(E, k + 1) = Begins(E, k)
        BY <3>1, <1>2
    <3>7. CurrentAt(E, k + 1) = d
        BY <2>3, <3>6, <1>2, <1>3, <1>7 DEF CurrentAt
    <3>8. PartsUpTo(u.total, u.current) = PartsUpTo(t.total, t.current) \cup {w}
      <4>1. 0 .. (parts + 1) - 1 = (0 .. parts - 1) \cup {parts}
          BY <2>1
      <4>2. PartsOf(n, parts + 1) = PartsOf(n, parts) \cup {w}
          BY <4>1 DEF PartsOf
      <4> HIDE DEF w, d, u, event, parts, n
      <4>3. t.total + 1 = n
          BY <1>5 DEF n
      <4>4. QED
          BY <4>2, <4>3, <2>2, <3>2, <3>5 DEF PartsUpTo
    <3>9. Of(u.writes, "parts") = Of(t.writes, "parts") \cup {w}
          /\ Of(u.writes, "answers") = Of(t.writes, "answers")
      <4> HIDE DEF w, u
      <4> QED
        BY <3>2, <3>5 DEF Of
    <3>10. Written(u)
      <4> HIDE DEF w, u
      <4> QED
        BY <3>5, <3>8, <3>9, <1>5 DEF Written
    <3>11. QED
        BY <3>5, <3>6, <3>7, <3>10, <1>5 DEF Exact
  <2>4. CASE event = Event("end", n)
    <3> DEFINE w == [store |-> "answers", number |-> n, slot |-> 0, size |-> parts,
                     alternative |-> n]
    <3>1. event.kind = "end"
        BY <2>4 DEF Event
    <3>2. w \in AnswerRecords /\ Nothing \in Currents /\ w.store = "answers"
        BY <2>1 DEF AnswerRecords, Currents
    <3>4. u = [t EXCEPT !.writes = t.writes \cup {w}, !.total = n,
                        !.current = Nothing]
      <4>1. ~Misplaced(t, event)
          BY <2>2, <3>1 DEF Misplaced
      <4>2. QED
          BY <2>2, <3>1, <4>1, <1>5 DEF Push, StreamRecords
    <3>5. /\ u \in StreamRecords /\ ~u.refuted /\ u.total = n /\ u.current = Nothing
          /\ u.writes = t.writes \cup {w}
      <4> HIDE DEF w, u, event, n
      <4> QED
        BY <2>1, <3>2, <3>4, <1>5 DEF StreamRecords
    <3>6. Ends(E, k + 1) = n /\ Begins(E, k + 1) = n
        BY <3>1, <1>2, <1>4, <1>7
    <3>7. CurrentAt(E, k + 1) = Nothing
        BY <3>6 DEF CurrentAt
    <3>8. PartsSoFar(E, n) = parts
      <4>1. PartsSoFar(E, n) = PartsTo(E, k + 1, n)
          BY <3>6, <2>1, <1>1, <1>2, AllPartsThere
      <4>2. event # Event("part", n)
          BY <2>4 DEF Event
      <4>3. QED
          BY <4>1, <4>2, <1>3
    <3>9. AnswerOf(n) = w
        BY <3>8 DEF AnswerOf
    <3>10. t.total + 1 = n /\ 1 .. n = (1 .. t.total) \cup {n}
        BY <1>2, <1>5
    <3>11. PartsUpTo(n, Nothing) = PartsUpTo(t.total, t.current)
      <4> HIDE DEF w, u, event, parts, n
      <4> QED
        BY <2>2, <3>8, <3>10 DEF PartsUpTo
    <3>12. AnswersUpTo(n) = AnswersUpTo(t.total) \cup {w}
      <4> HIDE DEF w, u, event, parts, n
      <4> QED
        BY <3>9, <3>10 DEF AnswersUpTo
    <3>13. Of(u.writes, "answers") = Of(t.writes, "answers") \cup {w}
           /\ Of(u.writes, "parts") = Of(t.writes, "parts")
      <4> HIDE DEF w, u
      <4> QED
        BY <3>2, <3>5 DEF Of
    <3>14. Written(u)
      <4> HIDE DEF w, u, n
      <4> QED
        BY <3>5, <3>11, <3>12, <3>13, <1>5 DEF Written
    <3>15. QED
        BY <3>5, <3>6, <3>7, <3>14 DEF Exact
  <2>5. QED
      BY <2>3, <2>4, <1>4, <1>7 DEF NextEvents
<1>8. QED
    BY <1>6, <1>7

-----------------------------------------------------------------------------
(* What holds of server, store and page.                                   *)

(* What the page and its row in the store are.                             *)
PendingRecords == [kind : {"batch"}, known : BOOLEAN, batch : Batches, sequence : Nat, index : Nat]

CancelReplies == [ok : {TRUE}, batch : Batches, more : BOOLEAN]

Doings == {"Idle", "Write", "Finish", "Output", "Cancel", "Status", "Close",
           "SaveCanceling", "SaveClosing", "Drop", "Forget"}

Sessions ==
    [doing : Doings, status : {"reading", "stopped", "done", "canceled"},
     stop : {"no", "cancel", "close", "closing"}, ack : Nat,
     pending : PendingRecords \cup {Nothing}, stream : StreamRecords, cancel : BOOLEAN,
     more : BOOLEAN, purpose : {"read", "cancel", "first", "rest", "last"},
     reply : CancelReplies \cup {Nothing}]

Rows == [phase : {"open", "canceling", "canceled", "closing", "done"}, ack : Nat,
         sequence : Nat, index : Nat, total : Nat, current : Currents]

Questions == [route : {"output", "cancel", "status", "close"}, ack : Nat]

DeliveryTypes ==
    /\ server \in Servers
    /\ page \in Sessions \cup {Away, Over}
    /\ shelf.row \in Rows \cup {Nothing}
    /\ shelf = [parts |-> shelf.parts, answers |-> shelf.answers, row |-> shelf.row]
    /\ stray \subseteq Questions

-----------------------------------------------------------------------------
(* Places in the events of the engine: what was read from the spool, where *)
(* the last batch begins, and what row and page have come to.              *)
Last == Len(server.emitted)
ReadPlace == Last - Len(server.file) + server.read
BatchPlace == ReadPlace - Len(server.batch.events)
AckPlace == IF server.batch.sequence = shelf.row.ack THEN ReadPlace ELSE BatchPlace
RowPlace == IF shelf.row.sequence = 0 THEN AckPlace ELSE BatchPlace + shelf.row.index
PlaceOf(p) == IF p.pending = Nothing THEN AckPlace ELSE BatchPlace + p.pending.index

(* The spool has the events that are not read, and maybe some more; the    *)
(* batch has the last ones that are.                                       *)
SpoolSound ==
    /\ OneByOne(server.emitted)
    /\ Len(server.file) <= Last /\ server.read <= Len(server.file)
    /\ \A i \in 1 .. Len(server.file) : server.file[i] = server.emitted[Last - Len(server.file) + i]
    /\ Len(server.batch.events) <= ReadPlace
    /\ \A i \in 1 .. Len(server.batch.events) : server.batch.events[i] = server.emitted[BatchPlace + i]
    /\ server.batch.sequence = 0 => server.batch = NoBatch
    /\ server.batch.canceled => server.canceled
    /\ server.batch.canceled /\ server.batch.drained => ReadPlace = Last
    /\ server.batch.done => server.ended /\ ReadPlace = Last
    /\ server.ended => Begins(server.emitted, Last) = Ends(server.emitted, Last)

(* Of an alternative that is discarded nothing is left.                    *)
StandsAt(total, current, k) ==
    /\ total = Ends(server.emitted, k)
    /\ \/ current = CurrentAt(server.emitted, k)
       \/ current = Nothing /\ server.canceled /\ k = Last

Shelved(total, current) ==
    /\ shelf.parts = PartsUpTo(total, current)
    /\ shelf.answers = AnswersUpTo(total)

(* The run is closed for good.                                             *)
Closing == shelf.row = Nothing \/ shelf.row.phase = "closing"

(* Nothing more is to be saved.                                            *)
AllSaved ==
    /\ server.canceled
    /\ shelf.row.total = Complete /\ shelf.row.current = Nothing /\ shelf.row.sequence = 0

ShelfSound ==
    IF shelf.row = Nothing
    THEN server.canceled /\ Shelved(Complete, Nothing)
    ELSE /\ Shelved(shelf.row.total, shelf.row.current)
         /\ shelf.row.phase = "closing" => AllSaved

(* A request that comes late has an old acknowledgement.                   *)
StraysSound ==
    \A q \in stray : (q.route = "output" => q.ack <= shelf.row.ack) /\ q.route # "close"

RowSound ==
    LET row == shelf.row IN
    /\ server.batch.sequence \in {row.ack, row.ack + 1}
    /\ ~server.closing /\ ~server.gone
    /\ row.sequence # 0 => /\ row.sequence = row.ack + 1
                           /\ server.batch.sequence = row.ack + 1
                           /\ row.index <= Len(server.batch.events)
    /\ StandsAt(row.total, row.current, RowPlace)
    /\ row.phase = "done" /\ row.sequence = 0 => server.ended /\ RowPlace = Last

(* What the page holds: its place, the batch, what is to be written.       *)
Keeps(p) ==
    /\ p.ack = shelf.row.ack
    /\ p.pending = Nothing => shelf.row.sequence = 0
    /\ p.pending # Nothing =>
          /\ p.pending.sequence = shelf.row.ack + 1 /\ server.batch.sequence = shelf.row.ack + 1
          /\ p.pending.index <= Len(server.batch.events)
          /\ p.pending.batch = IF p.pending.known THEN server.batch ELSE NoBatch
    /\ StandsAt(p.stream.total, p.stream.current, PlaceOf(p))
    /\ Written(p.stream)

(* Nothing comes after what it holds.                                      *)
HoldsTheLast(p) ==
    /\ server.canceled /\ ReadPlace = Last
    /\ p.pending = Nothing => AckPlace = Last

Holds(p) == Keeps(p) /\ (p.cancel => HoldsTheLast(p))

(* The reply to a cancellation that is not saved yet: the batch of the     *)
(* server, or the one before it.                                           *)
ReplyKept(p) ==
    LET r == p.reply IN
    /\ r # Nothing
    /\ server.canceled
    /\ r.batch.sequence \in {shelf.row.ack, shelf.row.ack + 1}
    /\ r.batch.sequence = shelf.row.ack + 1 => r.batch = server.batch
    /\ p.pending # Nothing => r.batch.sequence = shelf.row.ack + 1
    /\ r.batch.sequence = shelf.row.ack /\ server.batch.sequence = shelf.row.ack + 1
          => server.batch.canceled
    /\ ~r.more => ReadPlace = Last
    /\ ~r.more /\ r.batch.sequence = shelf.row.ack => AckPlace = Last

(* What it is about, and what it knows of the server by that.              *)
Does(p) ==
    /\ p.doing \in {"Write", "Finish"} =>
          /\ p.purpose # "cancel"
          /\ p.pending # Nothing => p.pending.known
          /\ p.purpose # "read" => server.canceled /\ (p.more \/ p.cancel)
          /\ p.purpose \in {"first", "rest"} => p.pending # Nothing
          /\ p.purpose = "last" => ~p.more
    /\ p.doing = "Finish" => ~Unpushed(p)
    /\ p.doing = "Output" =>
          /\ p.purpose \in {"read", "rest"}
          /\ p.purpose = "rest" =>
                /\ server.canceled
                /\ server.batch.sequence = shelf.row.ack + 1 => server.batch.canceled
    /\ p.doing = "SaveCanceling" => ReplyKept(p)
    /\ p.doing \notin {"SaveClosing", "Close", "Drop", "Forget"}

(* A page that has saved all and closes the run.                           *)
Closes(p) ==
    /\ AllSaved
    /\ p.pending = Nothing /\ p.stream.writes = {} /\ p.stream.current = Nothing
    /\ p.stream.total = shelf.row.total
    /\ p.doing \in {"Idle", "SaveClosing", "Close", "Drop", "Forget"}
    /\ p.doing \in {"Close", "Drop", "Forget"} => shelf.row.phase = "closing"

(* A page that closes the run has saved all; another one is not to close   *)
(* it.                                                                     *)
PageSound(p) ==
    /\ ~p.stream.refuted
    /\ ~Closing => Holds(p)
    /\ IF p.stop = "closing" THEN Closes(p) ELSE ~Closing /\ Does(p)

(* All of it.                                                              *)
DeliveryInv ==
    /\ DeliveryTypes
    /\ SpoolSound /\ ShelfSound
    /\ page = Over <=> shelf.row = Nothing
    /\ ~Closing => RowSound /\ StraysSound
    /\ page \notin {Away, Over} => PageSound(page)

-----------------------------------------------------------------------------
(* What is served.                                                         *)

(* A place is a number of events; none is beyond the last one.             *)
LEMMA Places ==
    ASSUME server \in Servers, SpoolSound
    PROVE  /\ Last \in Nat /\ ReadPlace \in Nat /\ BatchPlace \in Nat
           /\ Len(server.file) \in Nat /\ server.read \in Nat /\ Len(server.batch.events) \in Nat
           /\ server.batch.sequence \in Nat
           /\ ReadPlace <= Last /\ BatchPlace + Len(server.batch.events) = ReadPlace
           /\ ReadPlace = Last <=> server.read = Len(server.file)
           /\ server.emitted \in Seq(Events) /\ server.file \in Seq(Events)
           /\ server.batch \in Batches /\ server.batch.events \in Seq(Events)
<1>1. /\ server.emitted \in Seq(Events) /\ server.file \in Seq(Events) /\ server.read \in Nat
      /\ server.batch \in Batches
    BY DEF Servers
<1>2. server.batch.events \in Seq(Events) /\ server.batch.sequence \in Nat
    BY <1>1 DEF Batches
<1>3. Len(server.emitted) \in Nat /\ Len(server.file) \in Nat /\ Len(server.batch.events) \in Nat
    BY <1>1, <1>2, LenProperties
<1>4. Last \in Nat
    BY <1>3 DEF Last
<1>5. Len(server.file) \in Nat /\ server.read \in Nat /\ Len(server.batch.events) \in Nat
    BY <1>1, <1>3
<1>6. Len(server.file) <= Last /\ server.read <= Len(server.file)
    BY DEF SpoolSound
<1>7. ReadPlace \in Nat /\ ReadPlace <= Last /\ (ReadPlace = Last <=> server.read = Len(server.file))
    BY <1>4, <1>5, <1>6 DEF ReadPlace
<1>8. BatchPlace \in Nat /\ BatchPlace + Len(server.batch.events) = ReadPlace
  <2>1. Len(server.batch.events) <= ReadPlace
      BY DEF SpoolSound
  <2>2. QED
      BY <1>5, <1>7, <2>1 DEF BatchPlace
<1>9. QED
    BY <1>1, <1>2, <1>4, <1>5, <1>7, <1>8

(* The minimum of two numbers.                                             *)
LEMMA LeastOfTwo ==
    ASSUME NEW a \in Nat, NEW b \in Nat
    PROVE  Min({a, b}) = IF a <= b THEN a ELSE b
<1> DEFINE S == {a, b}
           least == CHOOSE x \in S : \A y \in S : x <= y
<1>1. \E x \in S : \A y \in S : x <= y
  <2>1. CASE a <= b
      BY <2>1
  <2>2. CASE ~(a <= b)
      BY <2>2
  <2>3. QED
      BY <2>1, <2>2
<1>2. least \in S /\ \A y \in S : least <= y
  <2> HIDE DEF S
  <2> QED
    BY <1>1
<1>3. Min(S) = least
    BY DEF Min
<1> HIDE DEF least
<1>4. QED
    BY <1>2, <1>3

(* A segment of a sequence.                                                *)
LEMMA Segment ==
    ASSUME NEW S, NEW s \in Seq(S), NEW j \in Nat, NEW k \in Nat, j <= k, k <= Len(s)
    PROVE  /\ SubSeq(s, j + 1, k) \in Seq(S)
           /\ Len(SubSeq(s, j + 1, k)) = k - j
           /\ \A i \in 1 .. k - j : SubSeq(s, j + 1, k)[i] = s[j + i]
<1>1. j + 1 \in Int /\ k \in Int /\ k - (j + 1) + 1 = k - j
    OBVIOUS
<1>2. \A i \in j + 1 .. k : s[i] \in S
  <2>1. \A i \in j + 1 .. k : i \in 1 .. Len(s)
      BY LenProperties
  <2>2. QED
      BY <2>1, ElementOfSeq
<1>3. /\ SubSeq(s, j + 1, k) \in Seq(S)
      /\ Len(SubSeq(s, j + 1, k)) = IF j + 1 <= k THEN k - (j + 1) + 1 ELSE 0
      /\ \A i \in 1 .. k - (j + 1) + 1 : SubSeq(s, j + 1, k)[i] = s[(j + 1) + i - 1]
    BY <1>1, <1>2, SubSeqProperties
<1>4. ASSUME NEW i \in 1 .. k - j
      PROVE  SubSeq(s, j + 1, k)[i] = s[j + i]
  <2>1. (j + 1) + i - 1 = j + i
      OBVIOUS
  <2>2. QED
      BY <1>1, <1>3, <2>1
<1>5. Len(SubSeq(s, j + 1, k)) = k - j
    BY <1>1, <1>3
<1>6. QED
    BY <1>3, <1>4, <1>5

(* Spool::compact changes no place.                                        *)
LEMMA CompactedIs ==
    ASSUME server \in Servers, SpoolSound
    PROVE  LET c == Compacted(server) IN
           /\ c \in Servers
           /\ c = [server EXCEPT !.file = c.file, !.read = c.read]
           /\ Len(c.file) <= Last /\ c.read <= Len(c.file)
           /\ Last - Len(c.file) + c.read = ReadPlace
           /\ \A i \in 1 .. Len(c.file) : c.file[i] = server.emitted[Last - Len(c.file) + i]
<1> DEFINE c == Compacted(server)
           rest == SubSeq(server.file, server.read + 1, Len(server.file))
<1>1. /\ server.file \in Seq(Events) /\ server.read \in Nat /\ Len(server.file) \in Nat
      /\ Len(server.file) <= Last /\ server.read <= Len(server.file) /\ Last \in Nat
    BY Places DEF SpoolSound
<1>2. CASE c = [server EXCEPT !.file = rest, !.read = 0]
  <2>1. /\ rest \in Seq(Events) /\ Len(rest) = Len(server.file) - server.read
        /\ \A i \in 1 .. Len(rest) : rest[i] = server.file[server.read + i]
    <3>1. server.read <= Len(server.file)
        BY <1>1
    <3> DEFINE f == server.file
               j == server.read
               k == Len(server.file)
    <3>0. f \in Seq(Events) /\ j \in Nat /\ k \in Nat /\ j <= k /\ k <= Len(f)
        BY <1>1
    <3> HIDE DEF f, j, k
    <3>2. /\ SubSeq(f, j + 1, k) \in Seq(Events) /\ Len(SubSeq(f, j + 1, k)) = k - j
          /\ \A i \in 1 .. k - j : SubSeq(f, j + 1, k)[i] = f[j + i]
        BY <3>0, Segment
    <3>3. QED
        BY <3>2 DEF f, j, k
  <2> HIDE DEF c, rest
  <2>2. c.file = rest /\ c.read = 0 /\ c \in Servers
        /\ c = [server EXCEPT !.file = c.file, !.read = c.read]
      BY <1>2, <2>1 DEF Servers
  <2>3. ASSUME NEW i \in 1 .. Len(rest)
        PROVE  rest[i] = server.emitted[Last - Len(rest) + i]
    <3>1. server.read + i \in 1 .. Len(server.file)
          /\ Last - Len(server.file) + (server.read + i) = Last - Len(rest) + i
        BY <1>1, <2>1
    <3>2. server.file[server.read + i] = server.emitted[Last - Len(server.file) + (server.read + i)]
        BY <3>1 DEF SpoolSound
    <3>3. QED
        BY <2>1, <3>1, <3>2
  <2>4. QED
      BY <1>1, <2>1, <2>2, <2>3 DEF ReadPlace, c
<1>3. CASE c = server
  <2>1. server = [server EXCEPT !.file = server.file, !.read = server.read]
      BY DEF Servers
  <2> HIDE DEF c
  <2>2. QED
      BY <1>1, <1>3, <2>1 DEF SpoolSound, ReadPlace, c
<1>4. QED
    BY <1>2, <1>3 DEF Compacted

(* A batch has the events after those that were read.                      *)
LEMMA NextBatchIs ==
    ASSUME server \in Servers, SpoolSound, NEW n \in Nat, n # 0,
           server' = NextBatch(server, n).server
    PROVE  /\ server' \in Servers /\ SpoolSound'
           /\ server'.emitted = server.emitted /\ server'.ended = server.ended
           /\ server'.canceled = server.canceled /\ server'.error = server.error
           /\ server'.closing = server.closing /\ server'.gone = server.gone
           /\ server'.batch.sequence = n /\ server'.batch.canceled = server.canceled
           /\ BatchPlace' = ReadPlace
           /\ NextBatch(server, n).reply = [ok |-> TRUE, batch |-> server'.batch]
<1> DEFINE c == Compacted(server)
           r == ReadOn(c)
           events == EventsRead(c)
           b == [sequence |-> n, events |-> events, drained |-> Drained(r),
                 done |-> server.ended /\ Drained(r), canceled |-> server.canceled,
                 error |-> server.error]
<1>1. /\ c \in Servers
      /\ c = [server EXCEPT !.file = c.file, !.read = c.read]
      /\ Len(c.file) <= Last /\ c.read <= Len(c.file)
      /\ Last - Len(c.file) + c.read = ReadPlace
      /\ \A i \in 1 .. Len(c.file) : c.file[i] = server.emitted[Last - Len(c.file) + i]
    BY CompactedIs
<1>2. server' = [r EXCEPT !.batch = b] /\ NextBatch(server, n).reply = [ok |-> TRUE, batch |-> b]
    BY DEF NextBatch, Served
<1> HIDE DEF c
<1>3. /\ c.file \in Seq(Events) /\ c.read \in Nat /\ Len(c.file) \in Nat /\ Last \in Nat
      /\ ReadPlace \in Nat
    BY <1>1, Places, LenProperties DEF Servers
<1>4. /\ r = [c EXCEPT !.read = r.read] /\ r.read \in Nat /\ c.read <= r.read /\ r.read <= Len(c.file)
  <2> DEFINE m == Min({c.read + Limit, Len(c.file)})
  <2>1. m = IF c.read + Limit <= Len(c.file) THEN c.read + Limit ELSE Len(c.file)
    <3>1. c.read + Limit \in Nat
        BY <1>3, DeliveryBounds
    <3>2. QED
        BY <1>3, <3>1, LeastOfTwo
  <2>2. m \in Nat /\ c.read <= m /\ m <= Len(c.file)
    <3> HIDE DEF m
    <3> QED
      BY <1>1, <1>3, <2>1, DeliveryBounds
  <2>3. r = [c EXCEPT !.read = m]
      BY DEF ReadOn
  <2> HIDE DEF m, r
  <2>4. r.read = m
      BY <1>1, <2>3 DEF Servers
  <2>5. QED
      BY <2>2, <2>3, <2>4
<1>5. /\ events \in Seq(Events) /\ Len(events) = r.read - c.read
      /\ \A i \in 1 .. Len(events) : events[i] = c.file[c.read + i]
  <2>1. events = SubSeq(c.file, c.read + 1, r.read)
      BY DEF EventsRead
  <2> HIDE DEF events, r
  <2>2. c.read <= r.read /\ r.read <= Len(c.file) /\ r.read \in Nat /\ c.read \in Nat
        /\ c.file \in Seq(Events)
      BY <1>3, <1>4
  <2> DEFINE f == c.file
             j == c.read
             k == r.read
  <2>3. f \in Seq(Events) /\ j \in Nat /\ k \in Nat /\ j <= k /\ k <= Len(f)
        /\ events = SubSeq(f, j + 1, k)
      BY <2>1, <2>2
  <2> HIDE DEF f, j, k
  <2>4. /\ events \in Seq(Events) /\ Len(events) = k - j
        /\ \A i \in 1 .. k - j : events[i] = f[j + i]
      BY <2>3, Segment
  <2>5. QED
      BY <2>4 DEF f, j, k
<1> HIDE DEF r, events
<1>6. /\ r.file = c.file
      /\ r = [server EXCEPT !.file = c.file, !.read = r.read]
    BY <1>1, <1>4 DEF Servers
<1>7. b \in Batches
    BY <1>5 DEF Batches, Servers, Drained
<1>8. /\ b.sequence = n /\ b.events = events /\ b.canceled = server.canceled
      /\ b.drained = (r.read = Len(c.file)) /\ b.done = (server.ended /\ r.read = Len(c.file))
    BY <1>6 DEF Drained
<1> HIDE DEF b
<1>9. /\ server' = [server EXCEPT !.file = c.file, !.read = r.read, !.batch = b]
    BY <1>2, <1>6 DEF Servers
<1>10. /\ server' \in Servers
       /\ server'.emitted = server.emitted /\ server'.ended = server.ended
       /\ server'.canceled = server.canceled /\ server'.error = server.error
       /\ server'.closing = server.closing /\ server'.gone = server.gone
       /\ server'.file = c.file /\ server'.read = r.read /\ server'.batch = b
    BY <1>3, <1>4, <1>7, <1>9 DEF Servers
<1>11. Last' = Last /\ ReadPlace' = Last - Len(c.file) + r.read /\ BatchPlace' = ReadPlace
  <2>1. Last' = Last
      BY <1>10 DEF Last
  <2>2. ReadPlace' = Last - Len(c.file) + r.read
      BY <1>10, <2>1 DEF ReadPlace
  <2>3. BatchPlace' = ReadPlace' - Len(events)
      BY <1>8, <1>10 DEF BatchPlace
  <2>4. QED
      BY <1>1, <1>3, <1>4, <1>5, <2>1, <2>2, <2>3
<1>12. ASSUME NEW i \in 1 .. Len(events)
       PROVE  events[i] = server.emitted[ReadPlace + i]
  <2>1. c.read + i \in 1 .. Len(c.file) /\ Last - Len(c.file) + (c.read + i) = ReadPlace + i
      BY <1>1, <1>3, <1>4, <1>5
  <2>2. QED
      BY <2>1, <1>1, <1>5
<1>13. Len(events) <= ReadPlace' /\ (ReadPlace' = Last <=> r.read = Len(c.file))
    BY <1>1, <1>3, <1>4, <1>5, <1>11
<1>14. SpoolSound'
  <2>1. OneByOne(server'.emitted)
      BY <1>10 DEF SpoolSound
  <2>2. /\ Len(server'.file) <= Last' /\ server'.read <= Len(server'.file)
        /\ \A i \in 1 .. Len(server'.file) :
              server'.file[i] = server'.emitted[Last' - Len(server'.file) + i]
      BY <1>1, <1>4, <1>10, <1>11
  <2>3. /\ Len(server'.batch.events) <= ReadPlace'
        /\ \A i \in 1 .. Len(server'.batch.events) :
              server'.batch.events[i] = server'.emitted[BatchPlace' + i]
      BY <1>8, <1>10, <1>11, <1>12, <1>13
  <2>4. /\ server'.batch.sequence = 0 => server'.batch = NoBatch'
        /\ server'.batch.canceled => server'.canceled
        /\ server'.batch.canceled /\ server'.batch.drained => ReadPlace' = Last'
        /\ server'.batch.done => server'.ended /\ ReadPlace' = Last'
      BY <1>8, <1>10, <1>11, <1>13
  <2>5. server'.ended => Begins(server'.emitted, Last') = Ends(server'.emitted, Last')
      BY <1>10, <1>11 DEF SpoolSound
  <2>6. QED
      BY <2>1, <2>2, <2>3, <2>4, <2>5 DEF SpoolSound
<1>15. QED
    BY <1>2, <1>8, <1>10, <1>11, <1>14

-----------------------------------------------------------------------------
(* What a step of the server keeps.                                        *)

(* What the page and the row may see of a step of the server: there are    *)
(* more events, or it is canceled, or there is the next batch.             *)
BatchKept == server'.batch = server.batch /\ ReadPlace' = ReadPlace

BatchNew ==
    /\ server'.emitted = server.emitted /\ server'.canceled = server.canceled
    /\ server.batch.sequence = shelf.row.ack
    /\ server'.batch.sequence = shelf.row.ack + 1
    /\ server'.batch.canceled = server.canceled
    /\ BatchPlace' = ReadPlace

Advances ==
    /\ server' \in Servers /\ SpoolSound'
    /\ server.canceled => server'.canceled
    /\ server.ended => server'.ended
    /\ \/ server'.emitted = server.emitted
       \/ /\ ~server.canceled /\ ~server.ended
          /\ \E e \in Events : server'.emitted = Append(server.emitted, e)
    /\ ~Closing => /\ ~server'.closing /\ ~server'.gone
                   /\ BatchKept \/ BatchNew

(* The places of page and row are places.                                  *)
LEMMA PlacesOfRow ==
    ASSUME server \in Servers, SpoolSound, shelf.row \in Rows, RowSound
    PROVE  AckPlace \in 0 .. Last /\ RowPlace \in 0 .. Last
<1>1. AckPlace \in 0 .. Last
    BY Places DEF AckPlace
<1>2. CASE shelf.row.sequence = 0
    BY <1>1, <1>2 DEF RowPlace
<1>3. CASE shelf.row.sequence # 0
  <2>1. shelf.row.index \in Nat /\ shelf.row.index <= Len(server.batch.events)
      BY <1>3 DEF RowSound, Rows
  <2>2. BatchPlace + shelf.row.index \in 0 .. Last
      BY <2>1, Places
  <2>3. RowPlace = BatchPlace + shelf.row.index
      BY <1>3 DEF RowPlace
  <2>4. QED
      BY <1>1, <2>2, <2>3
<1>4. QED
    BY <1>2, <1>3

(* So is the place of the page.                                            *)
LEMMA PlacesOfPage ==
    ASSUME server \in Servers, SpoolSound, shelf.row \in Rows, RowSound,
           NEW p \in Sessions, Holds(p)
    PROVE  PlaceOf(p) \in 0 .. Last
<1>1. CASE p.pending = Nothing
    BY <1>1, PlacesOfRow DEF PlaceOf
<1>2. CASE p.pending # Nothing
  <2>1. p.pending.index \in Nat /\ p.pending.index <= Len(server.batch.events)
      BY <1>2 DEF Holds, Keeps, HoldsTheLast, Sessions, PendingRecords
  <2>2. BatchPlace + p.pending.index \in 0 .. Last
      BY <2>1, Places
  <2>3. QED
      BY <1>2, <2>2 DEF PlaceOf
<1>3. QED
    BY <1>1, <1>2

(* Places stay when there are more events or the next batch.               *)
LEMMA PlacesStay ==
    ASSUME server \in Servers, SpoolSound, shelf.row \in Rows, RowSound, ~Closing,
           Advances, shelf' = shelf
    PROVE  /\ AckPlace' = AckPlace /\ RowPlace' = RowPlace
           /\ \A p : (p.pending # Nothing => server.batch.sequence = shelf.row.ack + 1)
                        => PlaceOf(p)' = PlaceOf(p)
<1>0. shelf.row.ack \in Nat
    BY DEF Rows
<1>1. CASE BatchKept
  <2>1. BatchPlace' = BatchPlace /\ ReadPlace' = ReadPlace /\ server'.batch = server.batch
      BY <1>1 DEF BatchKept, BatchPlace
  <2>2. QED
      BY <2>1 DEF AckPlace, RowPlace, PlaceOf, Nothing
<1>2. CASE BatchNew
  <2>1. /\ AckPlace = ReadPlace
        /\ server'.batch.sequence # shelf.row.ack /\ server.batch.sequence # shelf.row.ack + 1
      BY <1>0, <1>2 DEF BatchNew, AckPlace
  <2>2. AckPlace' = AckPlace
      BY <1>2, <2>1 DEF BatchNew, AckPlace
  <2>3. shelf.row.sequence = 0
      BY <2>1 DEF RowSound
  <2>4. QED
      BY <2>1, <2>2, <2>3 DEF RowPlace, PlaceOf, Nothing
<1>3. QED
    BY <1>1, <1>2 DEF Advances

(* What was brought out stays what it is.                                  *)
LEMMA PastStays ==
    ASSUME server \in Servers, SpoolSound, Advances
    PROVE  /\ server.canceled \/ server.ended => server'.emitted = server.emitted /\ Last' = Last
           /\ \A k \in 0 .. Last : /\ k \in 0 .. Last'
                                   /\ Ends(server'.emitted, k) = Ends(server.emitted, k)
                                   /\ CurrentAt(server'.emitted, k) = CurrentAt(server.emitted, k)
           /\ \A n \in Nat : n <= Ends(server.emitted, Last) =>
                 PartsSoFar(server'.emitted, n) = PartsSoFar(server.emitted, n)
<1>1. server.emitted \in Seq(Events) /\ Last \in Nat /\ OneByOne(server.emitted)
    BY Places DEF SpoolSound
<1>2. CASE server'.emitted = server.emitted
    BY <1>1, <1>2 DEF Last
<1>3. ASSUME ~server.canceled, ~server.ended,
             NEW e \in Events, server'.emitted = Append(server.emitted, e)
      PROVE  /\ \A k \in 0 .. Last : /\ k \in 0 .. Last'
                                   /\ Ends(server'.emitted, k) = Ends(server.emitted, k)
                                   /\ CurrentAt(server'.emitted, k) = CurrentAt(server.emitted, k)
             /\ \A n \in Nat : n <= Ends(server.emitted, Last) =>
                   PartsSoFar(server'.emitted, n) = PartsSoFar(server.emitted, n)
  <2>1. Last' = Last + 1
      BY <1>1, <1>3, AppendProperties DEF Last
  <2>2. ASSUME NEW k \in 0 .. Last
        PROVE  /\ \A kind : CountTo(server'.emitted, k, kind) = CountTo(server.emitted, k, kind)
               /\ \A a : PartsTo(server'.emitted, k, a) = PartsTo(server.emitted, k, a)
      BY <1>1, <1>3, CountsOfPrefix DEF Last
  <2>3. ASSUME NEW k \in 0 .. Last
        PROVE  /\ k \in 0 .. Last'
               /\ Ends(server'.emitted, k) = Ends(server.emitted, k)
               /\ CurrentAt(server'.emitted, k) = CurrentAt(server.emitted, k)
      BY <1>1, <2>1, <2>2 DEF CurrentAt, Begins, Ends
  <2>4. ASSUME NEW n \in Nat, n <= Ends(server.emitted, Last)
        PROVE  PartsSoFar(server'.emitted, n) = PartsSoFar(server.emitted, n)
    <3>1. Last \in 0 .. Len(server.emitted) /\ Last \in 0 .. Len(server'.emitted)
        BY <1>1, <2>1 DEF Last
    <3>2. PartsSoFar(server.emitted, n) = PartsTo(server.emitted, Last, n)
        BY <1>1, <2>4, <3>1, AllPartsThere
    <3>3. server'.emitted \in Seq(Events) /\ OneByOne(server'.emitted)
        BY DEF Advances, Servers, SpoolSound
    <3>4. n <= Ends(server'.emitted, Last)
        BY <1>1, <2>3, <2>4
    <3>5. PartsSoFar(server'.emitted, n) = PartsTo(server'.emitted, Last, n)
        BY <3>1, <3>3, <3>4, AllPartsThere
    <3>6. Last \in 0 .. Last
        BY <1>1
    <3>7. QED
        BY <3>2, <3>5, <3>6, <2>2
  <2>5. QED
      BY <2>3, <2>4
<1>4. QED
    BY <1>2, <1>3 DEF Advances

(* At a place there are no more ends than at the last one.                 *)
LEMMA EndsBefore ==
    ASSUME server \in Servers, SpoolSound, NEW k \in 0 .. Last
    PROVE  /\ Ends(server.emitted, k) \in Nat /\ Ends(server.emitted, Last) \in Nat
           /\ Ends(server.emitted, k) <= Ends(server.emitted, Last)
           /\ Complete = Ends(server.emitted, Last) /\ Begun = Begins(server.emitted, Last)
<1>1. server.emitted \in Seq(Events) /\ Last \in Nat /\ k \in Nat /\ k <= Last
    BY Places
<1>2. /\ Ends(server.emitted, k) \in Nat /\ Ends(server.emitted, Last) \in Nat
      /\ Ends(server.emitted, k) <= Ends(server.emitted, Last)
    BY <1>1, CountNext, CountsGrow DEF Ends
<1>3. Complete = Ends(server.emitted, Last) /\ Begun = Begins(server.emitted, Last)
    BY <1>1, AllCounted DEF Complete, Begun, Ends, Begins, Last
<1>4. QED
    BY <1>2, <1>3

(* What was written up to a place is what is to be written up to it.       *)
LEMMA WhatIsWrittenStays ==
    ASSUME server \in Servers, SpoolSound, Advances, NEW k \in 0 .. Last,
           NEW total, NEW current, StandsAt(total, current, k)
    PROVE  /\ StandsAt(total, current, k)'
           /\ PartsUpTo(total, current)' = PartsUpTo(total, current)
           /\ AnswersUpTo(total)' = AnswersUpTo(total)
<1>1. /\ total = Ends(server.emitted, k) /\ total \in Nat
      /\ total <= Ends(server.emitted, Last)
      /\ Ends(server'.emitted, k) = Ends(server.emitted, k)
      /\ CurrentAt(server'.emitted, k) = CurrentAt(server.emitted, k)
    BY PastStays, EndsBefore DEF StandsAt
<1>2. StandsAt(total, current, k)'
  <2>1. CASE current = CurrentAt(server.emitted, k)
      BY <1>1, <2>1 DEF StandsAt
  <2>2. CASE current = Nothing /\ server.canceled /\ k = Last
    <3>1. Last' = Last /\ server'.canceled
        BY <2>2, PastStays DEF Advances
    <3>2. QED
        BY <1>1, <2>2, <3>1 DEF StandsAt, Nothing
  <2>3. QED
      BY <2>1, <2>2 DEF StandsAt
<1>3. \A n \in 1 .. total : PartsSoFar(server'.emitted, n) = PartsSoFar(server.emitted, n)
  <2>1. ASSUME NEW n \in 1 .. total
        PROVE  n \in Nat /\ n <= Ends(server.emitted, Last)
    <3>1. Ends(server.emitted, Last) \in Nat
        BY EndsBefore
    <3>2. QED
        BY <1>1, <3>1
  <2>2. QED
      BY <2>1, PastStays
<1>4. PartsUpTo(total, current)' = PartsUpTo(total, current)
    BY <1>3 DEF PartsUpTo, PartsOf, Nothing
<1>5. AnswersUpTo(total)' = AnswersUpTo(total)
    BY <1>3 DEF AnswersUpTo, AnswerOf
<1>6. QED
    BY <1>2, <1>4, <1>5

(* The state of the server and the row while the run is not closed.        *)
World ==
    /\ server \in Servers /\ shelf.row \in Rows
    /\ SpoolSound /\ RowSound /\ ~Closing

(* Places are places after a step, too.                                    *)
LEMMA PlacesThen ==
    (server \in Servers /\ SpoolSound =>
        /\ Last \in Nat /\ ReadPlace \in Nat /\ BatchPlace \in Nat
        /\ Len(server.batch.events) \in Nat
        /\ ReadPlace <= Last /\ BatchPlace + Len(server.batch.events) = ReadPlace)'
<1>1. server \in Servers /\ SpoolSound =>
        /\ Last \in Nat /\ ReadPlace \in Nat /\ BatchPlace \in Nat
        /\ Len(server.batch.events) \in Nat
        /\ ReadPlace <= Last /\ BatchPlace + Len(server.batch.events) = ReadPlace
    BY Places
<1>2. QED
    BY <1>1, PTL

(* A server that goes on keeps what the shelf is said to hold.             *)
LEMMA ShelvedStays ==
    ASSUME server \in Servers, SpoolSound, Advances, shelf' = shelf, NEW k \in 0 .. Last,
           NEW total, NEW current, StandsAt(total, current, k), Shelved(total, current)
    PROVE  Shelved(total, current)'
<1>1. /\ PartsUpTo(total, current)' = PartsUpTo(total, current)
      /\ AnswersUpTo(total)' = AnswersUpTo(total)
    BY WhatIsWrittenStays
<1>2. QED
    BY <1>1 DEF Shelved

(* The row of a server that goes on still says where its batch begins.     *)
LEMMA RowStays ==
    ASSUME World, Advances, shelf' = shelf
    PROVE  World' /\ (Shelved(shelf.row.total, shelf.row.current) =>
                         Shelved(shelf.row.total, shelf.row.current)')
<1>1. server \in Servers /\ shelf.row \in Rows /\ SpoolSound /\ RowSound /\ ~Closing
    BY DEF World
<1>2. RowPlace' = RowPlace /\ RowPlace \in 0 .. Last /\ shelf'.row = shelf.row
    BY <1>1, PlacesStay, PlacesOfRow
<1> DEFINE row == shelf.row
<1>3. StandsAt(row.total, row.current, RowPlace)
    BY <1>1 DEF RowSound
<1>4. PICK place, total, current : place = RowPlace /\ total = row.total /\ current = row.current
    OBVIOUS
<1>5. place \in 0 .. Last /\ StandsAt(total, current, place)
    BY <1>2, <1>3, <1>4
<1>6. StandsAt(total, current, place)'
    BY <1>1, <1>5, WhatIsWrittenStays
<1>7. StandsAt(shelf.row.total, shelf.row.current, RowPlace)'
  <2>1. place = RowPlace' /\ total = shelf'.row.total /\ current = shelf'.row.current
      BY <1>2, <1>4
  <2>2. QED
      BY <1>6, <2>1 DEF StandsAt
<1>8. server.batch.sequence \in {row.ack, row.ack + 1} /\ row.ack \in Nat
    BY <1>1 DEF RowSound, Rows
<1>9. server'.batch.sequence \in {row.ack, row.ack + 1} /\ ~server'.closing /\ ~server'.gone
    BY <1>1, <1>8 DEF Advances, BatchKept, BatchNew
<1>10. ASSUME row.sequence # 0
       PROVE  /\ row.sequence = row.ack + 1 /\ server'.batch.sequence = row.ack + 1
              /\ row.index <= Len(server'.batch.events)
  <2>1. row.sequence = row.ack + 1 /\ server.batch.sequence = row.ack + 1
        /\ row.index <= Len(server.batch.events)
      BY <1>1, <1>10 DEF RowSound
  <2>2. ~BatchNew
      BY <2>1, <1>8 DEF BatchNew
  <2>3. server'.batch = server.batch
      BY <1>1, <2>2 DEF Advances, BatchKept
  <2>4. QED
      BY <2>1, <2>3
<1>11. ASSUME row.phase = "done", row.sequence = 0
       PROVE  server'.ended /\ RowPlace' = Last'
  <2>1. server.ended /\ RowPlace = Last
      BY <1>1, <1>11 DEF RowSound
  <2>2. server'.ended /\ Last' = Last
      BY <1>1, <2>1, PastStays DEF Advances
  <2>3. QED
      BY <1>2, <2>1, <2>2
<1>12. RowSound'
    BY <1>2, <1>7, <1>9, <1>10, <1>11 DEF RowSound
<1>13. ~Closing'
    BY <1>1 DEF Closing, Nothing
<1>14. World'
    BY <1>1, <1>2, <1>12, <1>13 DEF World, Advances
<1>15. ASSUME Shelved(shelf.row.total, shelf.row.current)
       PROVE  Shelved(shelf.row.total, shelf.row.current)'
  <2>1. Shelved(total, current)
      BY <1>4, <1>15 DEF Shelved
  <2>2. Shelved(total, current)'
      BY <1>1, <1>5, <2>1, ShelvedStays
  <2>3. QED
      BY <2>2, <1>2, <1>4 DEF Shelved
<1>16. QED
    BY <1>14, <1>15

(* So does it keep what the page holds and does.                           *)
LEMMA HoldsStay ==
    ASSUME World, Advances, shelf' = shelf, NEW p \in Sessions, Holds(p)
    PROVE  Holds(p)' /\ PlaceOf(p)' = PlaceOf(p)
<1>1. server \in Servers /\ shelf.row \in Rows /\ SpoolSound /\ RowSound /\ ~Closing
    BY DEF World
<1>2. shelf'.row = shelf.row /\ shelf.row.ack \in Nat
    BY <1>1 DEF Rows
<1>3. p.pending # Nothing => server.batch.sequence = shelf.row.ack + 1
    BY DEF Holds, Keeps, HoldsTheLast
<1>4. PlaceOf(p)' = PlaceOf(p) /\ PlaceOf(p) \in 0 .. Last /\ AckPlace' = AckPlace
    BY <1>1, <1>3, PlacesStay, PlacesOfPage
<1>5. PICK place, total, current :
         place = PlaceOf(p) /\ total = p.stream.total /\ current = p.stream.current
    OBVIOUS
<1>6. place \in 0 .. Last /\ StandsAt(total, current, place)
    BY <1>4, <1>5 DEF Holds, Keeps, HoldsTheLast
<1>7. /\ StandsAt(total, current, place)'
      /\ PartsUpTo(total, current)' = PartsUpTo(total, current)
      /\ AnswersUpTo(total)' = AnswersUpTo(total)
    BY <1>1, <1>6, WhatIsWrittenStays
<1>8. StandsAt(p.stream.total, p.stream.current, PlaceOf(p))'
    BY <1>4, <1>5, <1>7 DEF StandsAt
<1>9. Written(p.stream)'
  <2>1. Written(p.stream)
      BY DEF Holds, Keeps, HoldsTheLast
  <2>2. QED
      BY <1>5, <1>7, <2>1 DEF Written
<1>10. ASSUME p.pending # Nothing
       PROVE  /\ p.pending.sequence = shelf'.row.ack + 1
              /\ server'.batch.sequence = shelf'.row.ack + 1
              /\ p.pending.index <= Len(server'.batch.events)
              /\ p.pending.batch = IF p.pending.known THEN server'.batch ELSE NoBatch
  <2>1. ~BatchNew
      BY <1>2, <1>3, <1>10 DEF BatchNew
  <2>2. server'.batch = server.batch
      BY <1>1, <2>1 DEF Advances, BatchKept
  <2>3. QED
      BY <1>2, <1>10, <2>2 DEF Holds, Keeps, HoldsTheLast
<1>11. ASSUME p.cancel
       PROVE  server'.canceled /\ ReadPlace' = Last' /\ (p.pending = Nothing => AckPlace' = Last')
  <2>1. server.canceled /\ ReadPlace = Last /\ (p.pending = Nothing => AckPlace = Last)
      BY <1>11 DEF Holds, Keeps, HoldsTheLast
  <2>2. server'.canceled /\ Last' = Last
      BY <1>1, <2>1, PastStays DEF Advances
  <2>3. ReadPlace' = Last'
    <3>1. CASE BatchKept
        BY <3>1, <2>1, <2>2 DEF BatchKept
    <3>2. CASE BatchNew
      <4>1. BatchPlace' = Last'
          BY <3>2, <2>1, <2>2 DEF BatchNew
      <4>2. (/\ ReadPlace \in Nat /\ BatchPlace \in Nat /\ Last \in Nat
             /\ Len(server.batch.events) \in Nat
             /\ ReadPlace <= Last /\ BatchPlace + Len(server.batch.events) = ReadPlace)'
          BY PlacesThen DEF Advances
      <4>3. QED
          BY <4>1, <4>2
    <3>3. QED
        BY <1>1, <3>1, <3>2 DEF Advances
  <2>4. QED
      BY <1>4, <2>1, <2>2, <2>3
<1>12. Holds(p)'
  <2>1. p.ack = shelf'.row.ack /\ (p.pending = Nothing' => shelf'.row.sequence = 0)
      BY <1>2 DEF Holds, Keeps, HoldsTheLast, Nothing
  <2>2. QED
      BY <1>8, <1>9, <1>10, <1>11, <2>1 DEF Holds, Keeps, HoldsTheLast, Nothing
<1>13. QED
    BY <1>4, <1>12

(* Nothing is added to a run that is canceled or whose engine is done, and *)
(* what was read to the end stays so.                                      *)
LEMMA ReadStays ==
    ASSUME World, Advances, shelf' = shelf, server.canceled, ReadPlace = Last
    PROVE  ReadPlace' = Last' /\ (AckPlace = Last => AckPlace' = Last')
<1>1. server \in Servers /\ shelf.row \in Rows /\ SpoolSound /\ RowSound /\ ~Closing
    BY DEF World
<1>2. Last' = Last
    BY <1>1, PastStays
<1>3. AckPlace' = AckPlace
    BY <1>1, PlacesStay
<1>4. CASE BatchKept
    BY <1>2, <1>3, <1>4 DEF BatchKept
<1>5. CASE BatchNew
  <2>1. BatchPlace' = Last'
      BY <1>2, <1>5 DEF BatchNew
  <2>2. (/\ ReadPlace \in Nat /\ BatchPlace \in Nat /\ Last \in Nat
         /\ Len(server.batch.events) \in Nat
         /\ ReadPlace <= Last /\ BatchPlace + Len(server.batch.events) = ReadPlace)'
      BY PlacesThen DEF Advances
  <2>3. ReadPlace' = Last'
      BY <2>1, <2>2
  <2>4. QED
      BY <1>2, <1>3, <2>3
<1>6. QED
    BY <1>1, <1>4, <1>5 DEF Advances

(* What the page does is still what it may do.                             *)
LEMMA DoesStay ==
    ASSUME World, Advances, shelf' = shelf, NEW p \in Sessions, Holds(p), Does(p)
    PROVE  Does(p)'
<1>1. server \in Servers /\ shelf.row \in Rows /\ SpoolSound /\ RowSound /\ ~Closing
      /\ (server.canceled => server'.canceled)
    BY DEF World, Advances
<1>2. shelf'.row = shelf.row /\ shelf.row.ack \in Nat
    BY <1>1 DEF Rows
<1>3. BatchKept \/ BatchNew
    BY <1>1 DEF Advances
<1>4. ASSUME server.canceled
      PROVE  \/ server'.batch = server.batch
             \/ /\ server.batch.sequence # shelf.row.ack + 1
                /\ server'.batch.sequence = shelf.row.ack + 1 /\ server'.batch.canceled
  <2>1. CASE BatchKept
      BY <2>1 DEF BatchKept
  <2>2. CASE BatchNew
    <3>1. server'.batch.canceled
        BY <1>4, <2>2 DEF BatchNew
    <3>2. server.batch.sequence # shelf.row.ack + 1
          /\ server'.batch.sequence = shelf'.row.ack + 1 /\ shelf'.row.ack = shelf.row.ack
        BY <1>2, <2>2 DEF BatchNew
    <3>3. QED
        BY <3>1, <3>2
  <2>3. QED
      BY <1>3, <2>1, <2>2
<1>5. ASSUME p.doing \in {"Write", "Finish"}
      PROVE  /\ p.purpose # "cancel"
             /\ p.pending # Nothing => p.pending.known
             /\ p.purpose # "read" => server'.canceled /\ (p.more \/ p.cancel)
             /\ p.purpose \in {"first", "rest"} => p.pending # Nothing
             /\ p.purpose = "last" => ~p.more
    BY <1>1, <1>5 DEF Does
<1>6. p.doing = "Finish" => ~Unpushed(p)'
    BY DEF Does, Unpushed, Bound, Nothing
<1>7. p.doing = "Output" =>
          /\ p.purpose \in {"read", "rest"}
          /\ p.purpose = "rest" =>
                /\ server'.canceled
                /\ server'.batch.sequence = shelf'.row.ack + 1 => server'.batch.canceled
    BY <1>1, <1>2, <1>4 DEF Does
<1>8. p.doing = "SaveCanceling" => ReplyKept(p)'
  <2> DEFINE r == p.reply
             n == r.batch.sequence
             ack == shelf.row.ack
  <2>1. SUFFICES ASSUME p.doing = "SaveCanceling" PROVE ReplyKept(p)'
      OBVIOUS
  <2>2. ReplyKept(p)
      BY <2>1 DEF Does
  <2>3. /\ r # Nothing /\ server.canceled
        /\ n \in {ack, ack + 1}
        /\ n = ack + 1 => r.batch = server.batch
        /\ p.pending # Nothing => n = ack + 1
        /\ n = ack /\ server.batch.sequence = ack + 1 => server.batch.canceled
        /\ ~r.more => ReadPlace = Last
        /\ ~r.more /\ n = ack => AckPlace = Last
      BY <2>2 DEF ReplyKept
  <2>4. n = ack + 1 => r.batch = server'.batch
      BY <2>3, <1>1, <1>4 DEF ReplyKept
  <2>5. n = ack /\ server'.batch.sequence = ack + 1 => server'.batch.canceled
      BY <2>3, <1>4
  <2>6. /\ ~r.more => ReadPlace' = Last'
        /\ ~r.more /\ n = ack => AckPlace' = Last'
      BY <2>3, ReadStays
  <2>7. QED
      BY <1>1, <1>2, <2>3, <2>4, <2>5, <2>6 DEF ReplyKept, Nothing
<1>9. p.doing \notin {"SaveClosing", "Close", "Drop", "Forget"}
    BY DEF Does
<1>10. QED
    BY <1>5, <1>6, <1>7, <1>8, <1>9 DEF Does, Nothing

(* A run that is canceled brings nothing out, so all of it stays saved.    *)
LEMMA SavedStays ==
    ASSUME server \in Servers, SpoolSound, Advances, shelf' = shelf
    PROVE  /\ AllSaved => AllSaved'
           /\ server.canceled => Complete' = Complete
           /\ Closing' <=> Closing
           /\ \A total, current : server.canceled /\ Shelved(total, current)
                 => Shelved(total, current)'
<1>1. ASSUME server.canceled PROVE server'.emitted = server.emitted /\ server'.canceled
    BY <1>1, PastStays DEF Advances
<1>2. server.canceled => Complete' = Complete
    BY <1>1 DEF Complete
<1>3. AllSaved => AllSaved'
    BY <1>1, <1>2 DEF AllSaved, Nothing
<1>4. Closing' <=> Closing
    BY DEF Closing, Nothing
<1>5. ASSUME NEW total, NEW current, server.canceled, Shelved(total, current)
      PROVE  Shelved(total, current)'
    BY <1>1, <1>5 DEF Shelved, PartsUpTo, PartsOf, AnswersUpTo, AnswerOf, Nothing
<1>6. QED
    BY <1>2, <1>3, <1>4, <1>5

(* The shelf has what it says.                                             *)
LEMMA ShelfStays ==
    ASSUME server \in Servers, SpoolSound, Advances, shelf' = shelf,
           shelf.row \in Rows \cup {Nothing}, ShelfSound, ~Closing => RowSound
    PROVE  ShelfSound' /\ (~Closing' => World')
<1>1. CASE shelf.row = Nothing
  <2>1. server.canceled /\ Shelved(Complete, Nothing)
      BY <1>1 DEF ShelfSound
  <2>2. server'.canceled /\ Complete' = Complete
      BY <2>1, SavedStays DEF Advances
  <2>3. PICK total, current : total = Complete /\ current = Nothing
      OBVIOUS
  <2>4. Shelved(total, current)
      BY <2>1, <2>3 DEF Shelved
  <2>5. Shelved(total, current)'
      BY <2>1, <2>4, SavedStays
  <2>6. Shelved(Complete, Nothing)'
      BY <2>2, <2>3, <2>5 DEF Shelved, Nothing
  <2>7. Closing /\ Closing'
      BY <1>1 DEF Closing, Nothing
  <2>8. QED
      BY <1>1, <2>2, <2>6, <2>7 DEF ShelfSound, Nothing
<1>2. CASE shelf.row # Nothing /\ shelf.row.phase = "closing"
  <2>1. Shelved(shelf.row.total, shelf.row.current) /\ AllSaved /\ server.canceled
      BY <1>2 DEF ShelfSound, AllSaved
  <2>3. PICK total, current : total = shelf.row.total /\ current = shelf.row.current
      OBVIOUS
  <2>4. Shelved(total, current)
      BY <2>1, <2>3 DEF Shelved
  <2>5. Shelved(total, current)' /\ AllSaved'
      BY <2>1, <2>4, SavedStays
  <2>6. Shelved(shelf.row.total, shelf.row.current)'
      BY <2>3, <2>5 DEF Shelved
  <2>7. Closing /\ Closing'
      BY <1>2 DEF Closing, Nothing
  <2>8. QED
      BY <1>2, <2>5, <2>6, <2>7 DEF ShelfSound, Nothing
<1>3. CASE ~Closing
  <2>1. World
      BY <1>3 DEF World, Closing
  <2>2. Shelved(shelf.row.total, shelf.row.current) /\ shelf.row # Nothing
        /\ shelf.row.phase # "closing"
      BY <1>3 DEF ShelfSound, Closing
  <2>3. World' /\ Shelved(shelf.row.total, shelf.row.current)'
      BY <2>1, <2>2, RowStays
  <2>4. QED
      BY <2>2, <2>3 DEF ShelfSound, Nothing
<1>4. QED
    BY <1>1, <1>2, <1>3 DEF Closing

(* A page that stays is sound in the state after.                          *)
LEMMA PageStays ==
    ASSUME server \in Servers, SpoolSound, Advances, shelf' = shelf,
           shelf.row \in Rows \cup {Nothing}, ~Closing => RowSound,
           NEW p \in Sessions, PageSound(p)
    PROVE  PageSound(p)'
<1>1. Closing' <=> Closing
    BY SavedStays
<1>2. ~Closing => World
    BY DEF World, Closing
<1>3. ~p.stream.refuted
    BY DEF PageSound
<1>4. ~Closing => Holds(p)'
    BY <1>2, HoldsStay DEF PageSound
<1>5. ASSUME p.stop = "closing" PROVE Closes(p)'
  <2>1. Closes(p)
      BY <1>5 DEF PageSound
  <2>2. AllSaved'
      BY <2>1, SavedStays DEF Closes
  <2>3. QED
      BY <2>1, <2>2 DEF Closes, Nothing
<1>6. ASSUME p.stop # "closing" PROVE ~Closing /\ Does(p)'
  <2>1. ~Closing /\ Does(p) /\ Holds(p)
      BY <1>6 DEF PageSound
  <2>2. QED
      BY <1>2, <2>1, DoesStay
<1>7. QED
    BY <1>1, <1>3, <1>4, <1>5, <1>6 DEF PageSound

-----------------------------------------------------------------------------
(* What the page makes of what it holds.                                   *)

(* What is thrown leaves of the page.                                      *)
LEMMA ThrownIs ==
    ASSUME NEW p \in Sessions
    PROVE  LET q == Thrown(p) IN
           /\ q \in Sessions /\ q.doing = "Idle" /\ q.cancel = FALSE
           /\ q.stop = IF p.purpose = "read" \/ p.stop = "closing" THEN p.stop ELSE "no"
           /\ q.pending = p.pending /\ q.stream = p.stream /\ q.ack = p.ack
<1> DEFINE q == Thrown(p)
           status == IF p.status = "reading" THEN "stopped" ELSE p.status
           stop == IF p.purpose = "read" \/ p.stop = "closing" THEN p.stop ELSE "no"
<1>1. /\ status \in {"stopped", "done", "canceled"}
      /\ stop \in {"no", "cancel", "close", "closing"}
    BY DEF Sessions
<1>2. q = [p EXCEPT !.doing = "Idle", !.cancel = FALSE, !.more = FALSE, !.reply = Nothing,
                    !.status = status, !.stop = stop]
    BY DEF Thrown, Sessions
<1> HIDE DEF q, status
<1>3. q.stop = stop
  <2> HIDE DEF stop
  <2> QED
    BY <1>2 DEF Sessions
<1> HIDE DEF stop
<1>4. /\ q \in Sessions /\ q.doing = "Idle" /\ q.cancel = FALSE
      /\ q.pending = p.pending /\ q.stream = p.stream /\ q.ack = p.ack
    BY <1>1, <1>2 DEF Sessions, Doings
<1>5. QED
    BY <1>3, <1>4 DEF q, stop

(* What is thrown keeps what the page holds.                               *)
LEMMA ThrownSound ==
    ASSUME NEW p \in Sessions, PageSound(p)
    PROVE  Thrown(p) \in Sessions /\ PageSound(Thrown(p))
<1> DEFINE q == Thrown(p)
           stop == IF p.purpose = "read" \/ p.stop = "closing" THEN p.stop ELSE "no"
<1>1. /\ q \in Sessions
      /\ q.doing = "Idle" /\ q.cancel = FALSE /\ q.stop = stop
      /\ q.pending = p.pending /\ q.stream = p.stream /\ q.ack = p.ack
    BY ThrownIs
<1> HIDE DEF q
<1>2. ~Closing => Holds(q)
    BY <1>1 DEF PageSound, Holds, Keeps, PlaceOf
<1>3. CASE p.stop = "closing"
  <2>1. Closes(p) /\ q.stop = "closing"
      BY <1>1, <1>3 DEF PageSound
  <2>2. Closes(q)
      BY <1>1, <2>1 DEF Closes
  <2>3. QED
      BY <1>1, <1>2, <2>1, <2>2 DEF PageSound, q
<1>4. CASE p.stop # "closing"
  <2>1. ~Closing /\ q.stop # "closing"
      BY <1>1, <1>4 DEF PageSound
  <2>2. Does(q)
      BY <1>1 DEF Does
  <2>3. QED
      BY <1>1, <1>2, <2>1, <2>2 DEF PageSound, q
<1>5. QED
    BY <1>3, <1>4

(* A check that holds refutes nothing.                                     *)
LEMMA NotRefuted ==
    ASSUME NEW p \in Sessions, ~p.stream.refuted, NEW unless, unless
    PROVE  Refute(p, unless) = p
<1>1. p.stream.refuted = FALSE /\ p.stream = [p.stream EXCEPT !.refuted = FALSE]
    BY DEF Sessions, StreamRecords
<1>2. (p.stream.refuted \/ ~unless) = FALSE
    BY <1>1
<1>3. Refute(p, unless) = [p EXCEPT !.stream = [p.stream EXCEPT !.refuted = FALSE]]
    BY <1>2 DEF Refute
<1>4. QED
    BY <1>1, <1>3 DEF Sessions

(* attachBatch of the batch the server keeps.                              *)
LEMMA AttachedSound ==
    ASSUME World, NEW p \in Sessions, ~p.stream.refuted, Keeps(p),
           server.batch.sequence = shelf.row.ack + 1
    PROVE  \E d \in PendingRecords :
              LET q == [p EXCEPT !.pending = d] IN
              /\ Attached(p, server.batch) = q /\ d.known /\ d # Nothing /\ d.batch = server.batch
              /\ q \in Sessions /\ Keeps(q)
<1>1. /\ server.batch \in Batches /\ server.batch.sequence \in Nat /\ shelf.row.ack \in Nat
      /\ Len(server.batch.events) \in Nat /\ BatchPlace \in Nat
    BY Places DEF World, Rows
<1>2. CASE p.pending = Nothing
  <2> DEFINE d == Batch(server.batch)
             q == [p EXCEPT !.pending = d]
  <2>1. /\ d \in PendingRecords /\ d.known /\ d # Nothing /\ d.batch = server.batch
        /\ d.sequence = shelf.row.ack + 1 /\ d.index = 0
      BY <1>1 DEF Batch, PendingRecords, Nothing
  <2>2. Attached(p, server.batch) = q
      BY <1>2 DEF Attached
  <2> HIDE DEF d
  <2>3. /\ q \in Sessions /\ q.pending = d
        /\ q.ack = p.ack /\ q.stream = p.stream
      BY <2>1 DEF Sessions
  <2> HIDE DEF q
  <2>4. PlaceOf(q) = PlaceOf(p)
    <3>1. PlaceOf(p) = BatchPlace
        BY <1>1, <1>2 DEF PlaceOf, AckPlace
    <3>2. PlaceOf(q) = BatchPlace
        BY <1>1, <2>1, <2>3 DEF PlaceOf
    <3>3. QED
        BY <3>1, <3>2
  <2>5. Keeps(q)
      BY <1>1, <1>2, <2>1, <2>3, <2>4 DEF Keeps
  <2>6. QED
      BY <2>1, <2>2, <2>3, <2>5 DEF q
<1>3. CASE p.pending # Nothing
  <2> DEFINE d == [p.pending EXCEPT !.batch = server.batch, !.known = TRUE]
             q == [p EXCEPT !.pending = d]
  <2>1. p.pending \in PendingRecords
      BY <1>3 DEF Sessions
  <2>2. /\ d \in PendingRecords /\ d.known /\ d.batch = server.batch
        /\ d.sequence = p.pending.sequence /\ d.index = p.pending.index
      BY <1>1, <2>1 DEF PendingRecords
  <2> HIDE DEF d
  <2>3. d # Nothing
      BY <2>2 DEF PendingRecords, Nothing
  <2>4. /\ q \in Sessions /\ q.pending = d
        /\ q.ack = p.ack /\ q.stream = p.stream
      BY <2>2 DEF Sessions
  <2>5. p.pending.sequence = server.batch.sequence /\ p.pending.index <= Len(server.batch.events)
      BY <1>3 DEF Keeps
  <2>6. Attached(p, server.batch)
          = Refute(q, p.pending.sequence = server.batch.sequence
                      /\ p.pending.index <= Len(server.batch.events))
      BY <1>3 DEF Attached, d
  <2>7. ~q.stream.refuted
      BY <2>4
  <2> HIDE DEF q
  <2>8. Attached(p, server.batch) = q
      BY <2>4, <2>5, <2>6, <2>7, NotRefuted
  <2>9. PlaceOf(q) = PlaceOf(p)
      BY <1>3, <2>2, <2>3, <2>4 DEF PlaceOf
  <2>10. Keeps(q)
      BY <1>3, <2>2, <2>3, <2>4, <2>9 DEF Keeps
  <2>11. QED
      BY <2>2, <2>3, <2>4, <2>8, <2>10 DEF q
<1>4. QED
    BY <1>2, <1>3

(* deliverPending.                                                         *)
LEMMA DeliverSound ==
    ASSUME World, NEW p \in Sessions, NEW cancel \in BOOLEAN,
           ~p.stream.refuted, Keeps(p), p.stop # "closing", p.purpose # "cancel",
           p.pending # Nothing => p.pending.known,
           p.purpose # "read" => server.canceled /\ (p.more \/ cancel),
           p.purpose \in {"first", "rest"} => p.pending # Nothing,
           p.purpose = "last" => ~p.more,
           cancel => HoldsTheLast(p)
    PROVE  Deliver(p, cancel) \in Sessions /\ PageSound(Deliver(p, cancel))
<1> DEFINE last == p.pending # Nothing /\ IsLast(p.pending.batch)
           q == [p EXCEPT !.cancel = cancel \/ last]
           r == Deliver(p, cancel)
           doing == IF ~q.cancel \/ Unpushed(q) THEN "Write" ELSE "Finish"
<1>1. last \in BOOLEAN
    BY DEF IsLast, Sessions, PendingRecords, Batches
<1>2. r = [q EXCEPT !.doing = doing]
    BY DEF Deliver
<1>3. doing \in {"Write", "Finish"} /\ (doing = "Finish" => q.cancel /\ ~Unpushed(q))
    OBVIOUS
<1> HIDE DEF doing
<1>4. /\ q \in Sessions /\ q.cancel = (cancel \/ last) /\ q.pending = p.pending
    BY <1>1 DEF Sessions
<1>5. /\ r \in Sessions /\ r.doing = doing /\ r.cancel = (cancel \/ last)
      /\ r.pending = p.pending /\ r.stream = p.stream /\ r.ack = p.ack
      /\ r.stop = p.stop /\ r.purpose = p.purpose /\ r.more = p.more
  <2> HIDE DEF r, last
  <2> QED
    BY <1>1, <1>2, <1>3 DEF Sessions, Doings
<1> HIDE DEF r
<1>6. last => HoldsTheLast(p)
  <2>1. SUFFICES ASSUME last PROVE HoldsTheLast(p)
      OBVIOUS
  <2>2. p.pending.batch = server.batch
      BY <2>1 DEF Keeps
  <2>3. server.batch.canceled /\ server.batch.drained
      BY <2>1, <2>2 DEF IsLast
  <2>4. QED
      BY <2>1, <2>3 DEF HoldsTheLast, World, SpoolSound
<1> HIDE DEF last
<1>7. Holds(r)
    BY <1>5, <1>6 DEF Holds, Keeps, HoldsTheLast, PlaceOf
<1>8. r.doing = "Finish" => ~Unpushed(r)
    BY <1>3, <1>4, <1>5 DEF Unpushed, Bound
<1> HIDE DEF q
<1>9. Does(r)
    BY <1>3, <1>5, <1>8 DEF Does
<1>10. QED
    BY <1>5, <1>7, <1>9 DEF PageSound, World, r

-----------------------------------------------------------------------------
(* Deliveries.                                                             *)

(* A delivery stops within the batch, at its end or after the end of an    *)
(* alternative.                                                            *)
LEMMA BoundIs ==
    ASSUME NEW p \in Sessions, p.pending # Nothing,
           NEW n \in Nat, n = Len(p.pending.batch.events), p.pending.index <= n
    PROVE  LET ends == {i \in p.pending.index + 1 .. n : p.pending.batch.events[i].kind = "end"} IN
           /\ p.pending.index \in Nat /\ Bound(p) \in p.pending.index .. n
           /\ ~p.cancel => Bound(p) = n
           /\ p.cancel => /\ Bound(p) \in ends \cup {p.pending.index}
                          /\ \A i \in ends : i <= Bound(p)
<1> DEFINE index == p.pending.index
           ends == {i \in index + 1 .. n : p.pending.batch.events[i].kind = "end"}
<1>1. index \in Nat
    BY DEF Sessions, PendingRecords
<1>2. CASE ~p.cancel
  <2>1. Bound(p) = n
      BY <1>2 DEF Bound
  <2>2. QED
      BY <1>1, <1>2, <2>1
<1>3. CASE p.cancel
  <2>1. Bound(p) = Max({index} \cup ends)
      BY <1>3 DEF Bound
  <2>2. {index} \cup ends \in SUBSET (0 .. n) /\ {index} \cup ends # {}
      BY <1>1
  <2> DEFINE S == {index} \cup ends
  <2>3. Max(S) \in S /\ \A y \in S : Max(S) >= y
    <3> HIDE DEF S
    <3> QED
      BY <2>2, MaxIsIn DEF S
  <2>4. Bound(p) \in {index} \cup ends /\ \A y \in {index} \cup ends : Bound(p) >= y
      BY <2>1, <2>3
  <2>5. Bound(p) \in Int
      BY <1>1, <2>4
  <2>6. QED
      BY <1>1, <1>3, <2>4, <2>5
<1>4. QED
    BY <1>2, <1>3

(* The stream before an event of the batch, and after it.                  *)
LEMMA PushesAreExact ==
    ASSUME World, NEW index \in Nat, NEW limit \in Nat, index < limit,
           limit <= Len(server.batch.events),
           NEW t, Exact(t, BatchPlace + index), t.writes = {},
           NEW streams, streams = Streams(t, server.batch.events, index),
           NEW to, to = PushedTo(streams, index, limit)
    PROVE  /\ to \in index + 1 .. limit
           /\ ~NeedsFlush(streams[to]) => to = limit
           /\ Exact(streams[to], BatchPlace + to)
<1> DEFINE events == server.batch.events
           S == {limit} \cup {k \in index + 1 .. limit : NeedsFlush(streams[k])}
<1>1. /\ events \in Seq(Events) /\ Len(events) \in Nat /\ BatchPlace \in Nat
      /\ BatchPlace + Len(events) <= Last /\ server.emitted \in Seq(Events)
      /\ OneByOne(server.emitted) /\ Last = Len(server.emitted) /\ Last \in Nat
    BY Places DEF World, SpoolSound, Last
<1>2. /\ streams[index] = t
      /\ \A k \in index + 1 .. Len(events) : streams[k] = Push(streams[k - 1], events[k])
  <2>1. index <= Len(events)
      BY <1>1
  <2>2. QED
      BY <1>1, <2>1, StreamsAre
<1>3. to \in S /\ \A k \in S : to <= k
  <2>1. to = Min(S)
      BY DEF PushedTo
  <2>2. S \in SUBSET Nat /\ S # {}
      OBVIOUS
  <2> HIDE DEF S
  <2>3. QED
      BY <2>1, <2>2, MinIsIn
<1>4. to \in index + 1 .. limit /\ to \in Nat
    BY <1>3
<1>5. ~NeedsFlush(streams[to]) => to = limit
    BY <1>3
<1>6. ~NeedsFlush(t)
  <2>1. Cardinality(t.writes) = 0
      BY FS_EmptySet
  <2>2. QED
      BY <2>1, DeliveryBounds DEF NeedsFlush
<1>7. ASSUME NEW k \in index + 1 .. limit, k < to
      PROVE  ~NeedsFlush(streams[k])
    BY <1>3, <1>4, <1>7
<1> DEFINE R == {d \in Nat : index + d <= to => Exact(streams[index + d], BatchPlace + (index + d))}
<1>8. 0 \in R
  <2>1. index + 0 = index
      OBVIOUS
  <2>2. QED
      BY <1>2, <2>1
<1>9. ASSUME NEW d \in R PROVE d + 1 \in R
  <2>0. d \in Nat /\ (index + d <= to => Exact(streams[index + d], BatchPlace + (index + d)))
      OBVIOUS
  <2>1. SUFFICES ASSUME index + (d + 1) <= to
                 PROVE  Exact(streams[index + (d + 1)], BatchPlace + (index + (d + 1)))
      BY <2>0
  <2> HIDE DEF R
  <2> DEFINE k == index + d
             place == BatchPlace + k
  <2>2. /\ k \in Nat /\ k < to /\ k + 1 \in index + 1 .. Len(events) /\ (k + 1) - 1 = k
        /\ k + 1 \in 1 .. Len(events)
        /\ index + (d + 1) = k + 1 /\ k >= index /\ k <= limit
        /\ place \in Nat /\ place + 1 = BatchPlace + (k + 1) /\ place + 1 <= Last
    <3>1. /\ d \in Nat /\ index \in Nat /\ to \in index + 1 .. limit /\ index + (d + 1) <= to
          /\ Len(events) \in Nat /\ BatchPlace \in Nat /\ limit <= Len(events)
          /\ BatchPlace + Len(events) <= Last /\ Last \in Nat
        BY <1>1, <1>4, <2>0, <2>1
    <3> DEFINE n == Len(events)
               b == BatchPlace
               l == Last
    <3>2. /\ d \in Nat /\ index \in Nat /\ to \in index + 1 .. limit /\ index + (d + 1) <= to
          /\ n \in Nat /\ b \in Nat /\ limit <= n /\ b + n <= l /\ l \in Nat
        BY <3>1
    <3> HIDE DEF n, b, l
    <3>3. /\ k \in Nat /\ k < to /\ k + 1 \in index + 1 .. n /\ (k + 1) - 1 = k
          /\ k + 1 \in 1 .. n
          /\ index + (d + 1) = k + 1 /\ k >= index /\ k <= limit
          /\ b + k \in Nat /\ (b + k) + 1 = b + (k + 1) /\ (b + k) + 1 <= l
        BY <3>2
    <3>4. QED
        BY <3>3 DEF n, b, l
  <2>3. Exact(streams[k], place)
    <3>1. index + d <= to
        BY <1>4, <2>0, <2>2
    <3>2. QED
        BY <2>0, <3>1
  <2>4. ~NeedsFlush(streams[k])
    <3>1. CASE k = index
        BY <3>1, <1>2, <1>6
    <3>2. CASE k # index
      <4>1. k \in index + 1 .. limit
          BY <3>2, <2>2
      <4>2. QED
          BY <4>1, <2>2, <1>7
    <3>3. QED
        BY <3>1, <3>2
  <2> HIDE DEF k
  <2>5. streams[k + 1] = Push(streams[k], events[k + 1])
      BY <1>2, <2>2
  <2>6. events[k + 1] = server.emitted[place + 1]
    <3>1. events[k + 1] = server.emitted[BatchPlace + (k + 1)]
        BY <2>2 DEF World, SpoolSound
    <3>2. QED
        BY <3>1, <2>2
  <2> DEFINE s == streams[k]
  <2>7. Exact(Push(s, server.emitted[place + 1]), place + 1)
    <3>1. place + 1 <= Len(server.emitted)
        BY <1>1, <2>2
    <3> HIDE DEF s, place
    <3> QED
      BY <1>1, <2>2, <2>3, <2>4, <3>1, PushIsExact DEF s
  <2>8. QED
      BY <2>2, <2>5, <2>6, <2>7
<1>10. R = Nat
  <2>1. R \in SUBSET Nat
      OBVIOUS
  <2> HIDE DEF R
  <2>2. QED
      BY <1>8, <1>9, <2>1, Inductive
<1>11. to - index \in R /\ index + (to - index) = to /\ to - index \in Nat
  <2>1. to - index \in Nat /\ index + (to - index) = to
      BY <1>4
  <2> HIDE DEF R
  <2>2. QED
      BY <1>10, <2>1
<1>12. Exact(streams[to], BatchPlace + to)
    BY <1>11
<1>13. QED
    BY <1>4, <1>5, <1>12

(* deliverCachedOutput: what a page that has written all does next.        *)
LEMMA PushOnSound ==
    ASSUME World, NEW p \in Sessions, p.doing = "Write", p.stop # "closing",
           ~p.stream.refuted, p.stream.writes = {}, Holds(p), Does(p)
    PROVE  PushOn(p) \in Sessions /\ PageSound(PushOn(p))
<1> DEFINE q == PushOn(p)
<1>1. CASE ~Unpushed(p)
  <2>1. q = [p EXCEPT !.doing = "Finish"]
      BY <1>1 DEF PushOn
  <2>2. /\ q \in Sessions /\ q.doing = "Finish" /\ q.pending = p.pending /\ q.stream = p.stream
        /\ q.ack = p.ack /\ q.stop = p.stop /\ q.cancel = p.cancel /\ q.purpose = p.purpose
        /\ q.more = p.more
      BY <2>1 DEF Sessions, Doings
  <2> HIDE DEF q
  <2>3. Holds(q)
      BY <2>2 DEF Holds, Keeps, HoldsTheLast, PlaceOf
  <2>4. ~Unpushed(q)
      BY <1>1, <2>2 DEF Unpushed, Bound
  <2>5. Does(q)
      BY <2>2, <2>4 DEF Does
  <2>6. QED
      BY <2>2, <2>3, <2>5 DEF PageSound, World, q
<1>2. CASE Unpushed(p)
  <2> DEFINE batch == server.batch
             index == p.pending.index
             limit == Bound(p)
             n == Len(batch.events)
             t == p.stream
             streams == Streams(t, batch.events, index)
             to == PushedTo(streams, index, limit)
             d == [p.pending EXCEPT !.index = to]
  <2>1. /\ p.pending # Nothing /\ p.pending.known /\ p.pending \in PendingRecords
        /\ index < limit
      BY <1>2 DEF Unpushed, Does, Sessions
  <2>2. /\ p.pending.batch = batch /\ index <= n /\ p.pending.sequence = shelf.row.ack + 1
        /\ server.batch.sequence = shelf.row.ack + 1
      BY <2>1 DEF Holds, Keeps
  <2>3. n \in Nat /\ BatchPlace \in Nat /\ BatchPlace + n = ReadPlace /\ ReadPlace <= Last
        /\ Last \in Nat
      BY Places DEF World
  <2>4. /\ index \in Nat /\ limit \in index .. n
        /\ ~p.cancel => limit = n
        /\ p.cancel => \A i \in index + 1 .. n : batch.events[i].kind = "end" => i <= limit
    <3>1. LET ends == {i \in p.pending.index + 1 .. n : p.pending.batch.events[i].kind = "end"} IN
           /\ p.pending.index \in Nat /\ Bound(p) \in p.pending.index .. n
           /\ ~p.cancel => Bound(p) = n
           /\ p.cancel => /\ Bound(p) \in ends \cup {p.pending.index}
                          /\ \A i \in ends : i <= Bound(p)
      <4>1. n = Len(p.pending.batch.events)
          BY <2>2
      <4> HIDE DEF n
      <4>2. QED
          BY <2>1, <2>2, <2>3, <4>1, BoundIs
    <3>2. QED
        BY <2>2, <3>1
  <2>5. Exact(t, BatchPlace + index)
    <3>1. StandsAt(t.total, t.current, BatchPlace + index)
        BY <2>1 DEF Holds, Keeps, PlaceOf
    <3>2. BatchPlace + index # Last
        BY <2>1, <2>3, <2>4
    <3>3. t.total = Ends(server.emitted, BatchPlace + index)
          /\ t.current = CurrentAt(server.emitted, BatchPlace + index)
        BY <3>1, <3>2 DEF StandsAt
    <3>4. t \in StreamRecords /\ Written(t)
        BY DEF Holds, Keeps, Sessions
    <3>5. QED
        BY <3>3, <3>4 DEF Exact
  <2>6. q = [p EXCEPT !.stream = streams[to], !.pending = d,
                      !.doing = IF NeedsFlush(streams[to]) THEN "Write" ELSE "Finish"]
      BY <1>2, <2>2 DEF PushOn
  <2> HIDE DEF t, limit, n, index
  <2>7. /\ to \in index + 1 .. limit
        /\ ~NeedsFlush(streams[to]) => to = limit
        /\ Exact(streams[to], BatchPlace + to)
    <3>1. limit \in Nat /\ limit <= Len(server.batch.events)
        BY <2>3, <2>4 DEF n
    <3>2. t.writes = {} /\ index < limit
        BY <2>1 DEF t, index, limit
    <3>3. PICK f, e : f = streams /\ e = to
        OBVIOUS
    <3>4. f = Streams(t, server.batch.events, index) /\ e = PushedTo(f, index, limit)
        BY <3>3
    <3>5. /\ e \in index + 1 .. limit
          /\ ~NeedsFlush(f[e]) => e = limit
          /\ Exact(f[e], BatchPlace + e)
        BY <2>4, <2>5, <3>1, <3>2, <3>4, PushesAreExact
    <3>6. QED
        BY <3>3, <3>5
  <2> DEFINE s == streams[to]
             doing == IF NeedsFlush(s) THEN "Write" ELSE "Finish"
  <2> HIDE DEF to, s
  <2>8. s \in StreamRecords /\ ~s.refuted /\ StandsAt(s.total, s.current, BatchPlace + to) /\ Written(s)
        /\ to \in Nat /\ to <= n /\ doing \in {"Write", "Finish"} /\ (doing = "Finish" => to = limit)
    <3>1. Exact(s, BatchPlace + to) /\ to \in index + 1 .. limit
          /\ (~NeedsFlush(s) => to = limit)
        BY <2>7 DEF s
    <3>2. to \in Nat /\ to <= n
        BY <2>3, <2>4, <3>1
    <3>3. s \in StreamRecords /\ ~s.refuted /\ StandsAt(s.total, s.current, BatchPlace + to) /\ Written(s)
        BY <3>1 DEF Exact, StandsAt
    <3>4. doing \in {"Write", "Finish"} /\ (doing = "Finish" => to = limit)
        BY <3>1
    <3>5. QED
        BY <3>2, <3>3, <3>4
  <2>9. q = [p EXCEPT !.stream = s, !.pending = d, !.doing = doing]
      BY <2>6 DEF s
  <2> HIDE DEF q, doing
  <2>10. /\ d \in PendingRecords /\ d.known /\ d.batch = server.batch /\ d.index = to
         /\ d.sequence = p.pending.sequence
      BY <2>1, <2>2, <2>8 DEF PendingRecords
  <2> HIDE DEF d
  <2>11. d # Nothing
      BY <2>10 DEF PendingRecords, Nothing
  <2>12. /\ q \in Sessions /\ q.doing = doing /\ q.pending = d /\ q.stream = s
         /\ q.ack = p.ack /\ q.stop = p.stop /\ q.cancel = p.cancel /\ q.purpose = p.purpose
         /\ q.more = p.more
      BY <2>8, <2>9, <2>10 DEF Sessions, Doings
  <2>13. PlaceOf(q) = BatchPlace + to
      BY <2>10, <2>11, <2>12 DEF PlaceOf
  <2>14. Keeps(q)
    <3>1. q.pending.sequence = shelf.row.ack + 1 /\ q.pending.index <= Len(server.batch.events)
        BY <2>2, <2>8, <2>10, <2>12 DEF n
    <3>2. q.ack = shelf.row.ack
        BY <2>12 DEF Holds, Keeps
    <3>3. QED
        BY <2>2, <2>8, <2>10, <2>11, <2>12, <2>13, <3>1, <3>2 DEF Keeps
  <2>15. q.cancel => HoldsTheLast(q)
      BY <2>11, <2>12 DEF Holds, HoldsTheLast
  <2>16. q.doing = "Finish" => ~Unpushed(q)
    <3>1. SUFFICES ASSUME q.doing = "Finish" PROVE ~(to < Bound(q))
        BY <2>10, <2>12 DEF Unpushed
    <3>2. to = limit
        BY <2>8, <2>12, <3>1
    <3>3. LET ends == {i \in q.pending.index + 1 .. n : q.pending.batch.events[i].kind = "end"} IN
           /\ q.pending.index \in Nat /\ Bound(q) \in q.pending.index .. n
           /\ ~q.cancel => Bound(q) = n
           /\ q.cancel => /\ Bound(q) \in ends \cup {q.pending.index}
                          /\ \A i \in ends : i <= Bound(q)
      <4>1. n = Len(q.pending.batch.events) /\ q.pending.index <= n
          BY <2>8, <2>10, <2>12 DEF n
      <4>2. QED
          BY <2>3, <2>11, <2>12, <4>1, BoundIs
    <3>4. /\ ~q.cancel => Bound(q) = n
          /\ q.cancel => \/ Bound(q) = to
                         \/ Bound(q) \in to + 1 .. n /\ batch.events[Bound(q)].kind = "end"
        BY <2>10, <2>12, <3>3
    <3>5. CASE ~q.cancel
        BY <2>4, <2>8, <2>12, <3>2, <3>4, <3>5
    <3>6. CASE q.cancel
      <4>1. \A i \in index + 1 .. n : batch.events[i].kind = "end" => i <= to
          BY <2>4, <2>12, <3>2, <3>6
      <4>2. index <= to /\ index \in Nat
          BY <2>4, <3>2
      <4> DEFINE k == Bound(q)
      <4>3. k = to \/ (k \in to + 1 .. n /\ batch.events[k].kind = "end")
          BY <3>4, <3>6
      <4> HIDE DEF k
      <4>4. k \in to + 1 .. n => k \in index + 1 .. n
          BY <2>8, <4>2
      <4>5. k = to
          BY <2>8, <4>1, <4>3, <4>4
      <4>6. QED
          BY <2>8, <4>5 DEF k
    <3>7. QED
        BY <3>5, <3>6
  <2>17. Does(q)
      BY <2>8, <2>10, <2>11, <2>12, <2>16 DEF Does
  <2>18. ~q.stream.refuted /\ q.stop # "closing"
      BY <2>8, <2>12
  <2>19. QED
      BY <2>12, <2>14, <2>15, <2>17, <2>18 DEF PageSound, Holds, World, q
<1>3. QED
    BY <1>1, <1>2

-----------------------------------------------------------------------------
(* After a delivery, and after an answer.                                  *)

(* A page at rest need only hold what it says.                             *)
LEMMA AtRestSound ==
    ASSUME World, NEW p \in Sessions, p.doing = "Idle", ~p.cancel, p.stop # "closing",
           ~p.stream.refuted, Keeps(p)
    PROVE  PageSound(p)
<1>1. Holds(p) /\ Does(p)
    BY DEF Holds, Does
<1>2. QED
    BY <1>1 DEF PageSound, World

(* A cancellation asks for the rest, or delivers for the last time.        *)
LEMMA OnWithCancelSound ==
    ASSUME World, NEW p \in Sessions, ~p.stream.refuted, Keeps(p), p.pending = Nothing,
           p.stop # "closing", server.canceled, p.cancel => HoldsTheLast(p),
           p.more /\ server.batch.sequence = shelf.row.ack + 1 => server.batch.canceled,
           ~p.more => HoldsTheLast(p)
    PROVE  OnWithCancel(p) \in Sessions /\ PageSound(OnWithCancel(p))
<1>1. CASE p.more
  <2> DEFINE q == [p EXCEPT !.doing = "Output", !.purpose = "rest"]
  <2>1. OnWithCancel(p) = q
      BY <1>1 DEF OnWithCancel
  <2>2. /\ q \in Sessions /\ q.doing = "Output" /\ q.purpose = "rest"
        /\ q.pending = p.pending /\ q.stream = p.stream /\ q.ack = p.ack /\ q.stop = p.stop
        /\ q.cancel = p.cancel
      BY DEF Sessions, Doings
  <2> HIDE DEF q
  <2>3. Holds(q)
      BY <2>2 DEF Holds, Keeps, HoldsTheLast, PlaceOf
  <2>4. Does(q)
      BY <1>1, <2>2 DEF Does
  <2>5. QED
      BY <2>1, <2>2, <2>3, <2>4 DEF PageSound, World
<1>2. CASE ~p.more
  <2> DEFINE q == [p EXCEPT !.purpose = "last"]
  <2>1. OnWithCancel(p) = Deliver(q, TRUE)
      BY <1>2 DEF OnWithCancel, LastDelivery
  <2>2. /\ q \in Sessions /\ q.purpose = "last" /\ q.more = p.more
        /\ q.pending = p.pending /\ q.stream = p.stream /\ q.ack = p.ack /\ q.stop = p.stop
      BY DEF Sessions
  <2> HIDE DEF q
  <2>3. Keeps(q) /\ HoldsTheLast(q)
      BY <1>2, <2>2 DEF Keeps, HoldsTheLast, PlaceOf
  <2>4. Deliver(q, TRUE) \in Sessions /\ PageSound(Deliver(q, TRUE))
      BY <1>2, <2>2, <2>3, DeliverSound
  <2>5. QED
      BY <2>1, <2>4
<1>3. QED
    BY <1>1, <1>2

(* What is done once a batch is delivered.                                 *)
LEMMA OnwardsSound ==
    ASSUME World, NEW p \in Sessions, ~p.stream.refuted, Keeps(p), p.pending = Nothing,
           ~p.cancel, p.stop # "closing", p.purpose # "cancel", NEW batch,
           p.purpose # "read" => server.canceled,
           p.purpose \in {"first", "rest"} =>
              /\ server.batch.sequence = shelf.row.ack
              /\ ~p.more => HoldsTheLast(p),
           p.purpose = "last" => /\ AllSaved
                                 /\ p.stream.writes = {} /\ p.stream.current = Nothing
                                 /\ p.stream.total = shelf.row.total
    PROVE  Onwards(p, batch) \in Sessions /\ PageSound(Onwards(p, batch))
<1> DEFINE thrown == Thrown(p)
<1>1. thrown \in Sessions /\ PageSound(thrown)
  <2>1. /\ thrown \in Sessions /\ thrown.doing = "Idle" /\ thrown.cancel = FALSE
        /\ thrown.stop = IF p.purpose = "read" \/ p.stop = "closing" THEN p.stop ELSE "no"
        /\ thrown.pending = p.pending /\ thrown.stream = p.stream /\ thrown.ack = p.ack
      BY ThrownIs
  <2> HIDE DEF thrown
  <2>4. Keeps(thrown)
      BY <2>1 DEF Keeps, PlaceOf
  <2>5. QED
      BY <2>1, <2>4, AtRestSound
<1>2. p.purpose \in {"read", "first", "rest", "last"}
    BY DEF Sessions
<1>3. ASSUME p.purpose \in {"first", "rest"}
      PROVE  OnWithCancel(p) \in Sessions /\ PageSound(OnWithCancel(p))
  <2>1. shelf.row.ack \in Nat
      BY DEF World, Rows
  <2>2. server.batch.sequence # shelf.row.ack + 1
      BY <1>3, <2>1
  <2>3. QED
      BY <1>3, <2>2, OnWithCancelSound
<1>4. CASE p.purpose = "read"
  <2> DEFINE status == IF batch.canceled THEN "canceled" ELSE IF batch.done THEN "done" ELSE p.status
             q == [p EXCEPT !.doing = "Idle", !.status = status]
  <2>1. CASE batch.error
    <3>1. Onwards(p, batch) = thrown
        BY <1>4, <2>1 DEF Onwards
    <3>2. QED
        BY <1>1, <3>1
  <2>2. CASE ~batch.error
    <3>1. Onwards(p, batch) = q
        BY <1>4, <2>2 DEF Onwards, Sessions
    <3>2. status \in {"reading", "stopped", "done", "canceled"}
        BY DEF Sessions
    <3> HIDE DEF status
    <3>3. /\ q \in Sessions /\ q.doing = "Idle" /\ ~q.cancel /\ q.stop = p.stop
          /\ q.pending = p.pending /\ q.stream = p.stream /\ q.ack = p.ack
        BY <3>2 DEF Sessions, Doings
    <3> HIDE DEF q
    <3>4. Keeps(q)
        BY <3>3 DEF Keeps, PlaceOf
    <3>5. QED
        BY <3>1, <3>3, <3>4, AtRestSound
  <2>3. QED
      BY <2>1, <2>2
<1>5. CASE p.purpose = "first"
  <2>1. Onwards(p, batch) = OnWithCancel(p)
      BY <1>5 DEF Onwards
  <2>2. QED
      BY <1>3, <1>5, <2>1
<1>6. CASE p.purpose = "rest"
  <2>1. Onwards(p, batch) = IF batch.error THEN thrown ELSE OnWithCancel(p)
      BY <1>6 DEF Onwards
  <2>2. QED
      BY <1>1, <1>3, <1>6, <2>1
<1>7. CASE p.purpose = "last"
  <2>1. CASE p.stop = "close"
    <3> DEFINE q == [p EXCEPT !.doing = "SaveClosing", !.stop = "closing"]
    <3>1. Onwards(p, batch) = q
        BY <1>7, <2>1 DEF Onwards
    <3>2. /\ q \in Sessions /\ q.doing = "SaveClosing" /\ q.stop = "closing"
          /\ q.pending = p.pending /\ q.stream = p.stream /\ q.ack = p.ack /\ q.cancel = p.cancel
        BY DEF Sessions, Doings
    <3> HIDE DEF q
    <3>3. Holds(q)
        BY <3>2 DEF Holds, Keeps, PlaceOf
    <3>4. Closes(q)
        BY <1>7, <3>2 DEF Closes
    <3>5. QED
        BY <3>1, <3>2, <3>3, <3>4 DEF PageSound
  <2>2. CASE p.stop # "close"
    <3> DEFINE q == [p EXCEPT !.doing = "Idle", !.stop = "no"]
    <3>1. Onwards(p, batch) = q
        BY <1>7, <2>2 DEF Onwards
    <3>2. /\ q \in Sessions /\ q.doing = "Idle" /\ q.stop = "no"
          /\ q.pending = p.pending /\ q.stream = p.stream /\ q.ack = p.ack /\ q.cancel = p.cancel
        BY DEF Sessions, Doings
    <3> HIDE DEF q
    <3>3. Keeps(q)
        BY <3>2 DEF Keeps, PlaceOf
    <3>4. QED
        BY <3>1, <3>2, <3>3, AtRestSound
  <2>3. QED
      BY <2>1, <2>2
<1>8. QED
    BY <1>2, <1>4, <1>5, <1>6, <1>7

(* What an answer says of the server.                                      *)
AnswersWith(p, reply) ==
    reply.ok =>
       /\ p.doing = "Output" => /\ reply.batch = server.batch
                                /\ server.batch.sequence = shelf.row.ack + 1
       /\ p.doing = "Cancel" => /\ server.canceled
                                /\ reply = [ok |-> TRUE, batch |-> server.batch,
                                            more |-> ~Drained(server)]

(* A batch: the page takes it and delivers it.                             *)
LEMMA OutputToldSound ==
    ASSUME World, NEW p \in Sessions, PageSound(p), NEW reply, reply.ok, AnswersWith(p, reply),
           p.doing = "Output"
    PROVE  Told(p, reply) \in Sessions /\ PageSound(Told(p, reply))
<1>1. /\ ~p.stream.refuted /\ p.stop # "closing" /\ Holds(p) /\ Keeps(p) /\ Does(p)
      /\ p.purpose \in {"read", "rest"}
      /\ p.purpose = "rest" =>
            /\ server.canceled
            /\ server.batch.sequence = shelf.row.ack + 1 => server.batch.canceled
    BY DEF PageSound, Closes, Does, Holds
<1>2. reply.batch = server.batch /\ server.batch.sequence = shelf.row.ack + 1
    BY DEF AnswersWith
<1>3. PICK d \in PendingRecords :
         LET q == [p EXCEPT !.pending = d] IN
              /\ Attached(p, server.batch) = q /\ d.known /\ d # Nothing /\ d.batch = server.batch
              /\ q \in Sessions /\ Keeps(q)
    BY <1>1, <1>2, AttachedSound
<1> DEFINE q == [p EXCEPT !.pending = d]
<1>4. /\ Attached(p, reply.batch) = q /\ q \in Sessions /\ Keeps(q)
    BY <1>2, <1>3
<1>5. /\ q.pending = d /\ q.stream = p.stream /\ q.stop = p.stop /\ q.purpose = p.purpose
    BY DEF Sessions
<1> HIDE DEF q
<1>6. CASE p.purpose = "read"
  <2>1. Told(p, reply) = Deliver(q, FALSE)
      BY <1>4, <1>6 DEF Told
  <2>2. Deliver(q, FALSE) \in Sessions /\ PageSound(Deliver(q, FALSE))
      BY <1>1, <1>3, <1>4, <1>5, <1>6, DeliverSound
  <2>3. QED
      BY <2>1, <2>2
<1>7. CASE p.purpose = "rest"
  <2> DEFINE drained == server.batch.drained
             r == [q EXCEPT !.more = ~drained]
  <2>0. drained \in BOOLEAN
      BY DEF World, Servers, Batches
  <2>1. Told(p, reply) = Deliver(r, drained)
      BY <1>2, <1>4, <1>7 DEF Told
  <2> HIDE DEF drained
  <2>2. /\ r \in Sessions /\ r.pending = d /\ r.stream = p.stream /\ r.stop = p.stop
        /\ r.purpose = "rest" /\ r.more = ~drained /\ r.ack = q.ack
      BY <1>4, <1>5, <1>7, <2>0 DEF Sessions
  <2> HIDE DEF r
  <2>3. Keeps(r)
      BY <1>4, <1>5, <2>2 DEF Keeps, PlaceOf
  <2>4. drained => HoldsTheLast(r)
    <3>1. SUFFICES ASSUME drained PROVE server.canceled /\ ReadPlace = Last
        BY <1>3, <2>2 DEF HoldsTheLast
    <3>2. server.batch.canceled /\ server.batch.drained
        BY <1>1, <1>2, <1>7, <3>1 DEF drained
    <3>3. QED
        BY <3>2 DEF World, SpoolSound
  <2>5. Deliver(r, drained) \in Sessions /\ PageSound(Deliver(r, drained))
    <3>1. server.canceled
        BY <1>1, <1>7
    <3>2. QED
        BY <1>1, <1>3, <2>0, <2>2, <2>3, <2>4, <3>1, DeliverSound
  <2>6. QED
      BY <2>1, <2>5
<1>8. QED
    BY <1>1, <1>6, <1>7

(* A run that is canceled: the page keeps the reply until it is saved.     *)
LEMMA CancelToldSound ==
    ASSUME World, NEW p \in Sessions, PageSound(p), NEW reply, reply.ok, AnswersWith(p, reply),
           p.doing = "Cancel"
    PROVE  Told(p, reply) \in Sessions /\ PageSound(Told(p, reply))
<1>1. ~p.stream.refuted /\ p.stop # "closing" /\ Holds(p)
    BY DEF PageSound, Closes
<1>2. server.canceled /\ reply = [ok |-> TRUE, batch |-> server.batch, more |-> ~Drained(server)]
    BY DEF AnswersWith
<1>3. /\ server.batch \in Batches /\ server.batch.sequence \in {shelf.row.ack, shelf.row.ack + 1}
      /\ shelf.row.ack \in Nat
      /\ (ReadPlace = Last <=> server.read = Len(server.file))
    BY Places DEF World, RowSound, Rows
<1> DEFINE q == [p EXCEPT !.doing = "SaveCanceling", !.reply = reply]
<1>4. Told(p, reply) = q
    BY DEF Told
<1>5. /\ reply \in CancelReplies /\ reply.batch = server.batch
      /\ (~reply.more => ReadPlace = Last)
    BY <1>2, <1>3 DEF CancelReplies, Drained
<1> HIDE DEF q
<1>6. reply # Nothing
    BY <1>5 DEF CancelReplies, Nothing
<1>7. /\ q \in Sessions /\ q.doing = "SaveCanceling" /\ q.reply = reply
      /\ q.pending = p.pending /\ q.stream = p.stream /\ q.ack = p.ack /\ q.stop = p.stop
      /\ q.cancel = p.cancel
    BY <1>5 DEF Sessions, Doings, q
<1>8. Holds(q)
    BY <1>1, <1>7 DEF Holds, Keeps, HoldsTheLast, PlaceOf
<1>9. ReplyKept(q)
  <2>1. p.pending # Nothing => server.batch.sequence = shelf.row.ack + 1
      BY <1>1 DEF Holds, Keeps
  <2>2. ~reply.more /\ server.batch.sequence = shelf.row.ack => AckPlace = Last
      BY <1>5 DEF AckPlace
  <2>3. shelf.row.ack # shelf.row.ack + 1
      BY <1>3
  <2>4. QED
      BY <1>2, <1>3, <1>5, <1>6, <1>7, <2>1, <2>2, <2>3 DEF ReplyKept
<1>10. Does(q)
    BY <1>7, <1>9 DEF Does
<1>11. QED
    BY <1>1, <1>4, <1>7, <1>8, <1>10 DEF PageSound, World

(* The status of a run: a run that is canceled is canceled here, too.      *)
LEMMA StatusToldSound ==
    ASSUME NEW p \in Sessions, PageSound(p), NEW reply, reply.ok, p.doing = "Status"
    PROVE  Told(p, reply) \in Sessions /\ PageSound(Told(p, reply))
<1>1. ~p.stream.refuted /\ p.stop # "closing" /\ Holds(p) /\ ~Closing
    BY DEF PageSound, Closes
<1> DEFINE canceled == reply.canceled \/ shelf.row.phase = "canceling"
           q == [p EXCEPT !.status = "canceled", !.stop = "cancel", !.doing = "Cancel"]
           r == [p EXCEPT !.doing = "Idle"]
<1>2. Told(p, reply) = IF canceled THEN q ELSE r
    BY DEF Told, Loaded
<1>3. /\ q \in Sessions /\ q.doing = "Cancel" /\ q.stop = "cancel"
      /\ q.pending = p.pending /\ q.stream = p.stream /\ q.ack = p.ack /\ q.cancel = p.cancel
    BY DEF Sessions, Doings
<1>4. /\ r \in Sessions /\ r.doing = "Idle" /\ r.stop = p.stop
      /\ r.pending = p.pending /\ r.stream = p.stream /\ r.ack = p.ack /\ r.cancel = p.cancel
    BY DEF Sessions, Doings
<1> HIDE DEF q, r, canceled
<1>5. Holds(q) /\ Does(q)
    BY <1>1, <1>3 DEF Holds, Keeps, HoldsTheLast, PlaceOf, Does
<1>6. Holds(r) /\ Does(r)
    BY <1>1, <1>4 DEF Holds, Keeps, HoldsTheLast, PlaceOf, Does
<1>7. PageSound(q) /\ PageSound(r)
    BY <1>1, <1>3, <1>4, <1>5, <1>6 DEF PageSound
<1>8. QED
    BY <1>2, <1>3, <1>4, <1>7

(* A run that is closed: the page drops what is left of it.                *)
LEMMA CloseToldSound ==
    ASSUME NEW p \in Sessions, PageSound(p), NEW reply, reply.ok, p.doing = "Close"
    PROVE  Told(p, reply) \in Sessions /\ PageSound(Told(p, reply))
<1>1. ~p.stream.refuted /\ p.stop = "closing" /\ Closes(p) /\ (~Closing => Holds(p))
    BY DEF PageSound, Does
<1> DEFINE q == [p EXCEPT !.doing = "Drop"]
<1>2. Told(p, reply) = q
    BY DEF Told
<1>3. /\ q \in Sessions /\ q.doing = "Drop" /\ q.stop = "closing"
      /\ q.pending = p.pending /\ q.stream = p.stream /\ q.ack = p.ack /\ q.cancel = p.cancel
    BY <1>1 DEF Sessions, Doings
<1> HIDE DEF q
<1>4. ~Closing => Holds(q)
    BY <1>1, <1>3 DEF Holds, Keeps, HoldsTheLast, PlaceOf
<1>5. Closes(q)
    BY <1>1, <1>3 DEF Closes
<1>6. QED
    BY <1>1, <1>2, <1>3, <1>4, <1>5 DEF PageSound

(* What the page makes of an answer.                                       *)
LEMMA ToldSound ==
    ASSUME server \in Servers, shelf.row \in Rows \cup {Nothing}, SpoolSound,
           ~Closing => RowSound,
           NEW p \in Sessions, PageSound(p), NEW reply,
           p.doing \in {"Output", "Cancel", "Status", "Close"},
           ~Closing => AnswersWith(p, reply)
    PROVE  Told(p, reply) \in Sessions /\ PageSound(Told(p, reply))
<1>1. CASE ~reply.ok
  <2>1. Told(p, reply) = Thrown(p)
      BY <1>1 DEF Told
  <2>2. QED
      BY <2>1, ThrownSound
<1>2. CASE reply.ok /\ p.doing \in {"Output", "Cancel"}
  <2>1. ~Closing
      BY <1>2 DEF PageSound, Closes
  <2>2. World /\ AnswersWith(p, reply)
      BY <2>1 DEF World, Closing
  <2>3. QED
      BY <1>2, <2>2, OutputToldSound, CancelToldSound
<1>3. CASE reply.ok /\ p.doing \in {"Status", "Close"}
    BY <1>3, StatusToldSound, CloseToldSound
<1>4. QED
    BY <1>1, <1>2, <1>3

(* The same after a step of the server.                                    *)
Tells(p, reply, q) ==
    /\ server \in Servers /\ shelf.row \in Rows \cup {Nothing} /\ SpoolSound
    /\ ~Closing => RowSound /\ AnswersWith(p, reply)
    /\ PageSound(p) /\ p.doing \in {"Output", "Cancel", "Status", "Close"}
    /\ q = Told(p, reply)

(* The same in the state after a step.                                     *)
LEMMA ToldThen ==
    (\A p \in Sessions : \A reply, q : Tells(p, reply, q) => q \in Sessions /\ PageSound(q))'
<1>1. \A p \in Sessions : \A reply, q : Tells(p, reply, q) => q \in Sessions /\ PageSound(q)
  <2>1. SUFFICES ASSUME NEW p \in Sessions, NEW reply, NEW q, Tells(p, reply, q)
                 PROVE  q \in Sessions /\ PageSound(q)
      OBVIOUS
  <2>2. Told(p, reply) \in Sessions /\ PageSound(Told(p, reply))
      BY <2>1, ToldSound DEF Tells
  <2>3. QED
      BY <2>1, <2>2 DEF Tells
<1>2. QED
    BY <1>1, PTL

(* What is thrown after a step of the server is sound, too.                *)
LEMMA ThrownThen ==
    (\A p \in Sessions : \A q : PageSound(p) /\ q = Thrown(p) => q \in Sessions /\ PageSound(q))'
<1>1. \A p \in Sessions : \A q : PageSound(p) /\ q = Thrown(p) => q \in Sessions /\ PageSound(q)
    BY ThrownSound
<1>2. QED
    BY <1>1, PTL

(* A page is as sound as the same page under another name.                 *)
LEMMA PageIs ==
    ASSUME NEW p, page' = p, PageSound(p)'
    PROVE  PageSound(page)'
  BY DEF PageSound, Holds, Keeps, HoldsTheLast, Does, Closes, ReplyKept, PlaceOf, Unpushed, Bound,
         AckPlace, BatchPlace

-----------------------------------------------------------------------------
(* Every step of the server goes on.                                       *)

(* A server whose events, spool and batch stay goes on.                    *)
LEMMA FlagsAdvance ==
    ASSUME server \in Servers, SpoolSound, server' \in Servers,
           server'.emitted = server.emitted, server'.file = server.file,
           server'.read = server.read, server'.batch = server.batch,
           server.canceled => server'.canceled, server.ended => server'.ended,
           server'.ended => server.ended \/ Begun = Complete,
           ~Closing => ~server'.closing /\ ~server'.gone
    PROVE  Advances
<1>1. Last' = Last /\ ReadPlace' = ReadPlace /\ BatchPlace' = BatchPlace
    BY DEF Last, ReadPlace, BatchPlace
<1>2. Begun = Begins(server.emitted, Last) /\ Complete = Ends(server.emitted, Last)
  <2>1. Last \in 0 .. Last
      BY Places
  <2>2. QED
      BY <2>1, EndsBefore
<1>3. /\ OneByOne(server'.emitted)
      /\ Len(server'.file) <= Last' /\ server'.read <= Len(server'.file)
      /\ \A i \in 1 .. Len(server'.file) :
            server'.file[i] = server'.emitted[Last' - Len(server'.file) + i]
    BY <1>1 DEF SpoolSound
<1>4. /\ Len(server'.batch.events) <= ReadPlace'
      /\ \A i \in 1 .. Len(server'.batch.events) :
            server'.batch.events[i] = server'.emitted[BatchPlace' + i]
    BY <1>1 DEF SpoolSound
<1>5. /\ server'.batch.sequence = 0 => server'.batch = NoBatch
      /\ server'.batch.canceled => server'.canceled
      /\ server'.batch.canceled /\ server'.batch.drained => ReadPlace' = Last'
      /\ server'.batch.done => server'.ended /\ ReadPlace' = Last'
    BY <1>1 DEF SpoolSound
<1>6. server'.ended => Begins(server'.emitted, Last') = Ends(server'.emitted, Last')
    BY <1>1, <1>2 DEF SpoolSound
<1>7. SpoolSound'
    BY <1>3, <1>4, <1>5, <1>6 DEF SpoolSound, NoBatch
<1>8. QED
    BY <1>1, <1>7 DEF Advances, BatchKept

(* So does a server that stays as it is.                                   *)
LEMMA StillAdvances ==
    ASSUME server \in Servers, SpoolSound, ~Closing => RowSound, server' = server
    PROVE  Advances
<1>1. ~Closing => ~server'.closing /\ ~server'.gone
    BY DEF RowSound
<1>2. QED
    BY <1>1, FlagsAdvance

(* What is asked late is asked of an old batch; a close is the last.       *)
QuestionSound(q) ==
    /\ q \in Questions
    /\ ~Closing => (q.route = "output" => q.ack <= shelf.row.ack) /\ q.route # "close"

(* output: no batch is left out, and none is taken back that is not        *)
(* stored.                                                                 *)
LEMMA OutputAdvances ==
    ASSUME server \in Servers, shelf.row \in Rows \cup {Nothing}, SpoolSound,
           ~Closing => RowSound, NEW ack \in Nat, ~Closing => ack <= shelf.row.ack,
           server' = Output(server, ack).server
    PROVE  /\ Advances
           /\ Output(server, ack).reply.ok =>
                 /\ Output(server, ack).reply.batch = server'.batch
                 /\ server'.batch.sequence = ack + 1
<1> DEFINE h == Output(server, ack)
<1>1. CASE h = Failing(server)
  <2>1. server' = server /\ ~h.reply.ok
      BY <1>1 DEF Failing, Served
  <2>2. QED
      BY <2>1, StillAdvances
<1>2. CASE ack + 1 = server.batch.sequence /\ h = Served(server, [ok |-> TRUE, batch |-> server.batch])
  <2>1. server' = server /\ h.reply.batch = server.batch
      BY <1>2 DEF Served
  <2>2. QED
      BY <1>2, <2>1, StillAdvances
<1>3. CASE ack = server.batch.sequence /\ h = NextBatch(server, ack + 1)
  <2>1. ack + 1 \in Nat /\ ack + 1 # 0
      OBVIOUS
  <2>2. server' = NextBatch(server, ack + 1).server
      BY <1>3
  <2>3. /\ server' \in Servers /\ SpoolSound'
        /\ server'.emitted = server.emitted /\ server'.ended = server.ended
        /\ server'.canceled = server.canceled
        /\ server'.closing = server.closing /\ server'.gone = server.gone
        /\ server'.batch.sequence = ack + 1 /\ server'.batch.canceled = server.canceled
        /\ BatchPlace' = ReadPlace
        /\ NextBatch(server, ack + 1).reply = [ok |-> TRUE, batch |-> server'.batch]
      BY <2>1, <2>2, NextBatchIs
  <2>4. ~Closing => BatchNew /\ ~server'.closing /\ ~server'.gone
    <3>1. SUFFICES ASSUME ~Closing PROVE BatchNew /\ ~server'.closing /\ ~server'.gone
        OBVIOUS
    <3>2. server.batch.sequence \in {shelf.row.ack, shelf.row.ack + 1} /\ shelf.row.ack \in Nat
          /\ ack <= shelf.row.ack /\ ~server.closing /\ ~server.gone
        BY <3>1 DEF RowSound, Rows, Closing
    <3>3. ack = shelf.row.ack
        BY <1>3, <3>2
    <3>4. QED
        BY <1>3, <2>3, <3>2, <3>3 DEF BatchNew
  <2>5. Advances
      BY <2>3, <2>4 DEF Advances
  <2>6. h.reply.batch = server'.batch
      BY <1>3, <2>3
  <2>7. QED
      BY <2>3, <2>5, <2>6
<1>4. QED
    BY <1>1, <1>2, <1>3 DEF Output

(* Any request, in time or late.                                           *)
LEMMA HandledAdvances ==
    ASSUME server \in Servers, shelf.row \in Rows \cup {Nothing}, SpoolSound,
           ~Closing => RowSound, NEW q, QuestionSound(q),
           server' = Handled(server, q).server
    PROVE  /\ Advances
           /\ ~Closing /\ q.route = "output" /\ Handled(server, q).reply.ok =>
                 /\ Handled(server, q).reply.batch = server'.batch
                 /\ server'.batch.sequence = q.ack + 1
           /\ ~Closing /\ q.route = "cancel" =>
                 /\ server'.canceled
                 /\ Handled(server, q).reply = [ok |-> TRUE, batch |-> server'.batch,
                                                more |-> ~Drained(server')]
<1>1. q \in Questions /\ q.ack \in Nat /\ (~Closing => ~server.gone /\ ~server.closing)
    BY DEF QuestionSound, Questions, RowSound
<1>2. CASE q.route = "output"
  <2>1. Handled(server, q) = Output(server, q.ack)
      BY <1>2 DEF Handled
  <2>2. ~Closing => q.ack <= shelf.row.ack
      BY <1>2 DEF QuestionSound
  <2>3. PICK ack \in Nat : ack = q.ack
      BY <1>1
  <2>4. server' = Output(server, ack).server /\ (~Closing => ack <= shelf.row.ack)
      BY <2>1, <2>2, <2>3
  <2>5. QED
      BY <1>2, <2>1, <2>3, <2>4, OutputAdvances
<1>3. CASE q.route = "cancel"
  <2>1. Handled(server, q) = Canceled(server)
      BY <1>3 DEF Handled
  <2>2. CASE server.gone
    <3>1. server' = server /\ Closing
        BY <1>1, <2>1, <2>2 DEF Canceled, Failing, Served
    <3>2. QED
        BY <1>3, <3>1, StillAdvances
  <2>3. CASE ~server.gone
    <3> DEFINE s == [server EXCEPT !.canceled = TRUE]
    <3>1. server' = s /\ Handled(server, q).reply = [ok |-> TRUE, batch |-> server.batch,
                                                     more |-> ~Drained(server)]
        BY <2>1, <2>3 DEF Canceled, Served
    <3>2. /\ s \in Servers /\ s.emitted = server.emitted /\ s.file = server.file
          /\ s.read = server.read /\ s.batch = server.batch /\ s.ended = server.ended
          /\ s.canceled = TRUE /\ s.closing = server.closing /\ s.gone = server.gone
        BY DEF Servers
    <3> HIDE DEF s
    <3>3. Advances
        BY <1>1, <3>1, <3>2, FlagsAdvance
    <3>4. server'.canceled /\ server'.batch = server.batch /\ Drained(server') = Drained(server)
        BY <3>1, <3>2 DEF Drained
    <3>5. QED
        BY <1>3, <3>1, <3>3, <3>4
  <2>4. QED
      BY <2>2, <2>3
<1>4. CASE q.route = "status"
  <2>1. Handled(server, q) = Status(server)
      BY <1>4 DEF Handled
  <2>2. server' = server
      BY <2>1 DEF Status, Failing, Served
  <2>3. QED
      BY <1>4, <2>2, StillAdvances
<1>5. CASE q.route = "close"
  <2>1. Handled(server, q) = Closed(server) /\ Closing
      BY <1>5 DEF Handled, QuestionSound
  <2>2. CASE server.gone
    <3>1. server' = server
        BY <2>1, <2>2 DEF Closed, Served
    <3>2. QED
        BY <1>5, <3>1, StillAdvances
  <2>3. CASE ~server.gone
    <3> DEFINE s == [server EXCEPT !.canceled = TRUE, !.closing = TRUE]
    <3>1. server' = s
        BY <2>1, <2>3 DEF Closed, Served
    <3>2. /\ s \in Servers /\ s.emitted = server.emitted /\ s.file = server.file
          /\ s.read = server.read /\ s.batch = server.batch /\ s.ended = server.ended
          /\ s.canceled = TRUE
        BY DEF Servers
    <3> HIDE DEF s
    <3>3. Advances
        BY <2>1, <3>1, <3>2, FlagsAdvance
    <3>4. QED
        BY <1>5, <3>3
  <2>4. QED
      BY <2>2, <2>3
<1>6. QED
    BY <1>1, <1>2, <1>3, <1>4, <1>5 DEF Questions

-----------------------------------------------------------------------------
(* Steps that leave the store.                                             *)

(* What the invariant says of the server and the shelf alone.              *)
LEMMA InvSays ==
    ASSUME DeliveryInv
    PROVE  /\ server \in Servers /\ shelf.row \in Rows \cup {Nothing} /\ SpoolSound
           /\ ShelfSound /\ (~Closing => RowSound /\ World)
           /\ page \in Sessions \cup {Away, Over} /\ (page = Over <=> shelf.row = Nothing)
           /\ \A q \in stray : QuestionSound(q)
           /\ page \notin {Away, Over} => page \in Sessions /\ PageSound(page)
<1>1. /\ server \in Servers /\ shelf.row \in Rows \cup {Nothing} /\ SpoolSound /\ ShelfSound
      /\ page \in Sessions \cup {Away, Over} /\ (page = Over <=> shelf.row = Nothing)
      /\ ~Closing => RowSound /\ StraysSound
      /\ page \notin {Away, Over} => PageSound(page)
      /\ stray \subseteq Questions
    BY DEF DeliveryInv, DeliveryTypes
<1>2. ~Closing => World
    BY <1>1 DEF World, Closing
<1>3. \A q \in stray : QuestionSound(q)
    BY <1>1 DEF QuestionSound, StraysSound
<1>4. page \notin {Away, Over} => page \in Sessions
    BY <1>1
<1>5. QED
    BY <1>1, <1>2, <1>3, <1>4

(* A page that is there is none of the other two.                          *)
LEMMA SessionsAreThere == \A p \in Sessions : p # Away /\ p # Over
  BY DEF Sessions, Away, Over, Doings

(* What a step keeps that leaves the shelf.                                *)
LEMMA ShelfLeft ==
    ASSUME DeliveryInv, Advances, shelf' = shelf,
           \A q \in stray' : QuestionSound(q),
           NEW p, page' = p, p \in Sessions \cup {Away, Over}, p = Over <=> page = Over,
           p \notin {Away, Over} => PageSound(p)'
    PROVE  DeliveryInv'
<1>1. /\ server \in Servers /\ shelf.row \in Rows \cup {Nothing} /\ SpoolSound
      /\ ShelfSound /\ (~Closing => RowSound) /\ (page = Over <=> shelf.row = Nothing)
      /\ shelf = [parts |-> shelf.parts, answers |-> shelf.answers, row |-> shelf.row]
    BY InvSays DEF DeliveryInv, DeliveryTypes
<1>2. ShelfSound' /\ (~Closing' => World')
    BY <1>1, ShelfStays
<1>3. Closing' <=> Closing
    BY <1>1, SavedStays
<1>4. server' \in Servers /\ SpoolSound'
    BY DEF Advances
<1>5. stray' \subseteq Questions /\ (~Closing' => StraysSound')
    BY <1>3 DEF QuestionSound, StraysSound
<1>6. page' \notin {Away, Over}' => PageSound(page)'
    BY PageIs DEF Away, Over
<1>7. DeliveryTypes'
    BY <1>1, <1>4, <1>5 DEF DeliveryTypes, Away, Over, Nothing
<1>8. (page = Over <=> shelf.row = Nothing)'
    BY <1>1 DEF Over, Nothing
<1>9. ~Closing' => RowSound'
    BY <1>2 DEF World
<1>10. QED
    BY <1>2, <1>4, <1>5, <1>6, <1>7, <1>8, <1>9 DEF DeliveryInv

(* A step of the server alone.                                             *)
LEMMA ServerStep ==
    ASSUME DeliveryInv, Advances, shelf' = shelf, page' = page, stray' \subseteq stray
    PROVE  DeliveryInv'
<1>1. PICK p : p = page
    OBVIOUS
<1>2. p \in Sessions \cup {Away, Over} /\ \A q \in stray' : QuestionSound(q)
    BY <1>1, InvSays
<1>3. ASSUME p \notin {Away, Over} PROVE PageSound(p)'
  <2>1. p \in Sessions
      BY <1>2, <1>3
  <2>2. PageSound(p)
      BY <1>1, <1>3, InvSays DEF PageSound, Holds, Keeps, HoldsTheLast, Does, Closes, ReplyKept,
                                 PlaceOf, Unpushed, Bound, AckPlace, BatchPlace
  <2>3. QED
      BY <2>1, <2>2, InvSays, PageStays
<1>4. QED
    BY <1>1, <1>2, <1>3, ShelfLeft

(* The engine brings out one event more.                                   *)
LEMMA DriveOneAdvances ==
    ASSUME DeliveryInv, DriveOne
    PROVE  Advances
<1>1. PICK e \in Emissible : server' = Spooled(server, e)
    BY DEF DriveOne
<1>2. ~server.ended /\ ~server.canceled
    BY DEF DriveOne, Running
<1>3. server \in Servers /\ SpoolSound /\ (~Closing => ~server.closing /\ ~server.gone)
    BY InvSays DEF RowSound
<1> DEFINE E == server.emitted
           f == server.file
<1>0. PICK n, m, r, p : /\ n = Len(server.emitted) /\ m = Len(server.file) /\ r = server.read
                        /\ p = ReadPlace
    OBVIOUS
<1>4. /\ E \in Seq(Events) /\ f \in Seq(Events) /\ Last = n /\ n \in Nat /\ m \in Nat /\ m <= n
      /\ OneByOne(E) /\ server.read \in Nat /\ server.read <= m
      /\ ReadPlace = n - m + server.read /\ ReadPlace \in Nat
    BY <1>0, <1>3, Places DEF SpoolSound, Last, ReadPlace
<1>a. n \in Nat /\ m \in Nat /\ m <= n /\ r \in Nat /\ r <= m /\ p = n - m + r /\ p \in Nat
  <2>1. n \in Nat /\ m \in Nat /\ m <= n /\ r \in Nat /\ r <= m
      BY <1>0, <1>4
  <2>2. p = n - m + r /\ p \in Nat
      BY <1>0, <1>4
  <2>3. QED
      BY <2>1, <2>2
<1>5. Begun = Begins(E, n) /\ Complete = Ends(E, n) /\ Begun \in Nat /\ Complete \in Nat
      /\ Begun \in {Complete, Complete + 1}
  <2>1. Last \in 0 .. Last /\ n \in 0 .. n
      BY <1>4
  <2>2. Begun = Begins(E, n) /\ Complete = Ends(E, n)
      BY <1>3, <1>4, <2>1, EndsBefore
  <2>3. Begins(E, n) \in {Ends(E, n), Ends(E, n) + 1}
      BY <1>0, <1>4, <2>1 DEF OneByOne
  <2>4. QED
      BY <1>4, <2>2, <2>3, CountNext DEF Begins, Ends
<1>6. e \in NextEvents(E, n)
  <2>1. CASE Begun = Complete
    <3>1. e = Event("begin", Begun + 1)
        BY <1>1, <2>1 DEF Emissible
    <3>2. QED
        BY <1>5, <2>1, <3>1 DEF NextEvents
  <2>2. CASE Begun # Complete
    <3>1. e \in {Event("part", Begun), Event("end", Begun)}
        BY <1>1, <2>2 DEF Emissible
    <3>2. QED
        BY <1>5, <2>2, <3>1 DEF NextEvents
  <2>3. QED
      BY <2>1, <2>2
<1>7. e \in Events /\ OneByOne(Append(E, e))
    BY <1>0, <1>4, <1>6, OneMore
<1>8. /\ Append(E, e) \in Seq(Events) /\ Len(Append(E, e)) = n + 1
      /\ Append(E, e)[n + 1] = e /\ (\A i \in 1 .. n : Append(E, e)[i] = E[i])
  <2>1. n = Len(E)
      BY <1>0
  <2> HIDE DEF E
  <2> QED
    BY <1>4, <1>7, <2>1, AppendProperties
<1>9. /\ Append(f, e) \in Seq(Events) /\ Len(Append(f, e)) = m + 1
      /\ Append(f, e)[m + 1] = e /\ (\A i \in 1 .. m : Append(f, e)[i] = f[i])
  <2>1. m = Len(f)
      BY <1>0
  <2> HIDE DEF f
  <2> QED
    BY <1>4, <1>7, <2>1, AppendProperties
<1> DEFINE emitted == Append(E, e)
           file == Append(f, e)
<1>10. server' = [server EXCEPT !.emitted = emitted, !.file = file]
    BY <1>1 DEF Spooled
<1> HIDE DEF emitted, file
<1>11. /\ server' \in Servers /\ server'.emitted = emitted /\ server'.file = file
       /\ server'.read = server.read /\ server'.batch = server.batch /\ server'.ended = server.ended
       /\ server'.canceled = server.canceled /\ server'.closing = server.closing
       /\ server'.gone = server.gone
    BY <1>3, <1>8, <1>9, <1>10 DEF Servers, emitted, file
<1>12. Last' = n + 1 /\ ReadPlace' = ReadPlace /\ BatchPlace' = BatchPlace
  <2>1. Last' = n + 1
      BY <1>8, <1>11 DEF Last, emitted
  <2>2. ReadPlace' = ReadPlace
    <3>1. ReadPlace' = (n + 1) - (m + 1) + r
        BY <1>0, <1>9, <1>11, <2>1 DEF ReadPlace, file
    <3>2. (n + 1) - (m + 1) + r = p
        BY <1>a
    <3>3. QED
        BY <3>1, <3>2, <1>0
  <2>3. QED
      BY <1>11, <2>1, <2>2 DEF BatchPlace
<1>13. /\ Len(file) <= n + 1 /\ server.read <= Len(file)
       /\ \A i \in 1 .. Len(file) : file[i] = emitted[(n + 1) - Len(file) + i]
  <2>1. Len(file) = m + 1
      BY <1>9 DEF file
  <2>2. ASSUME NEW i \in 1 .. m + 1 PROVE file[i] = emitted[(n + 1) - (m + 1) + i]
    <3>1. CASE i = m + 1
      <4>1. (n + 1) - (m + 1) + i = n + 1
          BY <1>a, <3>1
      <4>2. QED
          BY <3>1, <4>1, <1>8, <1>9 DEF file, emitted
    <3>2. CASE i # m + 1
      <4>1. i \in 1 .. m /\ (n + 1) - (m + 1) + i = n - m + i /\ n - m + i \in 1 .. n
          BY <1>a, <3>2
      <4>2. f[i] = E[n - m + i]
          BY <1>0, <1>3, <1>4, <4>1 DEF SpoolSound, Last
      <4>3. file[i] = f[i] /\ emitted[n - m + i] = E[n - m + i]
          BY <4>1, <1>8, <1>9 DEF file, emitted
      <4>4. QED
          BY <4>1, <4>2, <4>3
    <3>3. QED
        BY <3>1, <3>2
  <2>3. Len(file) <= n + 1 /\ server.read <= Len(file)
      BY <1>0, <1>a, <2>1
  <2>4. QED
      BY <2>1, <2>2, <2>3
<1>14. /\ Len(server.batch.events) <= ReadPlace
       /\ \A i \in 1 .. Len(server.batch.events) :
             server.batch.events[i] = emitted[BatchPlace + i]
  <2>1. Len(server.batch.events) <= ReadPlace
      BY <1>3 DEF SpoolSound
  <2>2. ASSUME NEW i \in 1 .. Len(server.batch.events)
        PROVE  server.batch.events[i] = emitted[BatchPlace + i]
    <3>1. BatchPlace + i \in 1 .. n
      <4>1. PICK k, b : k = Len(server.batch.events) /\ b = BatchPlace
          OBVIOUS
      <4>2. k \in Nat /\ b \in Nat /\ b + k = p /\ i \in 1 .. k
          BY <1>0, <1>3, <4>1, Places
      <4>3. b + i \in 1 .. n
          BY <1>a, <4>2
      <4>4. QED
          BY <4>1, <4>3
    <3>2. server.batch.events[i] = E[BatchPlace + i]
        BY <1>3 DEF SpoolSound
    <3>3. QED
        BY <1>8, <3>1, <3>2 DEF emitted
  <2>3. QED
      BY <2>1, <2>2
<1>15. /\ server.batch.sequence = 0 => server.batch = NoBatch
       /\ ~server.batch.canceled /\ ~server.batch.done
    BY <1>2, <1>3 DEF SpoolSound
<1> HIDE DEF E, f
<1>16. SpoolSound'
    BY <1>2, <1>7, <1>11, <1>12, <1>13, <1>14, <1>15 DEF SpoolSound, NoBatch, emitted
<1>17. QED
    BY <1>2, <1>3, <1>7, <1>11, <1>12, <1>16 DEF Advances, BatchKept, emitted, E

(* The engine is done.                                                     *)
LEMMA ExhaustAdvances ==
    ASSUME DeliveryInv, Exhaust
    PROVE  Advances
<1>1. server \in Servers /\ SpoolSound /\ (~Closing => ~server.closing /\ ~server.gone)
    BY InvSays DEF RowSound
<1>2. Begun = Complete /\ server' = [server EXCEPT !.ended = TRUE]
    BY DEF Exhaust
<1>3. /\ server' \in Servers /\ server'.emitted = server.emitted /\ server'.file = server.file
      /\ server'.read = server.read /\ server'.batch = server.batch /\ server'.ended = TRUE
      /\ server'.canceled = server.canceled /\ server'.closing = server.closing
      /\ server'.gone = server.gone
    BY <1>1, <1>2 DEF Servers
<1>4. QED
    BY <1>1, <1>2, <1>3, FlagsAdvance

(* A run that is canceled for trouble with the spool.                      *)
LEMMA TroubleAdvances ==
    ASSUME DeliveryInv, server' = [server EXCEPT !.canceled = TRUE, !.error = TRUE]
    PROVE  Advances
<1>1. server \in Servers /\ SpoolSound /\ (~Closing => ~server.closing /\ ~server.gone)
    BY InvSays DEF RowSound
<1>2. /\ server' \in Servers /\ server'.emitted = server.emitted /\ server'.file = server.file
      /\ server'.read = server.read /\ server'.batch = server.batch /\ server'.ended = server.ended
      /\ server'.canceled = TRUE /\ server'.closing = server.closing
      /\ server'.gone = server.gone
    BY <1>1 DEF Servers
<1>3. QED
    BY <1>1, <1>2, FlagsAdvance

(* A run that is reclaimed was closed.                                     *)
LEMMA ReclaimAdvances ==
    ASSUME DeliveryInv, ReclaimRun
    PROVE  Advances
<1>1. server \in Servers /\ SpoolSound /\ Closing
    BY InvSays DEF RowSound, ReclaimRun
<1>2. server' = [server EXCEPT !.gone = TRUE, !.batch = NoBatch]
    BY DEF ReclaimRun
<1>3. NoBatch \in Batches /\ NoBatch.sequence = 0 /\ Len(NoBatch.events) = 0
      /\ ~NoBatch.canceled /\ ~NoBatch.done
  <2>1. <<>> \in Seq(Events) /\ Len(<<>>) = 0
      OBVIOUS
  <2>2. QED
      BY <2>1 DEF NoBatch, Batches
<1>4. /\ server' \in Servers /\ server'.emitted = server.emitted /\ server'.file = server.file
      /\ server'.read = server.read /\ server'.batch = NoBatch /\ server'.ended = server.ended
      /\ server'.canceled = server.canceled
    BY <1>1, <1>2, <1>3 DEF Servers
<1>5. Last' = Last /\ ReadPlace' = ReadPlace /\ ReadPlace \in Nat
    BY <1>1, <1>4, Places DEF Last, ReadPlace
<1>6. SpoolSound'
  <2>1. /\ OneByOne(server'.emitted)
        /\ Len(server'.file) <= Last' /\ server'.read <= Len(server'.file)
        /\ \A i \in 1 .. Len(server'.file) :
              server'.file[i] = server'.emitted[Last' - Len(server'.file) + i]
        /\ server'.ended => Begins(server'.emitted, Last') = Ends(server'.emitted, Last')
      BY <1>1, <1>4, <1>5 DEF SpoolSound
  <2>2. Len(server'.batch.events) = 0 /\ Len(server'.batch.events) <= ReadPlace'
      BY <1>3, <1>4, <1>5
  <2>3. \A i \in 1 .. Len(server'.batch.events) :
            server'.batch.events[i] = server'.emitted[BatchPlace' + i]
      BY <2>2
  <2>4. QED
      BY <1>3, <1>4, <2>1, <2>2, <2>3 DEF SpoolSound, NoBatch
<1>7. QED
    BY <1>1, <1>4, <1>6 DEF Advances

(* A late request is served.                                               *)
LEMMA StrayAdvances ==
    ASSUME DeliveryInv, ServeStray
    PROVE  Advances /\ stray' \subseteq stray
<1>1. PICK q \in stray : stray' = stray \ {q} /\ server' = Handled(server, q).server
    BY DEF ServeStray
<1>2. QuestionSound(q)
    BY InvSays
<1>3. QED
    BY <1>1, <1>2, InvSays, HandledAdvances

(* What the page asks is no question for later.                            *)
LEMMA AskingIs ==
    ASSUME DeliveryInv, Asking
    PROVE  /\ page \in Sessions /\ PageSound(page)
           /\ page.doing \in {"Output", "Cancel", "Status", "Close"}
           /\ QuestionSound(Question)
           /\ page.doing = "Output" => Question.route = "output" /\ Question.ack = page.ack
           /\ page.doing = "Cancel" => Question.route = "cancel"
           /\ ~Closing => page.ack = shelf.row.ack
<1>1. page.doing \in {"Output", "Cancel", "Status", "Close"}
    BY DEF Asking, RouteOf
<1>2. page \in Sessions /\ PageSound(page)
    BY <1>1, InvSays DEF Away, Over
<1>3. /\ page.doing = "Output" => RouteOf[page.doing] = "output"
      /\ page.doing = "Cancel" => RouteOf[page.doing] = "cancel"
      /\ page.doing = "Status" => RouteOf[page.doing] = "status"
      /\ page.doing = "Close" => RouteOf[page.doing] = "close"
    BY DEF RouteOf
<1>4. Question.route = RouteOf[page.doing] /\ Question.ack \in {page.ack, 0}
      /\ Question = [route |-> Question.route, ack |-> Question.ack]
      /\ (Question.route = "output" => Question.ack = page.ack)
    BY DEF Question, ToServer
<1>5. page.ack \in Nat
    BY <1>2 DEF Sessions
<1>6. Question \in Questions
    BY <1>1, <1>3, <1>4, <1>5 DEF Questions
<1>7. ~Closing => page.ack = shelf.row.ack
    BY <1>2 DEF PageSound, Holds, Keeps
<1>8. page.doing = "Close" => Closing
    BY <1>2 DEF PageSound, Closes, Does, Closing
<1>9. ~Closing => (Question.route = "output" => Question.ack <= shelf.row.ack)
  <2>1. SUFFICES ASSUME ~Closing, Question.route = "output"
                 PROVE  Question.ack <= shelf.row.ack
      OBVIOUS
  <2>2. Question.ack = shelf.row.ack
      BY <1>4, <1>7, <2>1
  <2>3. QED
      BY <1>5, <1>7, <2>1, <2>2
<1>10. ~Closing => Question.route # "close"
    BY <1>1, <1>3, <1>4, <1>8
<1>11. QuestionSound(Question)
    BY <1>6, <1>9, <1>10 DEF QuestionSound
<1>12. QED
    BY <1>1, <1>2, <1>3, <1>4, <1>7, <1>11

(* The page is sound under any name.                                       *)
LEMMA PageNamed ==
    ASSUME DeliveryInv, page \notin {Away, Over}, NEW p, p = page
    PROVE  p \in Sessions /\ PageSound(p)
<1>1. page \in Sessions /\ PageSound(page)
    BY InvSays
<1>2. QED
    BY <1>1 DEF PageSound, Holds, Keeps, HoldsTheLast, Does, Closes, ReplyKept,
                PlaceOf, Unpushed, Bound, AckPlace, BatchPlace

(* Once the server is stepped, the page is still sound.                    *)
LEMMA PageAfter ==
    ASSUME DeliveryInv, Advances, shelf' = shelf, page \notin {Away, Over}, NEW p, p = page
    PROVE  p \in Sessions /\ PageSound(p)'
<1>1. p \in Sessions /\ PageSound(p)
    BY PageNamed
<1>2. QED
    BY <1>1, InvSays, PageStays

(* The page is told what the server answers in the same step.              *)
LEMMA AnsweredSound ==
    ASSUME DeliveryInv, Answered
    PROVE  DeliveryInv'
<1>1. PICK p, q, h, r : /\ p = page /\ q = Question /\ h = Handled(server, q)
                        /\ r = Told(p, h.reply)
    OBVIOUS
<1>2. /\ Asking /\ server' = h.server /\ page' = r /\ shelf' = shelf /\ stray' = stray
    BY <1>1 DEF Answered
<1>3. /\ p.doing \in {"Output", "Cancel", "Status", "Close"} /\ QuestionSound(q)
      /\ p.doing = "Output" => q.route = "output" /\ q.ack = p.ack
      /\ p.doing = "Cancel" => q.route = "cancel"
      /\ ~Closing => p.ack = shelf.row.ack
      /\ page \notin {Away, Over}
  <2>1. /\ page.doing \in {"Output", "Cancel", "Status", "Close"} /\ QuestionSound(Question)
        /\ page.doing = "Output" => Question.route = "output" /\ Question.ack = page.ack
        /\ page.doing = "Cancel" => Question.route = "cancel"
        /\ ~Closing => page.ack = shelf.row.ack
        /\ page \in Sessions
      BY <1>2, AskingIs
  <2>2. QED
      BY <1>1, <2>1, SessionsAreThere DEF QuestionSound
<1>4. /\ Advances
      /\ ~Closing /\ q.route = "output" /\ h.reply.ok =>
            /\ h.reply.batch = server'.batch /\ server'.batch.sequence = q.ack + 1
      /\ ~Closing /\ q.route = "cancel" =>
            /\ server'.canceled
            /\ h.reply = [ok |-> TRUE, batch |-> server'.batch, more |-> ~Drained(server')]
    BY <1>1, <1>2, <1>3, InvSays, HandledAdvances
<1>5. p \in Sessions /\ PageSound(p)'
    BY <1>1, <1>2, <1>3, <1>4, PageAfter
<1>6. (Closing' <=> Closing) /\ (~Closing' => RowSound')
    BY <1>2, <1>4, InvSays, SavedStays, ShelfStays DEF World
<1>7. PICK reply : reply = h.reply
    OBVIOUS
<1>8. ~Closing' => AnswersWith(p, reply)'
    BY <1>2, <1>3, <1>4, <1>6, <1>7 DEF AnswersWith, Drained
<1>9. r = Told(p, reply)'
    BY <1>1, <1>2, <1>7 DEF Told, Loaded
<1>10. Tells(p, reply, r)'
    BY <1>2, <1>3, <1>4, <1>5, <1>6, <1>8, <1>9, InvSays DEF Tells, Advances, Nothing
<1>11. r \in Sessions /\ PageSound(r)'
    BY <1>5, <1>10, ToldThen
<1>12. r # Over /\ page # Over
    BY <1>3, <1>11, SessionsAreThere
<1>13. \A s \in stray' : QuestionSound(s)
    BY <1>2, InvSays
<1>14. QED
    BY <1>2, <1>4, <1>11, <1>12, <1>13, ShelfLeft

(* What is thrown while the server goes on.                                *)
LEMMA ThrowsSound ==
    ASSUME DeliveryInv, Advances, shelf' = shelf, page \notin {Away, Over}, page' = Thrown(page),
           \A q \in stray' : QuestionSound(q)
    PROVE  DeliveryInv'
<1>1. PICK p, r : p = page /\ r = Thrown(p)
    OBVIOUS
<1>2. p \in Sessions /\ PageSound(p)'
    BY <1>1, PageAfter
<1>3. r = Thrown(p)'
    BY <1>1
<1>4. r \in Sessions /\ PageSound(r)'
    BY <1>2, <1>3, ThrownThen
<1>5. r # Over /\ page # Over /\ page' = r
    BY <1>1, <1>4, SessionsAreThere
<1>6. QED
    BY <1>4, <1>5, ShelfLeft

(* A fetch fails: served, or to be served late.                            *)
LEMMA FetchFailsSound ==
    ASSUME DeliveryInv, FetchFails
    PROVE  DeliveryInv'
<1>1. Asking /\ page' = Thrown(page) /\ shelf' = shelf
    BY DEF FetchFails
<1>2. QuestionSound(Question) /\ page \notin {Away, Over}
    BY <1>1, AskingIs, SessionsAreThere
<1>3. CASE server' = Handled(server, Question).server /\ stray' = stray
  <2>1. PICK q : q = Question
      OBVIOUS
  <2>2. Advances
    <3>1. QuestionSound(q)
        BY <1>2, <2>1 DEF QuestionSound
    <3>2. QED
        BY <1>3, <2>1, <3>1, InvSays, HandledAdvances
  <2>3. QED
      BY <1>1, <1>2, <1>3, <2>2, InvSays, ThrowsSound
<1>4. CASE stray' = stray \cup {Question} /\ server' = server
  <2>1. Advances
      BY <1>4, InvSays, StillAdvances
  <2>2. \A q \in stray' : QuestionSound(q)
    <3>1. ASSUME NEW q \in stray' PROVE QuestionSound(q)
      <4>1. CASE q = Question
          BY <1>2, <4>1 DEF QuestionSound
      <4>2. CASE q \in stray
          BY <4>2, InvSays
      <4>3. QED
          BY <1>4, <4>1, <4>2
    <3>2. QED
        BY <3>1
  <2>3. QED
      BY <1>1, <1>2, <2>1, <2>2, ThrowsSound
<1>5. QED
    BY <1>3, <1>4 DEF FetchFails

(* The spool cannot be read.                                               *)
LEMMA ReadFailsSound ==
    ASSUME DeliveryInv, ReadFails
    PROVE  DeliveryInv'
<1>1. /\ page.doing = "Output" /\ page' = Thrown(page) /\ shelf' = shelf /\ stray' = stray
      /\ server' = [server EXCEPT !.canceled = TRUE, !.error = TRUE]
    BY DEF ReadFails, OutputUnreadable, Failing, Served
<1>2. page \notin {Away, Over}
    BY <1>1 DEF Away, Over
<1>3. QED
    BY <1>1, <1>2, TroubleAdvances, InvSays, ThrowsSound

(* A transaction of the store fails.                                       *)
LEMMA StoreFailsSound ==
    ASSUME DeliveryInv, StoreFails
    PROVE  DeliveryInv'
<1>1. /\ page.doing \notin {"Away", "Over"} /\ page' = Thrown(page)
      /\ server' = server /\ shelf' = shelf /\ stray' = stray
    BY DEF StoreFails
<1>2. page \notin {Away, Over}
    BY <1>1 DEF Away, Over
<1>3. Advances
    BY <1>1, InvSays, StillAdvances
<1>4. QED
    BY <1>1, <1>2, <1>3, InvSays, ThrowsSound

(* The page is left, at any place.                                         *)
LEMMA LeaveSound ==
    ASSUME DeliveryInv, Leave
    PROVE  DeliveryInv'
<1>1. /\ page.doing \notin {"Away", "Over"} /\ page' = Away
      /\ server' = server /\ shelf' = shelf
      /\ stray' = IF Asking THEN stray \cup {Question} ELSE stray
    BY DEF Leave
<1>2. page # Over /\ Away # Over
    BY <1>1 DEF Away, Over
<1>3. Advances
    BY <1>1, InvSays, StillAdvances
<1>4. ASSUME NEW q \in stray' PROVE QuestionSound(q)
  <2>1. CASE q = Question /\ Asking
      BY <2>1, AskingIs DEF QuestionSound
  <2>2. CASE q \in stray
      BY <2>2, InvSays
  <2>3. QED
      BY <1>1, <1>4, <2>1, <2>2
<1>5. PICK p : p = Away
    OBVIOUS
<1>6. QED
    BY <1>1, <1>2, <1>3, <1>4, <1>5, ShelfLeft

(* A step of the page alone that leaves the shelf.                         *)
LEMMA PageStepSound ==
    ASSUME DeliveryInv, server' = server, shelf' = shelf, stray' = stray,
           NEW p, page' = p, p \in Sessions, page # Over, PageSound(p)
    PROVE  DeliveryInv'
<1>1. Advances
    BY InvSays, StillAdvances
<1>2. PageSound(p)'
    BY <1>1, InvSays, PageStays
<1>3. p # Over
    BY SessionsAreThere
<1>4. QED
    BY <1>1, <1>2, <1>3, InvSays, ShelfLeft

(* readOutput begins.                                                      *)
LEMMA ReadSound ==
    ASSUME DeliveryInv, Read
    PROVE  DeliveryInv'
<1> DEFINE reading == [page EXCEPT !.purpose = "read"]
<1>1. PICK q : q = reading
    OBVIOUS
<1>2. /\ page.doing = "Idle" /\ page.stop = "no"
      /\ page' = IF q.pending # Nothing /\ q.pending.known THEN Deliver(q, FALSE)
                 ELSE [q EXCEPT !.doing = "Output"]
      /\ server' = server /\ shelf' = shelf /\ stray' = stray
    BY <1>1 DEF Read, Page
<1>3. page \in Sessions /\ PageSound(page) /\ page # Over
    BY <1>2, InvSays DEF Away, Over
<1>4. /\ q \in Sessions /\ q.purpose = "read" /\ q.doing = "Idle" /\ q.stop = "no"
      /\ q.pending = page.pending /\ q.stream = page.stream /\ q.ack = page.ack
      /\ q.cancel = page.cancel
    BY <1>1, <1>2, <1>3 DEF Sessions
<1>5. ~Closing /\ ~q.stream.refuted /\ Keeps(q) /\ Holds(q)
    BY <1>2, <1>3, <1>4 DEF PageSound, Holds, Keeps, HoldsTheLast, PlaceOf
<1>6. World
    BY <1>5, InvSays
<1>7. CASE q.pending # Nothing /\ q.pending.known
  <2>1. PICK p : p = Deliver(q, FALSE)
      OBVIOUS
  <2>2. Deliver(q, FALSE) \in Sessions /\ PageSound(Deliver(q, FALSE))
      BY <1>4, <1>5, <1>6, <1>7, DeliverSound
  <2>3. page' = p /\ p \in Sessions /\ PageSound(p)
      BY <1>2, <1>7, <2>1, <2>2
  <2>4. QED
      BY <1>2, <1>3, <2>3, PageStepSound
<1>8. CASE ~(q.pending # Nothing /\ q.pending.known)
  <2>1. PICK p : p = [q EXCEPT !.doing = "Output"]
      OBVIOUS
  <2>2. /\ p \in Sessions /\ p.doing = "Output" /\ p.purpose = "read" /\ p.stop = "no"
        /\ p.pending = q.pending /\ p.stream = q.stream /\ p.ack = q.ack /\ p.cancel = q.cancel
      BY <1>4, <2>1 DEF Sessions, Doings
  <2>3. Holds(p)
      BY <1>5, <2>2 DEF Holds, Keeps, HoldsTheLast, PlaceOf
  <2>4. Does(p)
      BY <2>2 DEF Does
  <2>5. PageSound(p)
      BY <1>5, <2>2, <2>3, <2>4 DEF PageSound
  <2>6. page' = p
      BY <1>2, <1>8, <2>1
  <2>7. QED
      BY <1>2, <1>3, <2>2, <2>5, <2>6, PageStepSound
<1>9. QED
    BY <1>7, <1>8

(* cancel and closeRun begin.                                              *)
LEMMA BeginStopSound ==
    ASSUME DeliveryInv, BeginStop
    PROVE  DeliveryInv'
<1> DEFINE doing == IF page.stop = "closing" THEN "SaveClosing" ELSE "Cancel"
<1>1. PICK p : p = [page EXCEPT !.purpose = "cancel", !.doing = doing]
    OBVIOUS
<1>2. /\ page.doing = "Idle" /\ page.stop # "no" /\ page' = p
      /\ server' = server /\ shelf' = shelf /\ stray' = stray
    BY <1>1 DEF BeginStop, Page
<1>3. page \in Sessions /\ PageSound(page) /\ page # Over
    BY <1>2, InvSays DEF Away, Over
<1>4. /\ p \in Sessions /\ p.purpose = "cancel" /\ p.doing = doing /\ p.stop = page.stop
      /\ p.pending = page.pending /\ p.stream = page.stream /\ p.ack = page.ack
      /\ p.cancel = page.cancel
    BY <1>1, <1>3 DEF Sessions, Doings
<1>5. ~Closing => Holds(p)
    BY <1>3, <1>4 DEF PageSound, Holds, Keeps, HoldsTheLast, PlaceOf
<1>6. p.stop = "closing" => Closes(p)
    BY <1>2, <1>3, <1>4 DEF PageSound, Closes
<1>7. p.stop # "closing" => ~Closing /\ Does(p)
    BY <1>3, <1>4 DEF PageSound, Does
<1>8. PageSound(p)
    BY <1>3, <1>4, <1>5, <1>6, <1>7 DEF PageSound
<1>9. QED
    BY <1>2, <1>3, <1>4, <1>8, PageStepSound

(* Reading on and stopping change what the page is to do.                  *)
LEMMA NewStatusSound ==
    ASSUME DeliveryInv, page.doing \notin {"Away", "Over"}, page.stop = "no",
           server' = server, shelf' = shelf, stray' = stray,
           NEW status \in {"reading", "stopped", "done", "canceled"},
           NEW stop \in {"no", "cancel", "close"},
           page' = [page EXCEPT !.status = status, !.stop = stop]
    PROVE  DeliveryInv'
<1>1. PICK p : p = [page EXCEPT !.status = status, !.stop = stop]
    OBVIOUS
<1>2. page \in Sessions /\ PageSound(page) /\ page # Over
    BY InvSays DEF Away, Over
<1>3. /\ p \in Sessions /\ p.purpose = page.purpose /\ p.doing = page.doing /\ p.stop = stop
      /\ p.pending = page.pending /\ p.stream = page.stream /\ p.ack = page.ack
      /\ p.cancel = page.cancel /\ p.more = page.more /\ p.reply = page.reply
    BY <1>1, <1>2 DEF Sessions
<1>4. Holds(p)
    BY <1>2, <1>3 DEF PageSound, Holds, Keeps, HoldsTheLast, PlaceOf
<1>5. Does(p)
  <2>1. Does(page) /\ (Unpushed(p) <=> Unpushed(page))
      BY <1>2, <1>3 DEF PageSound, Unpushed, Bound
  <2>2. ReplyKept(page) => ReplyKept(p)
      BY <1>3 DEF ReplyKept
  <2>3. QED
      BY <1>3, <2>1, <2>2 DEF Does
<1>6. PageSound(p)
    BY <1>2, <1>3, <1>4, <1>5 DEF PageSound
<1>7. QED
    BY <1>1, <1>2, <1>3, <1>6, PageStepSound

(* The reading goes on after a failure.                                    *)
LEMMA ResumeSound ==
    ASSUME DeliveryInv, Resume
    PROVE  DeliveryInv'
<1>1. /\ page.doing \notin {"Away", "Over"} /\ page.stop = "no"
      /\ server' = server /\ shelf' = shelf /\ stray' = stray
      /\ page' = [page EXCEPT !.status = "reading"]
    BY DEF Resume, Page
<1>2. page \in Sessions
    BY <1>1, InvSays DEF Away, Over
<1>3. page' = [page EXCEPT !.status = "reading", !.stop = "no"]
    BY <1>1, <1>2 DEF Sessions
<1>4. QED
    BY <1>1, <1>3, NewStatusSound

(* The user asks for a cancellation or a close.                            *)
LEMMA AskToStopSound ==
    ASSUME DeliveryInv, NEW stop \in {"cancel", "close"}, AskToStop(stop)
    PROVE  DeliveryInv'
<1> DEFINE status == IF page.status = "reading" THEN "stopped" ELSE page.status
<1>1. /\ page.doing \notin {"Away", "Over"} /\ page.stop = "no"
      /\ server' = server /\ shelf' = shelf /\ stray' = stray
      /\ page' = [page EXCEPT !.stop = stop, !.status = status]
    BY DEF AskToStop, Page
<1>2. page \in Sessions
    BY <1>1, InvSays DEF Away, Over
<1>3. PICK s : s = status
    OBVIOUS
<1>4. s \in {"reading", "stopped", "done", "canceled"}
    BY <1>2, <1>3 DEF Sessions
<1>5. page' = [page EXCEPT !.status = s, !.stop = stop]
    BY <1>1, <1>2, <1>3 DEF Sessions
<1>6. QED
    BY <1>1, <1>4, <1>5, NewStatusSound

(* The run of an open row is not over.                                     *)
LEMMA OpenSound ==
    ASSUME DeliveryInv, Open
    PROVE  DeliveryInv'
<1> DEFINE row == shelf.row
           restored == Restored(row)
           pending == IF row.sequence = 0 THEN Nothing
                      ELSE [kind |-> "batch", known |-> FALSE, batch |-> NoBatch,
                            sequence |-> row.sequence, index |-> row.index]
           stream == [NewStream EXCEPT !.total = row.total, !.current = row.current]
<1>1. page.doing = "Away" /\ server' = server /\ shelf' = shelf /\ stray' = stray
    BY DEF Open, Page
<1>2. page # Over /\ row # Nothing /\ row \in Rows
    BY <1>1, InvSays DEF Over
<1>3. /\ page' = CASE row.phase = "closing" ->
                      [restored EXCEPT !.doing = "SaveClosing", !.stop = "closing", !.purpose = "cancel"]
                 [] row.phase = "canceled" -> [restored EXCEPT !.status = "canceled"]
                 [] OTHER -> [restored EXCEPT !.doing = "Status", !.purpose = "cancel"]
    BY <1>2 DEF Open, Page
<1>4. /\ row.ack \in Nat /\ row.total \in Nat /\ row.current \in Currents
      /\ row.sequence \in Nat /\ row.index \in Nat
    BY <1>2 DEF Rows
<1>5. NoBatch \in Batches
  <2>1. <<>> \in Seq(Events)
      OBVIOUS
  <2>2. QED
      BY <2>1 DEF NoBatch, Batches
<1>6. /\ pending \in PendingRecords \cup {Nothing}
      /\ row.sequence = 0 => pending = Nothing
      /\ row.sequence # 0 => /\ pending # Nothing /\ pending.known = FALSE
                             /\ pending.batch = NoBatch
                             /\ pending.sequence = row.sequence /\ pending.index = row.index
    BY <1>4, <1>5 DEF PendingRecords, Nothing
<1>7. /\ stream \in StreamRecords /\ stream.total = row.total /\ stream.current = row.current
      /\ stream.writes = {} /\ stream.refuted = FALSE
    BY <1>4 DEF NewStream, StreamRecords
<1>8. restored = [NewSession EXCEPT !.ack = row.ack, !.stream = stream, !.pending = pending]
    BY DEF Restored
<1> HIDE DEF pending, stream, restored
<1>9. /\ restored \in Sessions /\ restored.doing = "Idle" /\ restored.ack = row.ack
      /\ restored.stream = stream /\ restored.pending = pending /\ restored.stop = "no"
      /\ restored.cancel = FALSE
    BY <1>4, <1>6, <1>7, <1>8 DEF NewSession, Sessions, Doings
<1>10. PICK p : p = CASE row.phase = "closing" ->
                      [restored EXCEPT !.doing = "SaveClosing", !.stop = "closing", !.purpose = "cancel"]
                 [] row.phase = "canceled" -> [restored EXCEPT !.status = "canceled"]
                 [] OTHER -> [restored EXCEPT !.doing = "Status", !.purpose = "cancel"]
    OBVIOUS
<1>11. /\ p \in Sessions /\ p.ack = row.ack /\ p.stream = stream /\ p.pending = pending
       /\ p.cancel = FALSE
       /\ row.phase = "closing" => p.stop = "closing" /\ p.doing = "SaveClosing"
       /\ row.phase # "closing" => p.stop = "no" /\ p.doing \in {"Idle", "Status"}
  <2>1. CASE row.phase = "closing"
    <3>1. p = [restored EXCEPT !.doing = "SaveClosing", !.stop = "closing", !.purpose = "cancel"]
        BY <1>10, <2>1
    <3>2. QED
        BY <1>9, <2>1, <3>1 DEF Sessions, Doings
  <2>2. CASE row.phase = "canceled"
    <3>1. p = [restored EXCEPT !.status = "canceled"]
        BY <1>10, <2>2
    <3>2. QED
        BY <1>9, <2>2, <3>1 DEF Sessions, Doings
  <2>3. CASE row.phase # "closing" /\ row.phase # "canceled"
    <3>1. p = [restored EXCEPT !.doing = "Status", !.purpose = "cancel"]
        BY <1>10, <2>3
    <3>2. QED
        BY <1>9, <2>3, <3>1 DEF Sessions, Doings
  <2>4. QED
      BY <2>1, <2>2, <2>3
<1>12. Shelved(row.total, row.current) /\ (row.phase = "closing" => AllSaved)
    BY <1>2, InvSays DEF ShelfSound
<1>13. Written(stream)
  <2>1. Of({}, "parts") = {} /\ Of({}, "answers") = {}
      BY DEF Of
  <2>2. QED
      BY <1>7, <1>12, <2>1 DEF Written, Shelved
<1>14. ~Closing => Holds(p)
  <2>1. SUFFICES ASSUME ~Closing PROVE Keeps(p)
      BY <1>11 DEF Holds
  <2>2. RowSound
      BY <2>1, InvSays
  <2>3. PlaceOf(p) = RowPlace
      BY <1>6, <1>11 DEF PlaceOf, RowPlace
  <2>4. StandsAt(stream.total, stream.current, PlaceOf(p))
      BY <1>7, <2>2, <2>3 DEF RowSound
  <2>5. p.pending = Nothing => row.sequence = 0
      BY <1>6, <1>11
  <2>6. p.pending # Nothing =>
          /\ p.pending.sequence = row.ack + 1 /\ server.batch.sequence = row.ack + 1
          /\ p.pending.index <= Len(server.batch.events)
          /\ p.pending.batch = IF p.pending.known THEN server.batch ELSE NoBatch
      BY <1>6, <1>11, <2>2 DEF RowSound
  <2>7. QED
      BY <1>11, <1>13, <2>4, <2>5, <2>6 DEF Keeps
<1>15. row.phase = "closing" => Closes(p)
    BY <1>6, <1>7, <1>11, <1>12 DEF Closes, AllSaved
<1>16. row.phase # "closing" => ~Closing /\ Does(p)
    BY <1>2, <1>11 DEF Closing, Does
<1>17. PageSound(p)
    BY <1>7, <1>11, <1>14, <1>15, <1>16 DEF PageSound
<1>18. page' = p
    BY <1>3, <1>10
<1>19. QED
    BY <1>1, <1>2, <1>11, <1>17, <1>18, PageStepSound

-----------------------------------------------------------------------------
(* The store.                                                              *)

(* What a step of the page keeps that leaves the server.                   *)
LEMMA ServerLeft ==
    ASSUME DeliveryInv, server' = server, stray' = stray,
           shelf' = [parts |-> shelf'.parts, answers |-> shelf'.answers, row |-> shelf'.row],
           shelf'.row \in Rows, ShelfSound', ~Closing' => RowSound',
           \A q \in stray : QuestionSound(q)',
           NEW p, page' = p, p \in Sessions, PageSound(p)'
    PROVE  DeliveryInv'
<1>1. server' \in Servers /\ SpoolSound'
  <2>1. server \in Servers /\ SpoolSound
      BY InvSays
  <2>2. QED
      BY <2>1 DEF SpoolSound, Last, ReadPlace, BatchPlace, NoBatch
<1>2. p # Away /\ p # Over
    BY SessionsAreThere
<1>3. PageSound(page)'
    BY PageIs
<1>4. stray' \subseteq Questions /\ (~Closing' => StraysSound')
    BY DEF QuestionSound, StraysSound
<1>5. shelf'.row # Nothing
    BY DEF Rows, Nothing
<1>6. DeliveryTypes'
    BY <1>1, <1>4 DEF DeliveryTypes, Nothing, Away, Over
<1>7. (page = Over <=> shelf.row = Nothing)'
    BY <1>2, <1>5 DEF Over, Nothing
<1>8. QED
    BY <1>1, <1>3, <1>4, <1>6, <1>7 DEF DeliveryInv

(* The row is marked before the run is closed.                             *)
LEMMA SaveClosingSound ==
    ASSUME DeliveryInv, SaveClosing
    PROVE  DeliveryInv'
<1> DEFINE row == [shelf.row EXCEPT !.phase = "closing"]
<1>1. /\ page.doing = "SaveClosing" /\ server' = server /\ stray' = stray
      /\ shelf' = [shelf EXCEPT !.row.phase = "closing"]
      /\ page' = [page EXCEPT !.doing = "Close"]
    BY DEF SaveClosing, Store
<1>2. page \in Sessions /\ PageSound(page) /\ page # Over /\ shelf.row # Nothing
    BY <1>1, InvSays DEF Away, Over
<1>3. page.stop = "closing" /\ Closes(page) /\ AllSaved /\ ~page.stream.refuted
    BY <1>1, <1>2 DEF PageSound, Does, Closes
<1>4. /\ shelf.row \in Rows /\ ShelfSound
      /\ shelf = [parts |-> shelf.parts, answers |-> shelf.answers, row |-> shelf.row]
    BY <1>2, InvSays DEF DeliveryInv, DeliveryTypes
<1>5. /\ shelf'.parts = shelf.parts /\ shelf'.answers = shelf.answers /\ shelf'.row = row
      /\ shelf' = [parts |-> shelf'.parts, answers |-> shelf'.answers, row |-> shelf'.row]
    BY <1>1, <1>4
<1>6. /\ row \in Rows /\ row.phase = "closing" /\ row.total = shelf.row.total
      /\ row.current = shelf.row.current /\ row.sequence = shelf.row.sequence
    BY <1>4 DEF Rows
<1> HIDE DEF row
<1>7. AllSaved'
    BY <1>1, <1>3, <1>5, <1>6 DEF AllSaved, Complete, Nothing
<1>8. ShelfSound'
  <2>1. Shelved(shelf.row.total, shelf.row.current)
      BY <1>2, <1>4 DEF ShelfSound
  <2>2. Shelved(shelf.row.total, shelf.row.current)'
      BY <1>1, <1>5, <1>6, <2>1 DEF Shelved, PartsUpTo, PartsOf, AnswersUpTo, AnswerOf, Nothing
  <2>3. shelf'.row # Nothing
      BY <1>5, <1>6 DEF Rows, Nothing
  <2>4. QED
      BY <1>7, <2>2, <2>3 DEF ShelfSound, Nothing
<1>9. Closing'
    BY <1>5, <1>6 DEF Closing
<1>10. PICK p : p = [page EXCEPT !.doing = "Close"]
    OBVIOUS
<1>11. /\ p \in Sessions /\ p.doing = "Close" /\ p.stop = "closing"
       /\ p.pending = page.pending /\ p.stream = page.stream
    BY <1>2, <1>3, <1>10 DEF Sessions, Doings
<1>12. Closes(p)'
  <2>1. p.pending = Nothing /\ p.stream.writes = {} /\ p.stream.current = Nothing
        /\ p.stream.total = shelf'.row.total
      BY <1>3, <1>5, <1>6, <1>11 DEF Closes
  <2>2. QED
      BY <1>5, <1>6, <1>7, <1>11, <2>1 DEF Closes, Nothing
<1>13. PageSound(p)'
    BY <1>3, <1>9, <1>11, <1>12 DEF PageSound
<1>14. \A q \in stray : QuestionSound(q)'
    BY <1>9, InvSays DEF QuestionSound
<1>15. QED
    BY <1>1, <1>5, <1>6, <1>8, <1>9, <1>10, <1>11, <1>13, <1>14, ServerLeft

(* An alternative under way is dropped from the store.                     *)
LEMMA DropSound ==
    ASSUME DeliveryInv, Drop
    PROVE  DeliveryInv'
<1>1. page.doing = "Drop" /\ page' = [page EXCEPT !.doing = "Forget"]
      /\ server' = server /\ stray' = stray
    BY DEF Drop, Store
<1>2. page \in Sessions /\ PageSound(page) /\ page # Over
    BY <1>1, InvSays DEF Away, Over
<1>3. page.stop = "closing" /\ Closes(page) /\ AllSaved /\ ~page.stream.refuted
      /\ shelf.row.phase = "closing"
    BY <1>1, <1>2 DEF PageSound, Does, Closes
<1>4. shelf' = shelf
    BY <1>3 DEF Drop, Store, AllSaved
<1>5. PICK p : p = [page EXCEPT !.doing = "Forget"]
    OBVIOUS
<1>6. /\ p \in Sessions /\ p.doing = "Forget" /\ p.stop = "closing"
      /\ p.pending = page.pending /\ p.stream = page.stream
    BY <1>2, <1>3, <1>5 DEF Sessions, Doings
<1>7. Closes(p) /\ Closing
    BY <1>3, <1>6 DEF Closes, Closing
<1>8. PageSound(p)
    BY <1>3, <1>6, <1>7 DEF PageSound
<1>9. QED
    BY <1>1, <1>2, <1>4, <1>5, <1>6, <1>8, PageStepSound

(* The row of a closed run is forgotten.                                   *)
LEMMA ForgetSound ==
    ASSUME DeliveryInv, Forget
    PROVE  DeliveryInv'
<1>1. /\ page.doing = "Forget" /\ page' = Over /\ server' = server /\ stray' = stray
      /\ shelf' = [shelf EXCEPT !.row = Nothing]
    BY DEF Forget, Store
<1>2. page \in Sessions /\ PageSound(page) /\ page # Over /\ shelf.row # Nothing
    BY <1>1, InvSays DEF Away, Over
<1>3. AllSaved
    BY <1>1, <1>2 DEF PageSound, Does, Closes
<1>4. /\ ShelfSound /\ server \in Servers /\ SpoolSound /\ stray \subseteq Questions
      /\ shelf = [parts |-> shelf.parts, answers |-> shelf.answers, row |-> shelf.row]
    BY InvSays DEF DeliveryInv, DeliveryTypes
<1>5. /\ shelf'.parts = shelf.parts /\ shelf'.answers = shelf.answers /\ shelf'.row = Nothing
      /\ shelf' = [parts |-> shelf'.parts, answers |-> shelf'.answers, row |-> shelf'.row]
    BY <1>1, <1>4
<1>6. ShelfSound'
  <2>1. Shelved(Complete, Nothing) /\ server.canceled
      BY <1>2, <1>3, <1>4 DEF ShelfSound, AllSaved
  <2>2. Shelved(Complete, Nothing)'
      BY <1>1, <1>5, <2>1 DEF Shelved, PartsUpTo, PartsOf, AnswersUpTo, AnswerOf, Nothing, Complete
  <2>3. QED
      BY <1>1, <1>5, <2>1, <2>2 DEF ShelfSound, Nothing
<1>7. Closing'
    BY <1>5 DEF Closing, Nothing
<1>8. server' \in Servers /\ SpoolSound'
    BY <1>1, <1>4 DEF SpoolSound, Last, ReadPlace, BatchPlace, NoBatch
<1>9. DeliveryTypes'
    BY <1>1, <1>4, <1>5, <1>8 DEF DeliveryTypes, Nothing, Over, Away
<1>10. (page = Over <=> shelf.row = Nothing)'
    BY <1>1, <1>5 DEF Over, Nothing
<1>11. page' \in {Away, Over}'
    BY <1>1 DEF Over, Away
<1>12. QED
    BY <1>6, <1>7, <1>8, <1>9, <1>10, <1>11 DEF DeliveryInv

-----------------------------------------------------------------------------
(* What a transaction stores.                                              *)

(* What the number of an answer and the place of a part in it determine.   *)
LEMMA RecordsUpTo ==
    ASSUME NEW total \in Nat, NEW current
    PROVE  /\ \A w \in PartsUpTo(total, current) :
                 /\ w = [store |-> "parts", number |-> w.number, slot |-> w.slot,
                         alternative |-> w.number]
                 /\ w.number \in 1 .. total + 1
                 /\ w \in PartsUpTo(total, Nothing) <=> w.number # total + 1
           /\ PartsUpTo(total, Nothing) \subseteq PartsUpTo(total, current)
           /\ \A w \in AnswersUpTo(total) :
                 /\ w.slot = 0 /\ w = AnswerOf(w.number) /\ w.number \in 1 .. total
<1>1. ASSUME NEW n, NEW parts, NEW w \in PartsOf(n, parts)
      PROVE  /\ w = [store |-> "parts", number |-> w.number, slot |-> w.slot,
                     alternative |-> w.number]
             /\ w.number = n
    BY DEF PartsOf
<1> DEFINE complete == UNION {PartsOf(n, PartsSoFar(server.emitted, n)) : n \in 1 .. total}
<1>2. ASSUME NEW w \in complete
      PROVE  /\ w = [store |-> "parts", number |-> w.number, slot |-> w.slot,
                     alternative |-> w.number]
             /\ w.number \in 1 .. total
  <2>1. PICK n \in 1 .. total : w \in PartsOf(n, PartsSoFar(server.emitted, n))
      BY <1>2
  <2>2. QED
      BY <1>1, <2>1
<1> HIDE DEF complete
<1>3. PartsUpTo(total, Nothing) = complete
    BY DEF PartsUpTo, complete
<1>4. PartsUpTo(total, current) =
         complete \cup (IF current = Nothing THEN {} ELSE PartsOf(total + 1, current.parts))
    BY DEF PartsUpTo, complete
<1>5. ASSUME NEW w \in PartsUpTo(total, current)
      PROVE  /\ w = [store |-> "parts", number |-> w.number, slot |-> w.slot,
                     alternative |-> w.number]
             /\ w.number \in 1 .. total + 1
             /\ w \in complete <=> w.number # total + 1
  <2>1. CASE w \in complete
    <3>1. w.number \in 1 .. total
        BY <1>2, <2>1
    <3>2. w.number \in 1 .. total + 1 /\ w.number # total + 1
        BY <3>1
    <3>3. QED
        BY <1>2, <2>1, <3>2
  <2>2. CASE w \notin complete
    <3>1. w \in PartsOf(total + 1, current.parts)
        BY <1>4, <2>2
    <3>2. w.number = total + 1 /\ total + 1 \in 1 .. total + 1
        BY <1>1, <3>1
    <3>3. QED
        BY <1>1, <2>2, <3>1, <3>2
  <2>3. QED
      BY <2>1, <2>2
<1>6. ASSUME NEW w \in AnswersUpTo(total)
      PROVE  w.slot = 0 /\ w = AnswerOf(w.number) /\ w.number \in 1 .. total
    BY DEF AnswersUpTo, AnswerOf
<1>7. QED
    BY <1>3, <1>4, <1>5, <1>6

(* put puts what is there in place of what was.                            *)
LEMMA PutIs ==
    ASSUME NEW stored, NEW writes,
           \A v, w \in stored \cup writes : v.number = w.number /\ v.slot = w.slot => v = w
    PROVE  Put(stored, writes) = stored \cup writes
  BY DEF Put

(* IndexedAnswerStore.flush stores all of a stream, but for the            *)
(* alternative that is discarded.                                          *)
LEMMA FlushIs ==
    ASSUME NEW p \in Sessions, Written(p.stream),
           p.stream.current = Nothing \/ p.stream.current.number = p.stream.total + 1,
           NEW discard \in BOOLEAN, NEW complete, Flush(p, discard, complete)
    PROVE  /\ shelf'.parts = PartsUpTo(p.stream.total, IF discard THEN Nothing ELSE p.stream.current)
           /\ shelf'.answers = AnswersUpTo(p.stream.total)
           /\ shelf'.row = PlaceAfter(p, discard, complete)
           /\ shelf' = [parts |-> shelf'.parts, answers |-> shelf'.answers, row |-> shelf'.row]
<1> DEFINE number == Discarded(p, discard)
           OfThem(store) == {w \in p.stream.writes : w.store = store /\ w.number # number}
<1>1. PICK total, current, writes : /\ total = p.stream.total /\ current = p.stream.current
                                    /\ writes = p.stream.writes
    OBVIOUS
<1>2. total \in Nat
    BY <1>1 DEF Sessions, StreamRecords
<1>3. /\ shelf'.parts = {w \in Put(shelf.parts, OfThem("parts")) : w.number # number}
      /\ shelf'.answers = Put(shelf.answers, OfThem("answers"))
      /\ shelf'.row = PlaceAfter(p, discard, complete)
      /\ shelf' = [parts |-> shelf'.parts, answers |-> shelf'.answers, row |-> shelf'.row]
    BY DEF Flush
<1>4. /\ number = IF discard /\ current # Nothing THEN total + 1 ELSE 0
    BY <1>1 DEF Discarded
<1> HIDE DEF number
<1>5. /\ shelf.parts \cup Of(writes, "parts") = PartsUpTo(total, current)
      /\ shelf.answers \cup Of(writes, "answers") = AnswersUpTo(total)
    BY <1>1 DEF Written
<1>6. /\ OfThem("parts") = {w \in Of(writes, "parts") : w.number # number}
      /\ OfThem("answers") = {w \in Of(writes, "answers") : w.number # number}
    BY <1>1 DEF Of
<1> HIDE DEF OfThem
<1>7. /\ \A w \in PartsUpTo(total, current) :
                 /\ w = [store |-> "parts", number |-> w.number, slot |-> w.slot,
                         alternative |-> w.number]
                 /\ w.number \in 1 .. total + 1
                 /\ w \in PartsUpTo(total, Nothing) <=> w.number # total + 1
      /\ PartsUpTo(total, Nothing) \subseteq PartsUpTo(total, current)
      /\ \A w \in AnswersUpTo(total) :
                 /\ w.slot = 0 /\ w = AnswerOf(w.number) /\ w.number \in 1 .. total
    BY <1>2, RecordsUpTo
<1>8. Put(shelf.parts, OfThem("parts")) = shelf.parts \cup OfThem("parts")
  <2>1. shelf.parts \cup OfThem("parts") \subseteq PartsUpTo(total, current)
      BY <1>5, <1>6
  <2>2. \A v, w \in PartsUpTo(total, current) : v.number = w.number /\ v.slot = w.slot => v = w
      BY <1>7
  <2>3. QED
      BY <2>1, <2>2, PutIs
<1>9. Put(shelf.answers, OfThem("answers")) = shelf.answers \cup OfThem("answers")
  <2>1. shelf.answers \cup OfThem("answers") \subseteq AnswersUpTo(total)
      BY <1>5, <1>6
  <2>2. \A v, w \in AnswersUpTo(total) : v.number = w.number /\ v.slot = w.slot => v = w
      BY <1>7
  <2>3. QED
      BY <2>1, <2>2, PutIs
<1>10. shelf'.answers = AnswersUpTo(total)
  <2>1. \A w \in AnswersUpTo(total) : w.number # number
    <3>1. \A n \in 1 .. total : n # 0 /\ n # total + 1
        BY <1>2
    <3>2. QED
        BY <1>4, <1>7, <3>1
  <2>2. OfThem("answers") = Of(writes, "answers")
      BY <1>5, <1>6, <2>1
  <2>3. QED
      BY <1>3, <1>5, <1>9, <2>2
<1>11. shelf'.parts = {w \in PartsUpTo(total, current) : w.number # number}
    BY <1>3, <1>5, <1>6, <1>8
<1>12. shelf'.parts = PartsUpTo(total, IF discard THEN Nothing ELSE current)
  <2>1. CASE discard /\ current # Nothing
      BY <1>4, <1>7, <1>11, <2>1
  <2>2. CASE ~(discard /\ current # Nothing)
    <3>1. number = 0
        BY <1>4, <2>2
    <3>2. \A n \in 1 .. total + 1 : n # 0
        BY <1>2
    <3>3. shelf'.parts = PartsUpTo(total, current)
        BY <1>7, <1>11, <3>1, <3>2
    <3>4. QED
        BY <2>2, <3>3
  <2>3. QED
      BY <2>1, <2>2
<1>13. QED
    BY <1>1, <1>3, <1>10, <1>12

(* The phase of a row that is not to be closed.                            *)
LEMMA PhaseIs ==
    ASSUME NEW p \in Sessions, shelf.row \in Rows, shelf.row.phase # "closing",
           NEW complete \in BOOLEAN
    PROVE  /\ PhaseAfter(p, complete) \in {"open", "canceling", "canceled", "done"}
           /\ PhaseAfter(p, complete) = "done" =>
                 ~p.cancel /\ IF p.pending = Nothing THEN shelf.row.phase = "done"
                              ELSE p.pending.batch.done
  BY DEF PhaseAfter, ExecutionStatus, Rows

-----------------------------------------------------------------------------
(* Transactions of a delivery.                                             *)

(* A page that has written all pushes on, in the state it wrote.           *)
Pushes(q, r) ==
    /\ World /\ q.doing = "Write" /\ q.stop # "closing"
    /\ ~q.stream.refuted /\ q.stream.writes = {} /\ Holds(q) /\ Does(q)
    /\ r = PushOn(q)

(* The same in the state after a step.                                     *)
LEMMA PushOnThen ==
    (\A q \in Sessions : \A r : Pushes(q, r) => r \in Sessions /\ PageSound(r))'
<1>1. \A q \in Sessions : \A r : Pushes(q, r) => r \in Sessions /\ PageSound(r)
    BY PushOnSound DEF Pushes
<1>2. QED
    BY <1>1, PTL

(* Where a stream stands, its alternative has the next number.             *)
LEMMA CurrentIs ==
    ASSUME NEW total, NEW current, NEW k, StandsAt(total, current, k)
    PROVE  current = Nothing \/ current.number = total + 1
  BY DEF StandsAt, CurrentAt

(* What the server said stays as it is when the shelf alone changes.       *)
LEMMA ServerSame ==
    ASSUME server' = server
    PROVE  /\ Last' = Last /\ ReadPlace' = ReadPlace /\ BatchPlace' = BatchPlace
           /\ Complete' = Complete /\ NoBatch' = NoBatch /\ (SpoolSound => SpoolSound')
           /\ \A total, current, k : StandsAt(total, current, k) => StandsAt(total, current, k)'
           /\ \A total, current : PartsUpTo(total, current)' = PartsUpTo(total, current)
           /\ \A total : AnswersUpTo(total)' = AnswersUpTo(total)
<1>1. /\ Last' = Last /\ ReadPlace' = ReadPlace /\ BatchPlace' = BatchPlace
      /\ Complete' = Complete /\ NoBatch' = NoBatch /\ Nothing' = Nothing
    BY DEF Last, ReadPlace, BatchPlace, Complete, NoBatch, Nothing
<1>2. \A total, current, k : StandsAt(total, current, k) => StandsAt(total, current, k)'
    BY <1>1 DEF StandsAt, CurrentAt, Nothing
<1>3. \A n : AnswerOf(n)' = AnswerOf(n) /\ \A parts : PartsOf(n, parts)' = PartsOf(n, parts)
    BY DEF AnswerOf, PartsOf
<1>4. \A total : AnswersUpTo(total)' = AnswersUpTo(total)
    BY <1>3 DEF AnswersUpTo
<1>5. \A total, current : PartsUpTo(total, current)' = PartsUpTo(total, current)
    BY <1>1, <1>3 DEF PartsUpTo
<1>6. SpoolSound => SpoolSound'
    BY <1>1 DEF SpoolSound
<1>7. QED
    BY <1>1, <1>2, <1>4, <1>5, <1>6

(* A delivery stores what is to be written, and its place in the batch.    *)
LEMMA WriteSound ==
    ASSUME DeliveryInv, Write
    PROVE  DeliveryInv'
<1>1. /\ page.doing = "Write" /\ server' = server /\ stray' = stray
      /\ Flush(page, FALSE, FALSE) /\ page' = PushOn(Flushed(page, FALSE))
    BY DEF Write, Store
<1>2. PICK p, q, r : p = page /\ q = Flushed(p, FALSE) /\ r = PushOn(q)
    OBVIOUS
<1>3. page \notin {Away, Over}
    BY <1>1 DEF Away, Over
<1>4. p \in Sessions /\ PageSound(p) /\ p.doing = "Write" /\ page' = r
    BY <1>1, <1>2, <1>3, PageNamed
<1>5. p.stop # "closing" /\ ~Closing /\ Holds(p) /\ Keeps(p) /\ Does(p) /\ ~p.stream.refuted
    BY <1>4 DEF PageSound, Closes, Holds
<1>6. World /\ server \in Servers /\ SpoolSound /\ RowSound /\ ShelfSound /\ shelf.row \in Rows
      /\ shelf.row.phase # "closing"
    BY <1>5, InvSays DEF World, Closing
<1>7. p.pending # Nothing =>
         /\ p.pending.known /\ p.pending.batch = server.batch
         /\ server.batch.sequence = shelf.row.ack + 1
         /\ p.pending.index \in Nat /\ p.pending.index <= Len(server.batch.events)
    BY <1>4, <1>5 DEF Does, Keeps, Sessions, PendingRecords
<1>8. PICK total, current : total = p.stream.total /\ current = p.stream.current
    OBVIOUS
<1>9. StandsAt(total, current, PlaceOf(p)) /\ Written(p.stream) /\ total \in Nat /\ current \in Currents
    BY <1>4, <1>5, <1>8 DEF Keeps, Sessions, StreamRecords
<1>10. /\ shelf'.parts = PartsUpTo(total, current) /\ shelf'.answers = AnswersUpTo(total)
       /\ shelf'.row = PlaceAfter(p, FALSE, FALSE)
       /\ shelf' = [parts |-> shelf'.parts, answers |-> shelf'.answers, row |-> shelf'.row]
  <2>1. p.stream.current = Nothing \/ p.stream.current.number = p.stream.total + 1
      BY <1>8, <1>9, CurrentIs
  <2>2. Flush(p, FALSE, FALSE)
      BY <1>1, <1>2
  <2>3. QED
      BY <1>4, <1>8, <1>9, <2>1, <2>2, FlushIs
<1>11. PICK phase : phase = PhaseAfter(p, FALSE)
    OBVIOUS
<1>12. /\ phase \in {"open", "canceling", "canceled", "done"}
       /\ phase = "done" /\ p.pending = Nothing => shelf.row.phase = "done"
    BY <1>4, <1>6, <1>11, PhaseIs
<1>13. /\ shelf'.row.phase = phase /\ shelf'.row.ack = shelf.row.ack
       /\ shelf'.row.sequence = IF p.pending = Nothing THEN 0 ELSE shelf.row.ack + 1
       /\ shelf'.row.index = IF p.pending = Nothing THEN 0 ELSE p.pending.index
       /\ shelf'.row.total = total /\ shelf'.row.current = current
       /\ shelf'.row = [phase |-> shelf'.row.phase, ack |-> shelf'.row.ack,
                        sequence |-> shelf'.row.sequence, index |-> shelf'.row.index,
                        total |-> shelf'.row.total, current |-> shelf'.row.current]
    BY <1>7, <1>8, <1>10, <1>11 DEF PlaceAfter
<1>14. shelf.row.ack \in Nat
    BY <1>6 DEF Rows
<1>15. shelf'.row \in Rows /\ shelf'.row # Nothing
  <2>1. shelf'.row \in Rows
      BY <1>7, <1>9, <1>12, <1>13, <1>14 DEF Rows
  <2>2. QED
      BY <2>1 DEF Rows, Nothing
<1>16. ~Closing'
    BY <1>12, <1>13, <1>15 DEF Closing, Nothing
<1>17. AckPlace' = AckPlace /\ PlaceOf(p)' = PlaceOf(p) /\ RowPlace' = PlaceOf(p)
  <2>1. AckPlace' = AckPlace
      BY <1>1, <1>13, ServerSame DEF AckPlace
  <2>2. PlaceOf(p)' = PlaceOf(p)
      BY <1>1, <2>1, ServerSame DEF PlaceOf, Nothing
  <2>3. RowPlace' = PlaceOf(p)
    <3>1. CASE p.pending = Nothing
        BY <1>13, <2>1, <3>1 DEF RowPlace, PlaceOf
    <3>2. CASE p.pending # Nothing
      <4>1. shelf'.row.sequence # 0 /\ shelf'.row.index = p.pending.index
          BY <1>13, <1>14, <3>2
      <4>2. QED
          BY <1>1, <3>2, <4>1, ServerSame DEF RowPlace, PlaceOf
    <3>3. QED
        BY <3>1, <3>2
  <2>4. QED
      BY <2>1, <2>2, <2>3
<1>18. PICK place : place = PlaceOf(p)
    OBVIOUS
<1>19. StandsAt(total, current, place)'
    BY <1>1, <1>9, <1>18, ServerSame
<1>20. RowSound'
  <2>1. server'.batch.sequence \in {shelf'.row.ack, shelf'.row.ack + 1}
        /\ ~server'.closing /\ ~server'.gone
      BY <1>1, <1>6, <1>13 DEF RowSound
  <2>2. shelf'.row.sequence # 0 => /\ shelf'.row.sequence = shelf'.row.ack + 1
                                   /\ server'.batch.sequence = shelf'.row.ack + 1
                                   /\ shelf'.row.index <= Len(server'.batch.events)
      BY <1>1, <1>7, <1>13
  <2>3. StandsAt(shelf.row.total, shelf.row.current, RowPlace)'
      BY <1>13, <1>17, <1>18, <1>19 DEF StandsAt, Nothing
  <2>4. ASSUME shelf'.row.phase = "done", shelf'.row.sequence = 0
        PROVE  server'.ended /\ RowPlace' = Last'
    <3>1. p.pending = Nothing /\ shelf.row.phase = "done" /\ shelf.row.sequence = 0
      <4>1. p.pending = Nothing
          BY <1>13, <1>14, <2>4
      <4>2. QED
          BY <1>5, <1>12, <1>13, <2>4, <4>1 DEF Keeps
    <3>2. server.ended /\ RowPlace = Last
        BY <1>6, <3>1 DEF RowSound
    <3>3. RowPlace = PlaceOf(p)
        BY <3>1 DEF RowPlace, PlaceOf
    <3>4. QED
        BY <1>1, <1>17, <3>2, <3>3, ServerSame
  <2>5. QED
      BY <2>1, <2>2, <2>3, <2>4 DEF RowSound
<1>21. Shelved(total, current)'
    BY <1>1, <1>10, ServerSame DEF Shelved
<1>22. ShelfSound'
  <2>1. Shelved(shelf.row.total, shelf.row.current)'
      BY <1>13, <1>21 DEF Shelved
  <2>2. QED
      BY <1>12, <1>13, <1>15, <2>1 DEF ShelfSound, Nothing
<1>23. World'
    BY <1>1, <1>6, <1>15, <1>16, <1>20, ServerSame DEF World
<1>24. /\ q \in Sessions /\ q.doing = "Write" /\ q.stop = p.stop /\ q.ack = p.ack
       /\ q.pending = p.pending /\ q.cancel = p.cancel /\ q.more = p.more /\ q.purpose = p.purpose
       /\ q.stream.writes = {} /\ q.stream.refuted = p.stream.refuted
       /\ q.stream.total = total /\ q.stream.current = current
  <2> DEFINE stream == [p.stream EXCEPT !.writes = {}]
  <2>1. /\ stream \in StreamRecords /\ stream.writes = {} /\ stream.refuted = p.stream.refuted
        /\ stream.total = total /\ stream.current = current
      BY <1>4, <1>8 DEF Sessions, StreamRecords
  <2>2. q = [p EXCEPT !.stream = stream]
    <3>1. q = [p EXCEPT !.stream = [[p.stream EXCEPT !.writes = {}] EXCEPT !.current = p.stream.current]]
        BY <1>2, <1>4 DEF Flushed, Sessions, StreamRecords
    <3>2. [[p.stream EXCEPT !.writes = {}] EXCEPT !.current = p.stream.current] = stream
        BY <1>4 DEF Sessions, StreamRecords
    <3>3. QED
        BY <3>1, <3>2
  <2> HIDE DEF stream
  <2>3. QED
      BY <1>4, <2>1, <2>2 DEF Sessions
<1>25. Keeps(q)'
  <2>1. StandsAt(q.stream.total, q.stream.current, PlaceOf(q))'
    <3>1. PlaceOf(q)' = place
        BY <1>17, <1>18, <1>24 DEF PlaceOf, Nothing
    <3>2. QED
        BY <1>19, <1>24, <3>1 DEF StandsAt, Nothing
  <2>2. Written(q.stream)'
    <3>1. Of({}, "parts") = {} /\ Of({}, "answers") = {}
        BY DEF Of
    <3>2. QED
        BY <1>21, <1>24, <3>1 DEF Written, Shelved
  <2>3. q.ack = shelf'.row.ack /\ (q.pending = Nothing => shelf'.row.sequence = 0)
      BY <1>5, <1>13, <1>24 DEF Keeps
  <2>4. q.pending # Nothing =>
          /\ q.pending.sequence = shelf'.row.ack + 1 /\ server'.batch.sequence = shelf'.row.ack + 1
          /\ q.pending.index <= Len(server'.batch.events)
          /\ q.pending.batch = IF q.pending.known THEN server'.batch ELSE NoBatch
      BY <1>1, <1>5, <1>13, <1>24 DEF Keeps
  <2>5. QED
      BY <2>1, <2>2, <2>3, <2>4 DEF Keeps, Nothing, NoBatch
<1>26. (q.cancel => HoldsTheLast(q))'
    BY <1>1, <1>5, <1>17, <1>24, ServerSame DEF Holds, HoldsTheLast, Nothing
<1>27. Does(q)'
    BY <1>1, <1>4, <1>5, <1>24 DEF Does, Nothing
<1>28. Holds(q)'
    BY <1>25, <1>26 DEF Holds
<1>29. r = PushOn(q)'
    BY <1>2
<1>30. Pushes(q, r)'
    BY <1>5, <1>23, <1>24, <1>27, <1>28, <1>29 DEF Pushes
<1>31. r \in Sessions /\ PageSound(r)'
    BY <1>24, <1>30, PushOnThen
<1>32. \A s \in stray : QuestionSound(s)'
    BY <1>5, <1>13, <1>16, InvSays DEF QuestionSound
<1>33. QED
    BY <1>1, <1>4, <1>10, <1>15, <1>20, <1>22, <1>31, <1>32, ServerLeft

(* What was delivered with a batch ends where the batch does: nothing is   *)
(* left of it, or no end of an alternative that a cancellation would keep. *)
LEMMA AllIsDelivered ==
    ASSUME World, NEW p \in Sessions, Holds(p), Does(p), p.doing = "Finish",
           NEW place, place = IF p.pending = Nothing THEN AckPlace ELSE ReadPlace
    PROVE  /\ StandsAt(p.stream.total, IF p.cancel THEN Nothing ELSE p.stream.current, place)
           /\ p.cancel => server.canceled /\ place = Last
<1>1. Keeps(p) /\ (p.cancel => HoldsTheLast(p)) /\ SpoolSound /\ server \in Servers
    BY DEF Holds, World
<1>2. PICK total, current : total = p.stream.total /\ current = p.stream.current
    OBVIOUS
<1>3. StandsAt(total, current, PlaceOf(p))
    BY <1>1, <1>2 DEF Keeps
<1>4. p.cancel => server.canceled /\ place = Last
    BY <1>1 DEF HoldsTheLast
<1>5. CASE p.pending = Nothing
  <2>1. place = PlaceOf(p)
      BY <1>5 DEF PlaceOf
  <2>2. StandsAt(total, IF p.cancel THEN Nothing ELSE current, place)
      BY <1>3, <1>4, <2>1 DEF StandsAt
  <2>3. QED
      BY <1>2, <1>4, <2>2
<1>6. CASE p.pending # Nothing
  <2>1. PICK index, n, events : /\ index = p.pending.index /\ events = server.batch.events
                                /\ n = Len(events)
      OBVIOUS
  <2>2. /\ p.pending.batch = server.batch /\ index \in Nat /\ index <= n /\ n \in Nat
        /\ ~Unpushed(p)
    <3>1. p.pending.known /\ p.pending.index \in Nat
        BY <1>6 DEF Does, Sessions, PendingRecords
    <3>2. QED
        BY <1>1, <1>6, <2>1, <3>1, Places DEF Does, Keeps
  <2>3. /\ BatchPlace \in Nat /\ BatchPlace + n = ReadPlace /\ place = ReadPlace
        /\ PlaceOf(p) = BatchPlace + index
      BY <1>1, <1>6, <2>1, Places DEF PlaceOf
  <2> DEFINE ends == {i \in index + 1 .. n : events[i].kind = "end"}
  <2>4. /\ ~p.cancel => index = n
        /\ p.cancel => ends = {}
    <3>1. /\ Bound(p) \in index .. n
          /\ ~p.cancel => Bound(p) = n
          /\ p.cancel => \A i \in ends : i <= Bound(p)
        BY <1>6, <2>1, <2>2, BoundIs
    <3>2. Bound(p) = index
        BY <1>6, <2>1, <2>2, <3>1 DEF Unpushed
    <3>3. \A i \in ends : i >= index + 1
        BY <2>2
    <3>4. p.cancel => ends = {}
      <4>1. ASSUME p.cancel, NEW i \in ends PROVE FALSE
        <5>1. i <= index /\ i >= index + 1 /\ i \in Int
            BY <3>1, <3>2, <3>3, <2>2, <4>1
        <5>2. QED
            BY <2>2, <5>1
      <4>2. QED
          BY <4>1
    <3>5. QED
        BY <3>1, <3>2, <3>4
  <2>5. CASE ~p.cancel
    <3>1. StandsAt(total, current, place)
        BY <1>3, <2>3, <2>4, <2>5
    <3>2. QED
        BY <1>2, <2>5, <3>1
  <2>6. CASE p.cancel
    <3>1. PICK j, k : j = BatchPlace + index /\ k = BatchPlace + n
        OBVIOUS
    <3>2. j \in Nat /\ k \in Nat /\ j <= k /\ k = place /\ j = PlaceOf(p)
        BY <2>2, <2>3, <3>1
    <3>3. ASSUME NEW i \in j + 1 .. k PROVE server.emitted[i].kind # "end"
      <4>1. PICK m : m = i - BatchPlace
          OBVIOUS
      <4>2. m \in index + 1 .. n /\ m \in 1 .. n /\ BatchPlace + m = i
          BY <2>2, <2>3, <3>1, <4>1
      <4>3. events[m].kind # "end"
          BY <2>4, <2>6, <4>2
      <4>4. events[m] = server.emitted[BatchPlace + m]
          BY <1>1, <2>1, <4>2 DEF SpoolSound
      <4>5. QED
          BY <4>2, <4>3, <4>4
    <3>4. CountTo(server.emitted, j, "end") = CountTo(server.emitted, k, "end")
        BY <3>2, <3>3, NoneBetween
    <3>5. total = Ends(server.emitted, place)
        BY <1>3, <3>2, <3>4 DEF StandsAt, Ends
    <3>6. StandsAt(total, Nothing, place)
        BY <1>4, <2>6, <3>5 DEF StandsAt
    <3>7. QED
        BY <1>2, <1>4, <2>6, <3>6
  <2>7. QED
      BY <2>5, <2>6
<1>7. QED
    BY <1>5, <1>6

(* After the last event of a run that ended no alternative is under way.   *)
LEMMA NoneUnderWay ==
    ASSUME SpoolSound, server.ended, NEW total, NEW current, StandsAt(total, current, Last)
    PROVE  current = Nothing
  BY DEF SpoolSound, StandsAt, CurrentAt

(* What a page goes on with, in the state it has stored all.               *)
GoesOnWith(p, batch, r) ==
    /\ World /\ ~p.stream.refuted /\ Keeps(p) /\ p.pending = Nothing
    /\ ~p.cancel /\ p.stop # "closing" /\ p.purpose # "cancel"
    /\ p.purpose # "read" => server.canceled
    /\ p.purpose \in {"first", "rest"} =>
          /\ server.batch.sequence = shelf.row.ack
          /\ ~p.more => HoldsTheLast(p)
    /\ p.purpose = "last" => /\ AllSaved
                             /\ p.stream.writes = {} /\ p.stream.current = Nothing
                             /\ p.stream.total = shelf.row.total
    /\ r = Onwards(p, batch)

(* The same in the state after a step.                                     *)
LEMMA OnwardsThen ==
    (\A p \in Sessions : \A batch, r : GoesOnWith(p, batch, r) => r \in Sessions /\ PageSound(r))'
<1>1. \A p \in Sessions : \A batch, r : GoesOnWith(p, batch, r) => r \in Sessions /\ PageSound(r)
    BY OnwardsSound DEF GoesOnWith
<1>2. QED
    BY <1>1, PTL

(* A delivery is over.                                                     *)
LEMMA NoLongerCanceling ==
    ASSUME NEW p \in Sessions
    PROVE  LET q == [p EXCEPT !.cancel = FALSE] IN
           /\ q \in Sessions /\ q.doing = p.doing /\ q.ack = p.ack /\ q.pending = p.pending
           /\ q.stream = p.stream /\ ~q.cancel /\ q.stop = p.stop /\ q.purpose = p.purpose
           /\ q.more = p.more
  BY DEF Sessions

(* A batch that is stored is acknowledged and let go.                      *)
LEMMA BatchGoes ==
    ASSUME NEW p \in Sessions, NEW ack \in Nat
    PROVE  LET q == [p EXCEPT !.ack = ack, !.pending = Nothing] IN
           /\ q \in Sessions /\ q.doing = p.doing /\ q.ack = ack /\ q.pending = Nothing
           /\ q.stream = p.stream /\ q.stop = p.stop /\ q.purpose = p.purpose
           /\ q.more = p.more
  BY DEF Sessions

(* The page once all of a delivery is stored: what was under way goes with *)
(* a cancellation.                                                         *)
Finished(p, current, q, r, g) ==
    /\ current = IF p.cancel THEN Nothing ELSE p.stream.current
    /\ q = [Flushed(p, p.cancel) EXCEPT !.status = IF p.cancel THEN "canceled" ELSE @]
    /\ r = IF q.pending = Nothing THEN q
           ELSE Refute([q EXCEPT !.ack = q.pending.batch.sequence, !.pending = Nothing],
                       (q.pending.batch.done /\ ~q.pending.batch.canceled) =>
                           q.stream.current = Nothing)
    /\ g = [r EXCEPT !.cancel = FALSE]

LEMMA FinishedIs ==
    ASSUME NEW p \in Sessions, ~p.stream.refuted, NEW current, NEW q, NEW r, NEW g,
           Finished(p, current, q, r, g),
           p.pending # Nothing =>
              (p.pending.batch.done /\ ~p.pending.batch.canceled => current = Nothing)
    PROVE  /\ g \in Sessions /\ g.pending = Nothing /\ ~g.cancel /\ ~g.stream.refuted
           /\ g.stop = p.stop /\ g.purpose = p.purpose /\ g.more = p.more
           /\ g.ack = IF p.pending = Nothing THEN p.ack ELSE p.pending.batch.sequence
           /\ g.stream.total = p.stream.total /\ g.stream.current = current
           /\ g.stream.writes = {}
           /\ q.pending = p.pending
<1> DEFINE stream == [p.stream EXCEPT !.writes = {}, !.current = current]
           status == IF p.cancel THEN "canceled" ELSE p.status
<1>0. /\ current = IF p.cancel THEN Nothing ELSE p.stream.current
      /\ q = [Flushed(p, p.cancel) EXCEPT !.status = IF p.cancel THEN "canceled" ELSE @]
      /\ r = IF q.pending = Nothing THEN q
             ELSE Refute([q EXCEPT !.ack = q.pending.batch.sequence, !.pending = Nothing],
                         (q.pending.batch.done /\ ~q.pending.batch.canceled) =>
                             q.stream.current = Nothing)
      /\ g = [r EXCEPT !.cancel = FALSE]
    BY DEF Finished
<1>1. /\ stream \in StreamRecords /\ stream.writes = {} /\ stream.refuted = p.stream.refuted
      /\ stream.total = p.stream.total /\ stream.current = current
    BY <1>0 DEF Sessions, StreamRecords, Currents
<1>2. Flushed(p, p.cancel) = [p EXCEPT !.stream = stream]
  <2>1. Flushed(p, p.cancel) =
           [p EXCEPT !.stream = [[p.stream EXCEPT !.writes = {}] EXCEPT !.current = current]]
      BY <1>0 DEF Flushed, Sessions, StreamRecords
  <2>2. [[p.stream EXCEPT !.writes = {}] EXCEPT !.current = current] = stream
      BY DEF Sessions, StreamRecords
  <2>3. QED
      BY <2>1, <2>2
<1>3. status \in {"reading", "stopped", "done", "canceled"}
    BY DEF Sessions
<1> HIDE DEF stream
<1>4. q = [p EXCEPT !.stream = stream, !.status = status]
    BY <1>0, <1>2 DEF Sessions
<1> HIDE DEF status
<1>5. /\ q \in Sessions /\ q.pending = p.pending /\ q.stream = stream /\ q.ack = p.ack
      /\ q.stop = p.stop /\ q.purpose = p.purpose /\ q.more = p.more
    BY <1>1, <1>3, <1>4 DEF Sessions
<1>6. /\ r \in Sessions /\ r.pending = Nothing /\ r.stream = stream
      /\ r.ack = IF p.pending = Nothing THEN p.ack ELSE p.pending.batch.sequence
      /\ r.stop = p.stop /\ r.purpose = p.purpose /\ r.more = p.more
  <2>1. CASE p.pending = Nothing
      BY <1>0, <1>5, <2>1
  <2>2. CASE p.pending # Nothing
    <3> DEFINE s == [q EXCEPT !.ack = q.pending.batch.sequence, !.pending = Nothing]
               unless == (q.pending.batch.done /\ ~q.pending.batch.canceled) =>
                             q.stream.current = Nothing
    <3>1. q.pending.batch.sequence \in Nat
        BY <1>5, <2>2 DEF Sessions, PendingRecords, Batches
    <3>2. /\ s \in Sessions /\ s.pending = Nothing /\ s.stream = stream
          /\ s.ack = p.pending.batch.sequence
          /\ s.stop = p.stop /\ s.purpose = p.purpose /\ s.more = p.more
      <4>1. PICK ack \in Nat : ack = q.pending.batch.sequence
          BY <3>1
      <4>2. PICK t : t = [q EXCEPT !.ack = ack, !.pending = Nothing]
          OBVIOUS
      <4>3. /\ t \in Sessions /\ t.pending = Nothing /\ t.stream = q.stream /\ t.ack = ack
            /\ t.stop = q.stop /\ t.purpose = q.purpose /\ t.more = q.more
          BY <1>5, <4>2, BatchGoes
      <4>4. t = s
          BY <4>1, <4>2
      <4>5. QED
          BY <1>5, <4>1, <4>3, <4>4
    <3>3. unless
        BY <1>1, <1>5, <2>2
    <3>4. r = Refute(s, unless)
        BY <1>0, <1>5, <2>2
    <3> HIDE DEF s, unless
    <3>5. r = s
        BY <1>1, <3>2, <3>3, <3>4, NotRefuted
    <3>6. QED
        BY <2>2, <3>2, <3>5
  <2>3. QED
      BY <2>1, <2>2
<1>7. /\ g \in Sessions /\ g.pending = Nothing /\ ~g.cancel /\ g.stream = stream /\ g.ack = r.ack
      /\ g.stop = p.stop /\ g.purpose = p.purpose /\ g.more = p.more
    BY <1>0, <1>6, NoLongerCanceling
<1>8. QED
    BY <1>1, <1>5, <1>6, <1>7

(* The last transaction of a delivery: the batch will be acknowledged.     *)
LEMMA FinishSound ==
    ASSUME DeliveryInv, Finish
    PROVE  DeliveryInv'
<1>0. PICK p : p = page
    OBVIOUS
<1> DEFINE done == [Flushed(p, p.cancel) EXCEPT !.status = IF p.cancel THEN "canceled" ELSE @]
<1>1. PICK q : q = done
    OBVIOUS
<1> DEFINE batch == IF q.pending = Nothing THEN NoBatch ELSE q.pending.batch
           rest == IF q.pending = Nothing THEN q
                   ELSE Refute([q EXCEPT !.ack = q.pending.batch.sequence, !.pending = Nothing],
                               (q.pending.batch.done /\ ~q.pending.batch.canceled) =>
                                   q.stream.current = Nothing)
           going == [rest EXCEPT !.cancel = FALSE]
<1>2. /\ page.doing = "Finish" /\ server' = server /\ stray' = stray
      /\ Flush(p, p.cancel, TRUE) /\ page' = Onwards(going, batch)
  <2>1. /\ page.doing = "Finish" /\ server' = server /\ stray' = stray
        /\ Flush(page, page.cancel, TRUE)
      BY DEF Finish, Store
  <2>2. LET u == [Flushed(page, page.cancel) EXCEPT
                    !.status = IF page.cancel THEN "canceled" ELSE @]
            b == IF u.pending = Nothing THEN NoBatch ELSE u.pending.batch
            v == IF u.pending = Nothing THEN u
                 ELSE Refute([u EXCEPT !.ack = b.sequence, !.pending = Nothing],
                             (b.done /\ ~b.canceled) => u.stream.current = Nothing)
        IN page' = Onwards([v EXCEPT !.cancel = FALSE], b)
      BY DEF Finish
  <2>3. page' = Onwards(going, batch)
    <3>1. CASE q.pending = Nothing
        BY <1>0, <1>1, <2>2, <3>1
    <3>2. CASE q.pending # Nothing
        BY <1>0, <1>1, <2>2, <3>2
    <3>3. QED
        BY <3>1, <3>2
  <2>4. QED
      BY <1>0, <2>1, <2>3
<1>3. page \notin {Away, Over} /\ p.doing = "Finish"
    BY <1>0, <1>2 DEF Away, Over
<1>4. p \in Sessions /\ PageSound(p)
    BY <1>0, <1>3, PageNamed
<1>5. /\ p.stop # "closing" /\ ~Closing /\ Holds(p) /\ Keeps(p) /\ Does(p) /\ ~p.stream.refuted
      /\ p.cancel \in BOOLEAN
    BY <1>3, <1>4 DEF PageSound, Closes, Holds, Sessions
<1>6. World /\ server \in Servers /\ SpoolSound /\ RowSound /\ shelf.row \in Rows
      /\ shelf.row.phase # "closing" /\ shelf.row.ack \in Nat
    BY <1>5, InvSays DEF World, Closing, Rows
<1>7. p.pending # Nothing =>
         /\ p.pending.batch = server.batch /\ server.batch.sequence = shelf.row.ack + 1
    BY <1>3, <1>5 DEF Does, Keeps
<1>8. PICK place, total, current :
         /\ place = IF p.pending = Nothing THEN AckPlace ELSE ReadPlace
         /\ total = p.stream.total
         /\ current = IF p.cancel THEN Nothing ELSE p.stream.current
    OBVIOUS
<1>9. /\ StandsAt(total, current, place)
      /\ p.cancel => server.canceled /\ place = Last
    BY <1>3, <1>4, <1>5, <1>6, <1>8, AllIsDelivered
<1>10. total \in Nat /\ current \in Currents
    BY <1>4, <1>8 DEF Sessions, StreamRecords, Currents
<1>11. /\ shelf'.parts = PartsUpTo(total, current) /\ shelf'.answers = AnswersUpTo(total)
       /\ shelf'.row = PlaceAfter(p, p.cancel, TRUE)
       /\ shelf' = [parts |-> shelf'.parts, answers |-> shelf'.answers, row |-> shelf'.row]
  <2>1. p.stream.current = Nothing \/ p.stream.current.number = p.stream.total + 1
    <3>1. StandsAt(p.stream.total, p.stream.current, PlaceOf(p)) /\ Written(p.stream)
        BY <1>5 DEF Keeps
    <3>2. QED
        BY <3>1, CurrentIs
  <2>2. QED
    BY <1>2, <1>4, <1>5, <1>8, <2>1, FlushIs DEF Keeps
<1>12. PICK phase, ack : phase = PhaseAfter(p, TRUE)
                         /\ ack = IF p.pending = Nothing THEN shelf.row.ack ELSE shelf.row.ack + 1
    OBVIOUS
<1>13. /\ phase \in {"open", "canceling", "canceled", "done"}
       /\ phase = "done" => ~p.cancel /\ IF p.pending = Nothing THEN shelf.row.phase = "done"
                                         ELSE p.pending.batch.done
    BY <1>4, <1>6, <1>12, PhaseIs
<1>14. shelf'.row = [phase |-> phase, ack |-> ack, sequence |-> 0, index |-> 0,
                     total |-> total, current |-> current]
    BY <1>7, <1>8, <1>11, <1>12 DEF PlaceAfter
<1>15. /\ shelf'.row.phase = phase /\ shelf'.row.ack = ack /\ shelf'.row.sequence = 0
       /\ shelf'.row.total = total /\ shelf'.row.current = current
    BY <1>14
<1>16. ack \in Nat
    BY <1>6, <1>12
<1>17. shelf'.row \in Rows /\ shelf'.row # Nothing
    BY <1>10, <1>13, <1>14, <1>16 DEF Rows, Nothing
<1>18. ~Closing'
    BY <1>13, <1>15, <1>17 DEF Closing, Nothing
<1>19. AckPlace' = place /\ RowPlace' = place
  <2>1. CASE p.pending = Nothing
      BY <1>2, <1>8, <1>12, <1>15, <2>1, ServerSame DEF AckPlace, RowPlace
  <2>2. CASE p.pending # Nothing
      BY <1>2, <1>7, <1>8, <1>12, <1>15, <2>2, ServerSame DEF AckPlace, RowPlace
  <2>3. QED
      BY <2>1, <2>2
<1>20. StandsAt(total, current, place)' /\ Shelved(total, current)'
    BY <1>2, <1>9, <1>11, ServerSame DEF Shelved
<1>21. p.pending # Nothing /\ p.pending.batch.done => server.ended /\ place = Last
    BY <1>6, <1>7, <1>8 DEF SpoolSound
<1>22. RowSound'
  <2>1. server'.batch.sequence \in {shelf'.row.ack, shelf'.row.ack + 1}
        /\ ~server'.closing /\ ~server'.gone
    <3>1. server.batch.sequence \in {ack, ack + 1}
        BY <1>6, <1>7, <1>12 DEF RowSound
    <3>2. QED
        BY <1>2, <1>6, <1>15, <3>1 DEF RowSound
  <2>2. StandsAt(shelf.row.total, shelf.row.current, RowPlace)'
      BY <1>15, <1>19, <1>20 DEF StandsAt, Nothing
  <2>3. ASSUME shelf'.row.phase = "done" PROVE server'.ended /\ RowPlace' = Last'
    <3>1. CASE p.pending = Nothing
      <4>1. shelf.row.phase = "done" /\ shelf.row.sequence = 0
          BY <1>5, <1>13, <1>15, <2>3, <3>1 DEF Keeps
      <4>2. server.ended /\ RowPlace = Last /\ RowPlace = AckPlace
          BY <1>6, <4>1 DEF RowSound, RowPlace
      <4>3. QED
          BY <1>2, <1>8, <1>19, <3>1, <4>2, ServerSame
    <3>2. CASE p.pending # Nothing
        BY <1>2, <1>13, <1>15, <1>19, <1>21, <2>3, <3>2, ServerSame
    <3>3. QED
        BY <3>1, <3>2
  <2>4. QED
      BY <1>15, <2>1, <2>2, <2>3 DEF RowSound
<1>23. ShelfSound'
  <2>1. Shelved(shelf.row.total, shelf.row.current)'
      BY <1>15, <1>20 DEF Shelved
  <2>2. QED
      BY <1>13, <1>15, <1>17, <2>1 DEF ShelfSound, Nothing
<1>24. World'
    BY <1>2, <1>6, <1>17, <1>18, <1>22, ServerSame DEF World
<1>25. p.pending # Nothing => (p.pending.batch.done => current = Nothing)
    BY <1>6, <1>9, <1>21, NoneUnderWay
<1>26. PICK g : g = going
    OBVIOUS
<1>37. PICK b : b = batch
    OBVIOUS
<1>38. /\ g \in Sessions /\ g.pending = Nothing /\ ~g.cancel /\ ~g.stream.refuted
       /\ g.stop = p.stop /\ g.purpose = p.purpose /\ g.more = p.more
       /\ g.ack = IF p.pending = Nothing THEN p.ack ELSE p.pending.batch.sequence
       /\ g.stream.total = total /\ g.stream.current = current
       /\ g.stream.writes = {}
  <2>1. PICK t : t = rest
      OBVIOUS
  <2>2. g = [t EXCEPT !.cancel = FALSE]
      BY <1>26, <2>1
  <2> HIDE DEF done, rest, going, batch
  <2>3. q = [Flushed(p, p.cancel) EXCEPT !.status = IF p.cancel THEN "canceled" ELSE @]
      BY <1>1 DEF done
  <2>4. t = IF q.pending = Nothing THEN q
               ELSE Refute([q EXCEPT !.ack = q.pending.batch.sequence, !.pending = Nothing],
                           (q.pending.batch.done /\ ~q.pending.batch.canceled) =>
                               q.stream.current = Nothing)
      BY <2>1 DEF rest
  <2>5. p.pending # Nothing =>
              (p.pending.batch.done /\ ~p.pending.batch.canceled => current = Nothing)
      BY <1>25
  <2>8. Finished(p, current, q, t, g)
      BY <1>8, <2>2, <2>3, <2>4 DEF Finished
  <2>6. /\ g \in Sessions /\ g.pending = Nothing /\ ~g.cancel /\ ~g.stream.refuted
        /\ g.stop = p.stop /\ g.purpose = p.purpose /\ g.more = p.more
        /\ g.ack = IF p.pending = Nothing THEN p.ack ELSE p.pending.batch.sequence
        /\ g.stream.total = p.stream.total /\ g.stream.current = current
        /\ g.stream.writes = {}
      BY <1>4, <1>5, <2>5, <2>8, FinishedIs
  <2>7. QED
      BY <1>8, <2>6
<1>39. page' = Onwards(g, b)
    BY <1>2, <1>26, <1>37
<1> HIDE DEF done, rest, going, batch
<1>27. Keeps(g)'
  <2>1. g.ack = shelf'.row.ack
      BY <1>5, <1>7, <1>12, <1>15, <1>38 DEF Keeps
  <2>2. PlaceOf(g)' = place
      BY <1>19, <1>38 DEF PlaceOf, Nothing
  <2>3. StandsAt(g.stream.total, g.stream.current, PlaceOf(g))'
      BY <1>20, <1>38, <2>2 DEF StandsAt, Nothing
  <2>4. Written(g.stream)'
    <3>1. Of({}, "parts") = {} /\ Of({}, "answers") = {}
        BY DEF Of
    <3>2. QED
        BY <1>20, <1>38, <3>1 DEF Written, Shelved
  <2>5. QED
      BY <1>15, <1>38, <2>1, <2>3, <2>4 DEF Keeps, Nothing
<1>28. p.cancel => HoldsTheLast(g)'
  <2>1. p.cancel => server.canceled /\ ReadPlace = Last /\ place = Last
      BY <1>5, <1>9 DEF Holds, HoldsTheLast
  <2>2. QED
      BY <1>2, <1>19, <2>1, ServerSame DEF HoldsTheLast
<1>29. /\ p.purpose # "cancel"
       /\ p.purpose # "read" => server.canceled /\ (p.more \/ p.cancel)
       /\ p.purpose \in {"first", "rest"} => p.pending # Nothing
       /\ p.purpose = "last" => ~p.more
    BY <1>3, <1>5 DEF Does
<1>30. g.purpose \in {"first", "rest"} =>
          /\ server'.batch.sequence = shelf'.row.ack
          /\ ~g.more => HoldsTheLast(g)'
    BY <1>2, <1>7, <1>12, <1>15, <1>38, <1>28, <1>29
<1>31. g.purpose = "last" => AllSaved' /\ g.stream.current = Nothing
  <2>1. SUFFICES ASSUME g.purpose = "last" PROVE AllSaved' /\ g.stream.current = Nothing
      OBVIOUS
  <2>2. p.cancel /\ server.canceled /\ place = Last /\ current = Nothing
      BY <1>8, <1>9, <1>38, <1>29, <2>1
  <2>3. total = Complete
    <3>1. Last \in 0 .. Last
        BY <1>6, Places
    <3>2. QED
        BY <1>6, <1>9, <2>2, <3>1, EndsBefore DEF StandsAt
  <2>4. QED
      BY <1>2, <1>15, <1>38, <2>2, <2>3, ServerSame DEF AllSaved, Nothing
<1>32. PICK s : s = Onwards(g, b)
    OBVIOUS
<1>33. GoesOnWith(g, b, s)'
    BY <1>2, <1>5, <1>15, <1>24, <1>38, <1>27, <1>29, <1>30, <1>31, <1>32 DEF GoesOnWith, Nothing
<1>34. s \in Sessions /\ PageSound(s)'
    BY <1>38, <1>33, OnwardsThen
<1>35. \A t \in stray : QuestionSound(t)'
  <2>1. SUFFICES ASSUME NEW t \in stray PROVE QuestionSound(t)'
      OBVIOUS
  <2>2. t \in Questions /\ (t.route = "output" => t.ack <= shelf.row.ack) /\ t.route # "close"
      BY <1>5, InvSays DEF QuestionSound
  <2>3. t.ack \in Nat
      BY <2>2 DEF Questions
  <2>4. t.route = "output" => t.ack <= shelf'.row.ack
      BY <1>6, <1>12, <1>15, <2>2, <2>3
  <2>5. QED
      BY <2>2, <2>4 DEF QuestionSound
<1>36. QED
    BY <1>2, <1>11, <1>17, <1>22, <1>23, <1>32, <1>39, <1>34, <1>35, ServerLeft

-----------------------------------------------------------------------------
(* Transactions of a cancellation.                                         *)

(* What a page goes on with once it has saved that it cancels.             *)
WithCancel(p, more) ==
    [p EXCEPT !.status = "canceled", !.reply = Nothing, !.purpose = "first", !.more = more]

Canceling(p, r) ==
    LET c == IF p.reply.batch.sequence \in {0, p.ack} THEN p ELSE Attached(p, p.reply.batch)
        more == p.reply.more \/ (c.pending # Nothing /\ ~c.pending.batch.drained)
        q == Refute(WithCancel(c, more), c.pending = Nothing \/ c.pending.known)
    IN r = IF q.pending = Nothing THEN OnWithCancel(q) ELSE Deliver(q, ~q.more)

Cancels(p, r) ==
    /\ World /\ ~p.stream.refuted /\ Holds(p) /\ ReplyKept(p) /\ p.stop # "closing"
    /\ Canceling(p, r)

(* The page while it cancels.                                              *)
LEMMA WithCancelIs ==
    ASSUME NEW p \in Sessions, NEW more \in BOOLEAN, NEW q, q = WithCancel(p, more)
    PROVE  /\ q \in Sessions /\ q.ack = p.ack /\ q.pending = p.pending /\ q.stream = p.stream
           /\ q.cancel = p.cancel /\ q.stop = p.stop /\ q.purpose = "first" /\ q.more = more
  BY DEF Sessions, WithCancel

(* It goes on with a delivery, with the last one, or asks for the rest.    *)
LEMMA CancelingSound ==
    ASSUME NEW p \in Sessions, NEW r, Cancels(p, r)
    PROVE  r \in Sessions /\ PageSound(r)
<1>1. /\ World /\ ~p.stream.refuted /\ Keeps(p) /\ (p.cancel => HoldsTheLast(p))
      /\ ReplyKept(p) /\ p.stop # "closing" /\ p.ack = shelf.row.ack /\ shelf.row.ack \in Nat
    BY DEF Cancels, Holds, Keeps, World, Rows
<1>2. PICK reply : reply = p.reply
    OBVIOUS
<1>3. /\ server.canceled
      /\ reply.batch.sequence \in {shelf.row.ack, shelf.row.ack + 1}
      /\ reply.batch.sequence = shelf.row.ack + 1 => reply.batch = server.batch
      /\ p.pending # Nothing => reply.batch.sequence = shelf.row.ack + 1
      /\ reply.batch.sequence = shelf.row.ack /\ server.batch.sequence = shelf.row.ack + 1
            => server.batch.canceled
      /\ ~reply.more => ReadPlace = Last
      /\ ~reply.more /\ reply.batch.sequence = shelf.row.ack => AckPlace = Last
    BY <1>1, <1>2 DEF ReplyKept
<1>4. reply.more \in BOOLEAN
    BY <1>1, <1>2 DEF ReplyKept, Sessions, CancelReplies
<1>5. CASE reply.batch.sequence = shelf.row.ack
  <2>1. p.pending = Nothing
      BY <1>1, <1>3, <1>5
  <2>2. PICK more \in BOOLEAN : more = reply.more
      BY <1>4
  <2>3. PICK q : q = WithCancel(p, more)
      OBVIOUS
  <2>4. /\ q \in Sessions /\ q.ack = p.ack /\ q.pending = p.pending /\ q.stream = p.stream
        /\ q.cancel = p.cancel /\ q.stop = p.stop /\ q.more = more
      BY <2>3, WithCancelIs
  <2>5. Refute(q, TRUE) = q
      BY <1>1, <2>4, NotRefuted
  <2>6. r = OnWithCancel(q)
    <3>1. reply.batch.sequence \in {0, p.ack}
        BY <1>1, <1>5
    <3>2. (reply.more \/ (p.pending # Nothing /\ ~p.pending.batch.drained)) = more
        BY <2>1, <2>2
    <3>3. (p.pending = Nothing \/ p.pending.known) = TRUE
        BY <2>1
    <3>4. LET s == Refute(WithCancel(p, more), TRUE)
          IN r = IF s.pending = Nothing THEN OnWithCancel(s) ELSE Deliver(s, ~s.more)
        BY <1>2, <3>1, <3>2, <3>3 DEF Cancels, Canceling
    <3>5. QED
        BY <2>1, <2>3, <2>4, <2>5, <3>4
  <2>7. Keeps(q)
      BY <1>1, <2>4 DEF Keeps, PlaceOf
  <2>8. (q.cancel \/ ~q.more) => HoldsTheLast(q)
      BY <1>1, <1>3, <1>5, <2>1, <2>2, <2>4 DEF HoldsTheLast
  <2>9. server.batch.sequence = shelf.row.ack + 1 => server.batch.canceled
      BY <1>3, <1>5
  <2>10. QED
      BY <1>1, <1>3, <2>1, <2>4, <2>6, <2>7, <2>8, <2>9, OnWithCancelSound
<1>6. CASE reply.batch.sequence = shelf.row.ack + 1
  <2>1. reply.batch = server.batch /\ server.batch.sequence = shelf.row.ack + 1
      BY <1>3, <1>6
  <2>2. PICK d \in PendingRecords :
          LET c == [p EXCEPT !.pending = d] IN
              /\ Attached(p, server.batch) = c /\ d.known /\ d # Nothing /\ d.batch = server.batch
              /\ c \in Sessions /\ Keeps(c)
      BY <1>1, <2>1, AttachedSound
  <2>3. PICK c : c = [p EXCEPT !.pending = d]
      OBVIOUS
  <2>4. /\ Attached(p, server.batch) = c /\ c \in Sessions /\ Keeps(c)
        /\ c.pending = d /\ c.stream = p.stream /\ c.stop = p.stop
      BY <2>2, <2>3 DEF Sessions
  <2>5. PICK more \in BOOLEAN : more = (reply.more \/ ~d.batch.drained)
      OBVIOUS
  <2>6. PICK q : q = WithCancel(c, more)
      OBVIOUS
  <2>7. /\ q \in Sessions /\ q.ack = c.ack /\ q.pending = d /\ q.stream = p.stream
        /\ q.stop = p.stop /\ q.purpose = "first" /\ q.more = more
      BY <2>4, <2>6, WithCancelIs
  <2>8. Refute(q, TRUE) = q
      BY <1>1, <2>7, NotRefuted
  <2>9. r = Deliver(q, ~q.more)
    <3>1. ~(reply.batch.sequence \in {0, p.ack})
        BY <1>1, <1>6
    <3>2. (reply.more \/ (c.pending # Nothing /\ ~c.pending.batch.drained)) = more
        BY <2>2, <2>4, <2>5
    <3>3. (c.pending = Nothing \/ c.pending.known) = TRUE
        BY <2>2, <2>4
    <3>4. LET s == Refute(WithCancel(c, more), TRUE)
          IN r = IF s.pending = Nothing THEN OnWithCancel(s) ELSE Deliver(s, ~s.more)
        BY <1>2, <2>1, <2>4, <3>1, <3>2, <3>3 DEF Cancels, Canceling
    <3>5. QED
        BY <2>2, <2>6, <2>7, <2>8, <3>4
  <2>10. Keeps(q)
      BY <2>4, <2>7 DEF Keeps, PlaceOf
  <2>11. ~q.more => HoldsTheLast(q)
      BY <1>3, <2>2, <2>5, <2>7 DEF HoldsTheLast
  <2>12. PICK cancel \in BOOLEAN : cancel = ~q.more
      OBVIOUS
  <2>13. Deliver(q, cancel) \in Sessions /\ PageSound(Deliver(q, cancel))
      BY <1>1, <1>3, <2>2, <2>7, <2>10, <2>11, <2>12, DeliverSound
  <2>14. QED
      BY <2>9, <2>12, <2>13
<1>7. QED
    BY <1>3, <1>5, <1>6

(* The same in the state after a step.                                     *)
LEMMA CancelingThen ==
    (\A p \in Sessions : \A r : Cancels(p, r) => r \in Sessions /\ PageSound(r))'
<1>1. \A p \in Sessions : \A r : Cancels(p, r) => r \in Sessions /\ PageSound(r)
    BY CancelingSound
<1>2. QED
    BY <1>1, PTL

(* The row is marked after the run is stopped.                             *)
LEMMA SaveCancelingSound ==
    ASSUME DeliveryInv, SaveCanceling
    PROVE  DeliveryInv'
<1>1. page.doing = "SaveCanceling" /\ server' = server /\ stray' = stray
      /\ shelf' = [shelf EXCEPT !.row.phase = "canceling"]
    BY DEF SaveCanceling, Store
<1>2. PICK p : p = page
    OBVIOUS
<1>3. page \notin {Away, Over}
    BY <1>1 DEF Away, Over
<1>4. p \in Sessions /\ PageSound(p) /\ p.doing = "SaveCanceling"
    BY <1>1, <1>2, <1>3, PageNamed
<1>5. p.stop # "closing" /\ ~Closing /\ Holds(p) /\ ReplyKept(p) /\ ~p.stream.refuted
    BY <1>4 DEF PageSound, Closes, Does
<1>6. World /\ server \in Servers /\ SpoolSound /\ RowSound /\ ShelfSound /\ shelf.row \in Rows
      /\ shelf.row # Nothing
      /\ shelf = [parts |-> shelf.parts, answers |-> shelf.answers, row |-> shelf.row]
    BY <1>5, InvSays DEF World, Closing, DeliveryInv, DeliveryTypes
<1>7. /\ shelf'.parts = shelf.parts /\ shelf'.answers = shelf.answers
      /\ shelf'.row = [shelf.row EXCEPT !.phase = "canceling"]
      /\ shelf' = [parts |-> shelf'.parts, answers |-> shelf'.answers, row |-> shelf'.row]
    BY <1>1, <1>6
<1>8. /\ shelf'.row \in Rows /\ shelf'.row # Nothing /\ shelf'.row.phase = "canceling"
      /\ shelf'.row.ack = shelf.row.ack /\ shelf'.row.sequence = shelf.row.sequence
      /\ shelf'.row.index = shelf.row.index /\ shelf'.row.total = shelf.row.total
      /\ shelf'.row.current = shelf.row.current
    BY <1>6, <1>7 DEF Rows, Nothing
<1>9. ~Closing'
    BY <1>8 DEF Closing, Nothing
<1>10. AckPlace' = AckPlace /\ RowPlace' = RowPlace /\ \A q : PlaceOf(q)' = PlaceOf(q)
  <2>1. AckPlace' = AckPlace
      BY <1>1, <1>8, ServerSame DEF AckPlace
  <2>2. QED
      BY <1>1, <1>8, <2>1, ServerSame DEF RowPlace, PlaceOf, Nothing
<1>11. \A total, current : Shelved(total, current) => Shelved(total, current)'
    BY <1>1, <1>7, ServerSame DEF Shelved
<1>12. RowSound'
  <2>1. PICK place, total, current :
           place = RowPlace /\ total = shelf.row.total /\ current = shelf.row.current
      OBVIOUS
  <2>2. StandsAt(total, current, place)'
      BY <1>1, <1>6, <2>1, ServerSame DEF RowSound
  <2>3. StandsAt(shelf.row.total, shelf.row.current, RowPlace)'
      BY <1>8, <1>10, <2>1, <2>2 DEF StandsAt, Nothing
  <2>4. QED
      BY <1>1, <1>6, <1>8, <2>3 DEF RowSound
<1>13. ShelfSound'
  <2>1. PICK total, current : total = shelf.row.total /\ current = shelf.row.current
      OBVIOUS
  <2>2. Shelved(total, current)'
      BY <1>6, <1>11, <2>1 DEF ShelfSound
  <2>3. Shelved(shelf.row.total, shelf.row.current)'
      BY <1>8, <2>1, <2>2 DEF Shelved
  <2>4. QED
      BY <1>8, <2>3 DEF ShelfSound, Nothing
<1>14. World'
    BY <1>1, <1>6, <1>8, <1>9, <1>12, ServerSame DEF World
<1>15. Keeps(p)'
  <2>1. Keeps(p)
      BY <1>5 DEF Holds
  <2>2. PICK place, total, current :
           place = PlaceOf(p) /\ total = p.stream.total /\ current = p.stream.current
      OBVIOUS
  <2>3. StandsAt(total, current, place)'
      BY <1>1, <2>1, <2>2, ServerSame DEF Keeps
  <2>4. StandsAt(p.stream.total, p.stream.current, PlaceOf(p))'
      BY <1>10, <2>2, <2>3 DEF StandsAt, Nothing
  <2>5. Written(p.stream)'
    <3>1. Of(p.stream.writes, "parts")' = Of(p.stream.writes, "parts")
          /\ Of(p.stream.writes, "answers")' = Of(p.stream.writes, "answers")
        BY DEF Of
    <3>2. /\ PartsUpTo(total, current)' = PartsUpTo(total, current)
          /\ AnswersUpTo(total)' = AnswersUpTo(total)
        BY <1>1, ServerSame
    <3>3. shelf.parts \cup Of(p.stream.writes, "parts") = PartsUpTo(total, current)
          /\ shelf.answers \cup Of(p.stream.writes, "answers") = AnswersUpTo(total)
        BY <2>1, <2>2 DEF Keeps, Written
    <3>4. shelf'.parts \cup Of(p.stream.writes, "parts")' = PartsUpTo(total, current)'
          /\ shelf'.answers \cup Of(p.stream.writes, "answers")' = AnswersUpTo(total)'
        BY <1>7, <3>1, <3>2, <3>3
    <3>5. QED
        BY <2>2, <3>4 DEF Written
  <2>6. QED
      BY <1>1, <1>8, <2>1, <2>4, <2>5 DEF Keeps, Nothing, NoBatch
<1>16. (p.cancel => HoldsTheLast(p))'
    BY <1>1, <1>5, <1>10, ServerSame DEF Holds, HoldsTheLast, Nothing
<1>17. ReplyKept(p)'
    BY <1>1, <1>5, <1>8, <1>10, ServerSame DEF ReplyKept, Nothing
<1>18. PICK r : r = page'
    OBVIOUS
<1>19. Canceling(p, r)
  <2>1. LET reply == page.reply
            c == IF reply.batch.sequence \in {0, page.ack} THEN page
                 ELSE Attached(page, reply.batch)
            q == Refute([c EXCEPT !.status = "canceled", !.reply = Nothing, !.purpose = "first",
                                  !.more = reply.more \/ (c.pending # Nothing /\ ~c.pending.batch.drained)],
                        c.pending = Nothing \/ c.pending.known)
        IN page' = IF q.pending = Nothing THEN OnWithCancel(q) ELSE Deliver(q, ~q.more)
      BY DEF SaveCanceling
  <2>2. QED
      BY <1>2, <1>18, <2>1 DEF Canceling, WithCancel
<1>20. Canceling(p, r)'
    BY <1>19 DEF Canceling, WithCancel, Attached, Refute, Batch, OnWithCancel, LastDelivery,
                 Deliver, Unpushed, Bound, IsLast, Nothing
<1>21. Cancels(p, r)'
    BY <1>5, <1>14, <1>15, <1>16, <1>17, <1>20 DEF Cancels, Holds
<1>22. r \in Sessions /\ PageSound(r)'
    BY <1>4, <1>21, CancelingThen
<1>23. \A t \in stray : QuestionSound(t)'
    BY <1>5, <1>8, <1>9, InvSays DEF QuestionSound
<1>24. QED
    BY <1>1, <1>7, <1>8, <1>12, <1>13, <1>18, <1>22, <1>23, ServerLeft

-----------------------------------------------------------------------------
(* The start, and all together.                                            *)

(* At the start the run has brought out nothing, and nothing is stored.    *)
LEMMA NothingYet ==
    ASSUME DeliveryInit
    PROVE  DeliveryInv
<1>1. /\ server = NewServer /\ page = NewSession /\ stray = {}
      /\ shelf = [parts |-> {}, answers |-> {}, row |-> NewPlace]
    BY DEF DeliveryInit
<1>2. server \in Servers
  <2>1. NoBatch \in Batches
    <3>1. <<>> \in Seq(Events)
        OBVIOUS
    <3>2. QED
        BY <3>1 DEF NoBatch, Batches
  <2>2. <<>> \in Seq(Events)
      OBVIOUS
  <2> HIDE DEF NoBatch
  <2>3. QED
      BY <1>1, <2>1, <2>2 DEF NewServer, Servers
<1>3. NewSession \in Sessions
    BY DEF NewSession, NewStream, Sessions, StreamRecords, Doings, Currents
<1>4. NewPlace \in Rows /\ NewPlace # Nothing
    BY DEF NewPlace, Rows, Currents, Nothing
<1>5. NewSession # Away /\ NewSession # Over
    BY DEF NewSession, Away, Over
<1>6. /\ server.emitted = <<>> /\ server.file = <<>> /\ server.read = 0 /\ server.batch = NoBatch
      /\ ~server.ended /\ ~server.canceled /\ ~server.closing /\ ~server.gone
      /\ server.batch.sequence = 0 /\ server.batch.events = <<>>
      /\ ~server.batch.canceled /\ ~server.batch.done
    BY <1>1 DEF NewServer, NoBatch
<1>7. /\ shelf.row = NewPlace /\ shelf.parts = {} /\ shelf.answers = {}
      /\ shelf = [parts |-> shelf.parts, answers |-> shelf.answers, row |-> shelf.row]
      /\ shelf.row.phase = "open" /\ shelf.row.ack = 0 /\ shelf.row.sequence = 0
      /\ shelf.row.index = 0 /\ shelf.row.total = 0 /\ shelf.row.current = Nothing
    BY <1>1 DEF NewPlace
<1>8. Last = 0 /\ ReadPlace = 0 /\ BatchPlace = 0 /\ AckPlace = 0 /\ RowPlace = 0
  <2>1. Len(server.emitted) = 0 /\ Len(server.file) = 0 /\ Len(server.batch.events) = 0
      BY <1>6
  <2>2. Last = 0 /\ ReadPlace = 0
      BY <1>6, <2>1 DEF Last, ReadPlace
  <2>3. BatchPlace = 0
      BY <2>1, <2>2 DEF BatchPlace
  <2>4. QED
      BY <1>6, <1>7, <2>2, <2>3 DEF AckPlace, RowPlace
<1>9. \A events : /\ Begins(events, 0) = 0 /\ Ends(events, 0) = 0
                  /\ \A a : PartsTo(events, 0, a) = 0
    BY CountNext, PartsNext DEF Begins, Ends
<1>10. OneByOne(server.emitted)
  <2>1. Len(server.emitted) = 0 /\ 0 .. 0 = {0} /\ 1 .. 0 = {}
      BY <1>6
  <2>2. QED
      BY <1>9, <2>1 DEF OneByOne
<1>11. SpoolSound
    BY <1>6, <1>8, <1>10 DEF SpoolSound, Last
<1>12. StandsAt(0, Nothing, 0)
    BY <1>9 DEF StandsAt, CurrentAt
<1>13. PartsUpTo(0, Nothing) = {} /\ AnswersUpTo(0) = {}
  <2>1. 1 .. 0 = {}
      OBVIOUS
  <2>2. QED
      BY <2>1 DEF PartsUpTo, AnswersUpTo
<1>14. ~Closing
    BY <1>4, <1>7 DEF Closing
<1>15. RowSound
    BY <1>6, <1>7, <1>8, <1>12 DEF RowSound
<1>16. ShelfSound
    BY <1>4, <1>7, <1>13 DEF ShelfSound, Shelved
<1>17. PICK p : p = page
    OBVIOUS
<1>18. /\ p \in Sessions /\ p.pending = Nothing /\ p.ack = 0 /\ p.doing = "Idle" /\ ~p.cancel
       /\ p.stop = "no" /\ p.stream.total = 0 /\ p.stream.current = Nothing
       /\ p.stream.writes = {} /\ ~p.stream.refuted
    BY <1>1, <1>3, <1>17 DEF NewSession, NewStream
<1>19. Keeps(p)
  <2>1. Of({}, "parts") = {} /\ Of({}, "answers") = {}
      BY DEF Of
  <2>2. Written(p.stream)
      BY <1>7, <1>13, <1>18, <2>1 DEF Written
  <2>3. PlaceOf(p) = 0
      BY <1>8, <1>18 DEF PlaceOf
  <2>4. QED
      BY <1>7, <1>12, <1>18, <2>2, <2>3 DEF Keeps
<1>20. PageSound(p)
    BY <1>14, <1>18, <1>19 DEF PageSound, Holds, Does
<1>21. DeliveryTypes
    BY <1>1, <1>2, <1>3, <1>4, <1>7 DEF DeliveryTypes
<1>22. StraysSound
    BY <1>1 DEF StraysSound
<1>23. page = Over <=> shelf.row = Nothing
    BY <1>1, <1>4, <1>5, <1>7
<1>24. PageSound(page)
    BY <1>17, <1>20
<1>25. QED
    BY <1>11, <1>14, <1>15, <1>16, <1>21, <1>22, <1>23, <1>24 DEF DeliveryInv

-----------------------------------------------------------------------------
(* Nothing that happens makes the archive wrong.                           *)
LEMMA NothingLost ==
    DeliveryInv /\ [DeliveryNext]_deliveryVars => DeliveryInv'
<1> SUFFICES ASSUME DeliveryInv, [DeliveryNext]_deliveryVars PROVE DeliveryInv'
    OBVIOUS
<1>1. CASE DriveOne
    BY <1>1, DriveOneAdvances, ServerStep DEF DriveOne
<1>2. CASE Exhaust
    BY <1>2, ExhaustAdvances, ServerStep DEF Exhaust
<1>3. CASE AppendFails
    BY <1>3, TroubleAdvances, ServerStep DEF AppendFails
<1>4. CASE ReclaimRun
    BY <1>4, ReclaimAdvances, ServerStep DEF ReclaimRun
<1>5. CASE PageStep
    BY <1>5, WriteSound, FinishSound, ReadSound, BeginStopSound, SaveCancelingSound,
       SaveClosingSound, DropSound, ForgetSound, AnsweredSound DEF PageStep
<1>6. CASE Open
    BY <1>6, OpenSound
<1>7. CASE Resume
    BY <1>7, ResumeSound
<1>8. CASE AskToStop("cancel")
    BY <1>8, AskToStopSound
<1>9. CASE AskToStop("close")
    BY <1>9, AskToStopSound
<1>10. CASE FetchFails
    BY <1>10, FetchFailsSound
<1>11. CASE ReadFails
    BY <1>11, ReadFailsSound
<1>12. CASE StoreFails
    BY <1>12, StoreFailsSound
<1>13. CASE Leave
    BY <1>13, LeaveSound
<1>14. CASE ServeStray
    BY <1>14, StrayAdvances, ServerStep DEF ServeStray
<1>15. CASE UNCHANGED deliveryVars
  <2>1. server' = server /\ page' = page /\ shelf' = shelf /\ stray' = stray
      BY <1>15 DEF deliveryVars
  <2>2. Advances
      BY <2>1, InvSays, StillAdvances
  <2>3. QED
      BY <2>1, <2>2, ServerStep
<1>16. QED
    BY <1>1, <1>2, <1>3, <1>4, <1>5, <1>6, <1>7, <1>8, <1>9, <1>10, <1>11, <1>12, <1>13,
       <1>14, <1>15 DEF DeliveryNext

(* What the archive has is as many as it says.                             *)
LEMMA SavedAre ==
    ASSUME NEW total \in Nat, shelf.answers = AnswersUpTo(total)
    PROVE  Cardinality(Saved) = total
<1>1. Saved = 1 .. total
  <2>1. \A n : AnswerOf(n).number = n
      BY DEF AnswerOf
  <2>2. QED
      BY <2>1 DEF Saved, AnswersUpTo
<1>2. Cardinality(1 .. total) = total
    BY FS_Interval
<1>3. QED
    BY <1>1, <1>2

(* The invariant says all of the property.                                 *)
LEMMA InvExact == DeliveryInv => ArchiveIsExact
<1> SUFFICES ASSUME DeliveryInv PROVE ArchiveIsExact
    OBVIOUS
<1>1. server \in Servers /\ SpoolSound /\ shelf.row \in Rows \cup {Nothing} /\ ShelfSound
      /\ (~Closing => RowSound)
    BY InvSays
<1> DEFINE row == shelf.row
           open == row # Nothing /\ row.current # Nothing
           closed == row = Nothing \/ row.phase = "closing" \/ (row.phase = "done" /\ row.sequence = 0)
<1>2. Last \in 0 .. Last /\ Complete \in Nat /\ Complete = Ends(server.emitted, Last)
  <2>1. Last \in 0 .. Last
      BY <1>1, Places
  <2>2. QED
      BY <1>1, <2>1, EndsBefore
<1>3. PICK total, current :
         /\ total = IF row = Nothing THEN Complete ELSE row.total
         /\ current = IF row = Nothing THEN Nothing ELSE row.current
    OBVIOUS
<1>4. Shelved(total, current) /\ total \in Nat
    BY <1>1, <1>2, <1>3 DEF ShelfSound, Rows
<1>5. /\ total <= Complete
      /\ closed => total = Complete /\ ~open
  <2>1. CASE row = Nothing
      BY <1>2, <1>3, <2>1
  <2>2. CASE row # Nothing /\ row.phase = "closing"
      BY <1>1, <1>2, <1>3, <2>2 DEF ShelfSound, AllSaved
  <2>3. CASE row # Nothing /\ row.phase # "closing"
    <3>1. RowSound /\ row \in Rows
        BY <1>1, <2>3 DEF Closing
    <3>2. RowPlace \in 0 .. Last /\ StandsAt(total, current, RowPlace)
        BY <1>1, <1>3, <2>3, <3>1, PlacesOfRow DEF RowSound
    <3>3. total <= Complete
        BY <1>1, <1>2, <3>2, EndsBefore DEF StandsAt
    <3>4. ASSUME row.phase = "done", row.sequence = 0
          PROVE  total = Complete /\ current = Nothing
      <4>1. server.ended /\ RowPlace = Last
          BY <3>1, <3>4 DEF RowSound
      <4>2. QED
          BY <1>1, <1>2, <3>2, <4>1, NoneUnderWay DEF StandsAt
    <3>5. QED
        BY <1>3, <2>3, <3>3, <3>4
  <2>4. QED
      BY <2>1, <2>2, <2>3
<1>6. Cardinality(Saved) = total
    BY <1>4, SavedAre DEF Shelved
<1>7. shelf.answers = {AnswerOf(n) : n \in 1 .. total}
    BY <1>4 DEF Shelved, AnswersUpTo
<1>8. shelf.parts = (UNION {PartsOf(n, PartsSoFar(server.emitted, n)) : n \in 1 .. total}) \cup
                    (IF open THEN PartsOf(total + 1, row.current.parts) ELSE {})
  <2>1. shelf.parts = PartsUpTo(total, current)
      BY <1>4 DEF Shelved
  <2>2. current # Nothing <=> open
      BY <1>3
  <2>3. open => current = row.current
      BY <1>3
  <2> HIDE DEF open, row
  <2>4. QED
      BY <2>1, <2>2, <2>3 DEF PartsUpTo
<1>9. page.doing \notin {"Away", "Over"} => ~page.stream.refuted
  <2>1. page.doing \notin {"Away", "Over"} => page \notin {Away, Over}
      BY DEF Away, Over
  <2>2. page \notin {Away, Over} => ~page.stream.refuted
      BY InvSays DEF PageSound
  <2>3. QED
      BY <2>1, <2>2
<1>10. QED
    BY <1>5, <1>6, <1>7, <1>8, <1>9 DEF ArchiveIsExact

(* An alternative the engine completed is saved whole, once and under its  *)
(* own number, through failed fetches, late requests, failed transactions  *)
(* and reloads; a run that is closed has all of them, and no check of the  *)
(* page fails.                                                             *)
THEOREM ArchivesAreExact == DeliverySpec => []ArchiveIsExact
  BY NothingYet, NothingLost, InvExact, PTL DEF DeliverySpec
=============================================================================
