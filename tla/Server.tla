-------------------------------- MODULE Server --------------------------------
(***************************************************************************)
(* The server of Receipts under requests of any clients: nothing is        *)
(* assumed about who sends what, in which order or how often.              *)
(***************************************************************************)
EXTENDS Receipts, FiniteSets

CONSTANT
    Asked       \* the requests clients make

ASSUME AskedAreRequests ==
    Asked \subseteq [route : STRING, boot : Nat, owner : Nat, command : Nat, run : Nat]

Init == ServerInit

Serve == \E q \in Asked, answer \in Answer : Dispatch(q, answer)

Next == Serve \/ Tick \/ Restart

Spec == Init /\ [][Next]_serverVars

-----------------------------------------------------------------------------

Runs == [owner : Nat, closing : BOOLEAN, gone : BOOLEAN, canceled : BOOLEAN,
         running : BOOLEAN, stepping : BOOLEAN, step : {"none", "active", "done", "leaving"}]

Answers == [status : {"ok", "busy", "refused", "unknown_owner"}, value : Nat]

Kept == {NoReceipt} \cup [command : Nat \ {0}, request : Asked,
                         response : Answers]

(* The tables hold what they are for; attached owners are admitted ones.   *)
TypeOK ==
    /\ boot \in Nat /\ issued \in Nat /\ admitted \in Nat /\ admitted <= issued
    /\ DOMAIN entries \subseteq 1 .. admitted
    /\ entries \in [DOMAIN entries -> [runs : Nat, receipt : Kept]]
    /\ runs \in Seq(Runs)
    /\ executed \in Seq(Asked)

(* The commands of one owner take effect in the order of their numbers,    *)
(* each once and none left out, over any number of repetitions and         *)
(* reorderings, retirement and attaching anew included.                    *)
ExecutedInOrder ==
    \A i \in DOMAIN executed :
        /\ \A j \in 1 .. i - 1 :
              executed[j].owner = executed[i].owner => executed[j].command < executed[i].command
        /\ executed[i].command = 1 \/ \E j \in 1 .. i - 1 :
              /\ executed[j].owner = executed[i].owner
              /\ executed[j].command + 1 = executed[i].command

(* A receipt is of the last command of its owner that took effect; an      *)
(* owner without one has no effect to answer for.                          *)
ReceiptIsLast ==
    \A o \in DOMAIN entries :
        LET receipt == entries[o].receipt IN
        /\ \A i \in DOMAIN executed :
              executed[i].owner = o => executed[i].command <= receipt.command
        /\ receipt.command = 0 \/ \E i \in DOMAIN executed :
              executed[i] = receipt.request /\ executed[i].owner = o
                                            /\ executed[i].command = receipt.command

RunsOf(o) == {r \in DOMAIN runs : runs[r].owner = o /\ ~runs[r].gone}

(* An owner counts the runs that are his and not reclaimed, and none of    *)
(* them outlives him: tick would neither drive nor reclaim such a run.     *)
OwnersCountRuns ==
    /\ \A o \in DOMAIN entries : entries[o].runs = Cardinality(RunsOf(o))
    /\ \A r \in DOMAIN runs : ~runs[r].gone => runs[r].owner \in DOMAIN entries
=============================================================================
