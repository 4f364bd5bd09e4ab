------------------------------- MODULE Notebook -------------------------------
(***************************************************************************)
(* The notebook server and the page, from three sides: the commands of its *)
(* clients (Server), the delivery of the answers of a run (Delivery), and  *)
(* the threads and locks by which requests are served (Maintenance).       *)
(*                                                                         *)
(* Maintenance shows which steps of a request are not interleaved with     *)
(* others, and that it ends; Server and Delivery take such a request as    *)
(* one step.  The batches of one run depend on no other, and on commands   *)
(* only through the time a run is driven, which is arbitrary in Delivery.  *)
(* So a behaviour is one of the three.                                     *)
(***************************************************************************)
EXTENDS Server, Delivery, Maintenance

VARIABLE
    side        \* which of them this behaviour is

notebookVars == <<side, serverVars, deliveryVars, threadVars>>

Side == {"Commands", "Delivery", "Threads"}

(* Nothing happens on the other sides: no thread is asked for anything,    *)
(* and the run is closed.                                                  *)
NoDelivery ==
    /\ server = [NewServer EXCEPT !.canceled = TRUE, !.closing = TRUE, !.gone = TRUE]
    /\ page = Over
    /\ shelf = [parts |-> {}, answers |-> {}, row |-> Nothing]
    /\ stray = {} /\ trouble = 0 /\ polls = 0

NotebookInit ==
    /\ side \in Side
    /\ Init
    /\ IF side = "Delivery" THEN DeliveryInit ELSE NoDelivery
    /\ MaintenanceInit

CommandStep ==
    /\ side = "Commands" /\ Next
    /\ UNCHANGED <<side, deliveryVars, threadVars>>

DeliveryStep ==
    /\ side = "Delivery" /\ DeliveryNext
    /\ UNCHANGED <<side, serverVars, threadVars>>

ThreadStep ==
    /\ side = "Threads" /\ MaintenanceNext
    /\ UNCHANGED <<side, serverVars, deliveryVars>>

NotebookNext == CommandStep \/ DeliveryStep \/ ThreadStep

NotebookFairness == DeliveryFairness /\ MaintenanceFairness

(* Whatever was begun comes to its end: a complete alternative is saved,   *)
(* a request is answered, and a run that was closed is reclaimed.          *)
AllIsServed == AnswersArrive /\ ServedAndReclaimed
=============================================================================
