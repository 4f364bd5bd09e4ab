------------------------------- MODULE Receipts -------------------------------
(***************************************************************************)
(* The notebook server's side of commands, by src/notebook.rs.  Notebooks  *)
(* reserve an owner number, attach it and retire it; each owner's commands *)
(* are numbered.  The answer to the last command that took effect is kept  *)
(* as the owner's receipt and given again to an exact repetition of the    *)
(* request.                                                                *)
(*                                                                         *)
(* A request is served while its owner is locked, so it is one step here.  *)
(* Of a run only what commands read and change is kept.  Programs are ones *)
(* that prepare accepts, and runs do not finish: a run that has delivered  *)
(* everything takes commands in the same way.                              *)
(***************************************************************************)
EXTENDS Naturals, Sequences

VARIABLES
    boot,       \* Runtime.boot, the incarnation of the server
    issued,     \* Owners.issued
    admitted,   \* Owners.admitted
    entries,    \* Owners.entries: per attached owner its OwnerState
    runs,       \* Runs.entries and Owners.runs: every run started, reclaimed ones included
    executed    \* history: the commands that took effect

serverVars == <<boot, issued, admitted, entries, runs, executed>>

(* A request; owner, command and run are 0 where the route takes none.     *)
Request(route, b, owner, command, run) ==
    [route |-> route, boot |-> b, owner |-> owner, command |-> command, run |-> run]

Ok(value) == [status |-> "ok", value |-> value]     \* 200; value: an owner or a run
Busy == [status |-> "busy", value |-> 0]            \* 409 with retry
Refused == [status |-> "refused", value |-> 0]      \* 400, 403, 404 or 409 without retry
UnknownOwner == [status |-> "unknown_owner", value |-> 0]

Answer == {Ok(n) : n \in 0 .. issued + Len(runs) + 1} \cup {Busy, Refused, UnknownOwner}

NoReceipt == [command |-> 0]

NewOwner == [runs |-> 0, receipt |-> NoReceipt]

NewRun(owner) ==
    [owner |-> owner, closing |-> FALSE, gone |-> FALSE, canceled |-> FALSE,
     running |-> TRUE, stepping |-> FALSE, step |-> "none"]

ServerInit ==
    /\ boot = 1
    /\ issued = 0
    /\ admitted = 0
    /\ entries = <<>>
    /\ runs = <<>>
    /\ executed = <<>>

-----------------------------------------------------------------------------
(* Owners.                                                                 *)

Reserve(q, answer) ==
    /\ q.route = "reserve"
    /\ issued' = issued + 1
    /\ answer = Ok(issued + 1)
    /\ UNCHANGED <<boot, admitted, entries, runs, executed>>

(* Fault: any number that was issued may attach.                           *)
NotIssued(owner) == owner = 0 \/ owner > issued

(* Once a number is admitted it and the numbers below it are used up.      *)
UsedUp(owner) == owner <= admitted \/ owner > issued

Attach(q, answer) ==
    /\ q.route = "attach"
    /\ IF q.owner \in DOMAIN entries \/ UsedUp(q.owner)
       THEN /\ answer = IF q.owner \in DOMAIN entries THEN Ok(0) ELSE UnknownOwner
            /\ UNCHANGED <<admitted, entries>>
       ELSE /\ answer = Ok(0)
            /\ admitted' = q.owner
            /\ entries' = [o \in DOMAIN entries \cup {q.owner} |->
                             IF o = q.owner THEN NewOwner ELSE entries[o]]
    /\ UNCHANGED <<boot, issued, runs, executed>>

(* Fault: an owner may retire at any time.                                 *)
MayRetireBusy(owner) == TRUE

MayRetire(owner) == entries[owner].runs = 0

Retire(q, answer) ==
    /\ q.route = "retire"
    /\ IF q.owner \in DOMAIN entries /\ MayRetire(q.owner)
       THEN /\ answer = Ok(0)
            /\ entries' = [o \in DOMAIN entries \ {q.owner} |-> entries[o]]
       ELSE /\ answer = IF q.owner \in DOMAIN entries THEN Refused
                        ELSE IF q.owner > admitted THEN UnknownOwner ELSE Ok(0)
            /\ UNCHANGED entries
    /\ UNCHANGED <<boot, issued, admitted, runs, executed>>

-----------------------------------------------------------------------------
(* Commands.                                                               *)

(* What the run r takes: a step that is under way or being left admits no  *)
(* other.                                                                  *)
Permitted(route, r) ==
    /\ ~r.closing
    /\ route # "pause" => ~r.canceled
    /\ route = "step" => r.step \in {"none", "done"}
    /\ route = "continue" => r.stepping

(* continue is resume with continue_step; a plain resume leaves a step by  *)
(* working off its jobs.                                                   *)
Controlled(route, r) ==
    CASE route = "pause" -> [r EXCEPT !.running = FALSE]
      [] route = "step" -> [r EXCEPT !.running = TRUE, !.stepping = TRUE, !.step = "active"]
      [] route = "resume" -> [r EXCEPT !.running = TRUE, !.stepping = FALSE,
                                       !.step = IF @ = "none" THEN @ ELSE "leaving"]
      [] route = "continue" -> IF r.step \in {"active", "leaving"} THEN [r EXCEPT !.running = TRUE]
                               ELSE [r EXCEPT !.running = FALSE]

(* The receipt answers for a repetition; any other command has to be next. *)
IsReplay(q) ==
    /\ entries[q.owner].receipt.command = q.command
    /\ entries[q.owner].receipt.request = q

IsNext(q) == q.command = entries[q.owner].receipt.command + 1

Receipt(q, answer) == [command |-> q.command, request |-> q, response |-> answer]

Start(q, answer) ==
    /\ q.route = "start"
    /\ runs' = Append(runs, NewRun(q.owner))
    /\ answer = Ok(Len(runs) + 1)
    /\ entries' = [entries EXCEPT ![q.owner] =
                      [runs |-> @.runs + 1, receipt |-> Receipt(q, answer)]]
    /\ executed' = Append(executed, q)

(* The run is known and belongs to the owner who asks.                     *)
Owned(q) == q.run \in DOMAIN runs /\ ~runs[q.run].gone /\ runs[q.run].owner = q.owner

Control(q, answer) ==
    /\ q.route \in {"step", "resume", "continue", "pause"}
    /\ Owned(q) /\ Permitted(q.route, runs[q.run])
    /\ runs' = [runs EXCEPT ![q.run] = Controlled(q.route, @)]
    /\ answer = Ok(0)
    /\ entries' = [entries EXCEPT ![q.owner].receipt = Receipt(q, answer)]
    /\ executed' = Append(executed, q)

(* What can never be, and what waits for the collection under way.         *)
Deny(q, answer) ==
    /\ q.route # "start"
    /\ \/ /\ ~(Owned(q) /\ Permitted(q.route, runs[q.run]))
          /\ answer = Refused
       \/ /\ Owned(q) /\ ~runs[q.run].closing /\ ~runs[q.run].canceled
          /\ q.route \in {"step", "resume"}
          /\ answer = Busy
    /\ UNCHANGED <<entries, runs, executed>>

Command(q, answer) ==
    /\ q.command # 0
    /\ IF q.owner \notin DOMAIN entries
       THEN answer = UnknownOwner /\ UNCHANGED <<entries, runs, executed>>
       ELSE \/ /\ IsReplay(q)
               /\ answer = entries[q.owner].receipt.response
               /\ UNCHANGED <<entries, runs, executed>>
            \/ /\ ~IsReplay(q) /\ ~IsNext(q)
               /\ answer = Refused
               /\ UNCHANGED <<entries, runs, executed>>
            \/ /\ ~IsReplay(q) /\ IsNext(q)
               /\ Start(q, answer) \/ Control(q, answer) \/ Deny(q, answer)
    /\ UNCHANGED <<boot, issued, admitted>>

(* cancel and close have no number; to repeat them changes nothing.        *)
Stop(q, answer) ==
    /\ q.route \in {"cancel", "close"}
    /\ IF q.owner \in DOMAIN entries /\ Owned(q)
       THEN /\ answer = Ok(0)
            /\ runs' = [runs EXCEPT ![q.run].running = FALSE, ![q.run].canceled = TRUE,
                                    ![q.run].closing = @ \/ q.route = "close"]
       ELSE /\ UNCHANGED runs
            /\ answer = IF q.owner \notin DOMAIN entries THEN UnknownOwner
                        ELSE IF q.route = "close" /\ (q.run \in DOMAIN runs => runs[q.run].gone)
                        THEN Ok(0) ELSE Refused
    /\ UNCHANGED <<boot, issued, admitted, entries, executed>>

(* Runtime::dispatch.                                                      *)
Dispatch(q, answer) ==
    IF q.boot # boot
    THEN answer = Refused /\ UNCHANGED serverVars
    ELSE \/ Reserve(q, answer) \/ Attach(q, answer) \/ Retire(q, answer)
         \/ Command(q, answer) \/ Stop(q, answer)

-----------------------------------------------------------------------------
(* The maintenance thread: Runtime::tick.                                  *)

(* A running run is driven: its step ends, or the step it leaves is worked *)
(* off.                                                                    *)
Drive(r) ==
    /\ runs[r].running /\ ~runs[r].canceled /\ runs[r].owner \in DOMAIN entries
    /\ \/ /\ runs[r].step = "active"
          /\ runs' = [runs EXCEPT ![r].step = "done", ![r].running = FALSE]
       \/ /\ runs[r].step = "leaving"
          /\ runs' = [runs EXCEPT ![r].step = "none"]
    /\ UNCHANGED <<boot, issued, admitted, entries, executed>>

(* The owner's table once one of its runs is gone.                         *)
Returned(owner) == [entries EXCEPT ![owner].runs = @ - 1]

(* A closing run whose memory is free is forgotten.                        *)
Reclaim(r) ==
    /\ runs[r].closing /\ ~runs[r].gone /\ runs[r].owner \in DOMAIN entries
    /\ runs' = [runs EXCEPT ![r].gone = TRUE]
    /\ entries' = Returned(runs[r].owner)
    /\ UNCHANGED <<boot, issued, admitted, executed>>

Tick == \E r \in DOMAIN runs : Drive(r) \/ Reclaim(r)

(* The server is started anew.                                             *)
Restart ==
    /\ boot' = boot + 1
    /\ issued' = 0
    /\ admitted' = 0
    /\ entries' = <<>>
    /\ runs' = <<>>
    /\ executed' = <<>>
=============================================================================
