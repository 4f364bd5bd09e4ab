------------------------------ MODULE Connection ------------------------------
(***************************************************************************)
(* The browser's side of commands, by src/web/connection.mjs: a            *)
(* NotebookConnection sends one request at a time.  A command is stored    *)
(* before it is sent, its answer is adopted in the store, and then its     *)
(* number is taken; a page that is loaded anew repeats the command it      *)
(* finds pending.  Fetches fail, storage fails, pages are left and the     *)
(* server restarts, at any point.                                          *)
(*                                                                         *)
(* Of the stored rows (live:run:) only what the protocol reads is kept:    *)
(* whether the run is closing and whether a step of it is pending.         *)
(***************************************************************************)
EXTENDS Receipts, Bags, TLC

CONSTANTS
    Route,      \* the commands submitted: start, step, resume, continue, pause
    None,
    MaxBoot,    \* bound: incarnations of the server
    MaxIntent,  \* bound: commands submitted
    MaxFault,   \* bound: failed fetches and saves, reloads, other owners
    MaxEvent,   \* bound: commands and faults together
    MaxLate     \* bound: requests under way whose fetch failed

VARIABLES
    phase,      \* where the controller is
    state,      \* NotebookConnection.state
    durable,    \* durableOwner and pendingDurable: what of state is known to be stored
    canceling,  \* options.cancel of the recovery under way
    fetch,      \* the request sent and not answered
    result,     \* the run of the answer, or of the close under way
    saved,      \* the stored controller
    rows,       \* the stored live:run rows
    late,       \* requests the server may still receive, though their fetch failed
    intents,    \* number of commands submitted
    faults      \* number of faults so far

clientVars == <<phase, state, durable, canceling, fetch, result, saved, rows>>
vars == <<serverVars, clientVars, late, intents, faults>>

Fresh(b) == [boot |-> b, owner |-> 0, attached |-> FALSE, command |-> 0, pending |-> None]

Stored(s) == [owner |-> s.owner, pending |-> s.pending # None]

NewRow == [closing |-> FALSE, stepPending |-> FALSE]

Init ==
    /\ ServerInit
    /\ phase = "Closed"
    /\ state = Fresh(0)
    /\ durable = Stored(Fresh(0))
    /\ canceling = FALSE
    /\ fetch = None
    /\ result = 0
    /\ saved = None
    /\ rows = <<>>
    /\ late = EmptyBag
    /\ intents = 0
    /\ faults = 0

Become(p) == phase' = p /\ fetch' = None

Send(p, q) == phase' = p /\ fetch' = q

(* A request on a run, with the identity of the notebook.                  *)
OnRun(route, run) == Request(route, state.boot, state.owner, 0, run)

World == <<serverVars, late, intents, faults>>

-----------------------------------------------------------------------------
(* Opening the store.  The rows of an incarnation that is gone are erased  *)
(* before the fresh controller is stored.                                  *)

Open ==
    /\ phase = "Closed"
    /\ IF saved = None \/ saved.boot # boot
       THEN /\ state' = Fresh(boot)
            /\ durable' = Stored(Fresh(boot))
            /\ Become("Erase")
       ELSE /\ state' = saved
            /\ durable' = Stored(saved)
            /\ Become("Idle")
    /\ canceling' = FALSE
    /\ result' = 0
    /\ UNCHANGED <<saved, rows, World>>

Without(f, x) == [y \in DOMAIN f \ {x} |-> f[y]]

Erase ==
    /\ phase = "Erase"
    /\ \E r \in DOMAIN rows : rows' = Without(rows, r)
    /\ UNCHANGED <<phase, state, durable, canceling, fetch, result, saved, World>>

(* Fault: the fresh controller is stored first.                            *)
MayStoreFreshEarly == TRUE

MayStoreFresh == rows = <<>>

SaveFresh ==
    /\ phase = "Erase" /\ MayStoreFresh
    /\ saved' = state
    /\ Become("Idle")
    /\ UNCHANGED <<state, durable, canceling, result, rows, World>>

-----------------------------------------------------------------------------
(* owner(): an owner number is stored before it is attached.               *)

ToAttach(s) == Send("Attach", Request("attach", s.boot, s.owner, 0, 0))

Attaching ==
    /\ phase = "Idle" /\ ~state.attached
    /\ IF state.owner = 0 THEN Send("Reserve", Request("reserve", state.boot, 0, 0, 0))
       ELSE IF durable.owner # state.owner THEN Become("SaveOwner")
       ELSE ToAttach(state)
    /\ UNCHANGED <<state, durable, canceling, result, saved, rows, World>>

Save(s) == saved' = s /\ state' = s /\ durable' = Stored(s)

SaveOwner ==
    /\ phase = "SaveOwner"
    /\ Save(state)
    /\ IF state.owner = 0 THEN Become("Idle") ELSE ToAttach(state)
    /\ UNCHANGED <<canceling, result, rows, World>>

SaveAttached ==
    /\ phase = "SaveAttached"
    /\ Save([state EXCEPT !.attached = TRUE])
    /\ Become("Idle")
    /\ UNCHANGED <<canceling, result, rows, World>>

-----------------------------------------------------------------------------
(* Commands: request(), replay(), recover() and adopt().                   *)

(* What the notebook asks of a run: a step that is pending is continued.   *)
Offered(route, run) ==
    IF route = "start" THEN run = 0
    ELSE /\ run \in DOMAIN rows
         /\ ~rows[run].closing
         /\ route \in {"step", "resume"} => ~rows[run].stepPending
         /\ route = "continue" => rows[run].stepPending

(* Fault: the command is sent at once.                                     *)
ReplayUnsaved(s, isStored) == Send("Command", s.pending)

(* Never send a command that is not stored.                                *)
Replay(s, isStored) ==
    IF isStored THEN Send("Command", s.pending) ELSE Become("SavePending")

Submit(route, run) ==
    /\ phase = "Idle" /\ state.attached /\ state.pending = None
    /\ intents < MaxIntent /\ intents + faults < MaxEvent
    /\ Offered(route, run)
    /\ state' = [state EXCEPT !.pending =
                    Request(route, state.boot, state.owner, state.command + 1, run)]
    /\ durable' = [durable EXCEPT !.pending = FALSE]
    /\ Replay(state', FALSE)
    /\ canceling' = FALSE
    /\ intents' = intents + 1
    /\ UNCHANGED <<result, saved, rows, serverVars, late, faults>>

SavePending ==
    /\ phase = "SavePending"
    /\ Save(state)
    /\ Replay(state, TRUE)
    /\ UNCHANGED <<canceling, result, rows, World>>

(* A cancellation goes ahead of the command, where its run is known.       *)
Recover(cancel) ==
    /\ phase = "Idle" /\ state.pending # None
    /\ canceling' = cancel
    /\ IF cancel /\ state.pending.route # "start"
       THEN Send("CancelFirst", OnRun("cancel", state.pending.run))
       ELSE Replay(state, durable.pending)
    /\ UNCHANGED <<state, durable, result, saved, rows, World>>

(* The command was never sent: it is dropped.                              *)
DropIntent ==
    /\ phase = "DropIntent"
    /\ Save([state EXCEPT !.pending = None])
    /\ Become("Idle")
    /\ UNCHANGED <<canceling, result, rows, World>>

(* The row of the run after the command pending.                           *)
Adopted(pending) ==
    IF pending.route = "start"
    THEN IF result \in DOMAIN rows THEN rows ELSE rows @@ (result :> NewRow)
    ELSE [rows EXCEPT ![pending.run].stepPending =
             CASE pending.route \in {"step", "continue"} -> TRUE
               [] pending.route = "resume" -> FALSE
               [] pending.route = "pause" -> @]

Adopt ==
    /\ phase = "Adopt"
    /\ IF state.pending.route = "start" \/ state.pending.run \in DOMAIN rows
       THEN rows' = Adopted(state.pending) /\ Become("Commit")
       ELSE UNCHANGED rows /\ Become("Idle")    \* no saved execution
    /\ UNCHANGED <<state, durable, canceling, result, saved, World>>

(* Fault: a command that was refused used up its number.                   *)
RetiredTaken(s) == [s EXCEPT !.command = s.pending.command, !.pending = None]

(* The controller once the pending command took effect, or was refused.    *)
Taken(s) == [s EXCEPT !.command = s.pending.command, !.pending = None]

Retired(s) == [s EXCEPT !.pending = None]

Commit ==
    /\ phase = "Commit"
    /\ Save(Taken(state))
    /\ Become("Idle")
    /\ UNCHANGED <<canceling, result, rows, World>>

Refuse ==
    /\ phase = "Refuse"
    /\ Save(Retired(state))
    /\ Become("Idle")
    /\ UNCHANGED <<canceling, result, rows, World>>

-----------------------------------------------------------------------------
(* lifecycle(): cancel and close.  A recovery comes before either, except  *)
(* that a close found begun is repeated.                                   *)

CancelRun(run) ==
    /\ phase = "Idle" /\ state.attached /\ state.pending = None
    /\ run \in DOMAIN rows
    /\ Send("Cancel", OnRun("cancel", run))
    /\ UNCHANGED <<state, durable, canceling, result, saved, rows, World>>

CloseRun(run) ==
    /\ phase = "Idle" /\ state.attached
    /\ run \in DOMAIN rows
    /\ state.pending = None \/ rows[run].closing
    /\ Become("SaveClosing")
    /\ result' = run
    /\ UNCHANGED <<state, durable, canceling, saved, rows, World>>

SaveClosing ==
    /\ phase = "SaveClosing"
    /\ rows' = [rows EXCEPT ![result].closing = TRUE]
    /\ Send("Close", OnRun("close", result))
    /\ UNCHANGED <<state, durable, canceling, result, saved, World>>

Forget ==
    /\ phase = "Forget"
    /\ rows' = Without(rows, result)
    /\ Become("Idle")
    /\ UNCHANGED <<state, durable, canceling, result, saved, World>>

-----------------------------------------------------------------------------
(* What the controller does with the answer to the request it awaits.      *)

OnOwner(answer) ==
    \/ /\ phase = "Reserve"
       /\ IF answer.status = "ok"
          THEN state' = [state EXCEPT !.owner = answer.value] /\ Become("SaveOwner")
          ELSE UNCHANGED state /\ Become("Idle")
    \/ /\ phase = "Attach"
       /\ IF answer = UnknownOwner
          THEN state' = [state EXCEPT !.owner = 0] /\ Become("SaveOwner")
          ELSE /\ UNCHANGED state
               /\ Become(IF answer.status = "ok" THEN "SaveAttached" ELSE "Idle")

(* Fault: a refusal is reported, and the command stays pending.            *)
OnCommandKept(answer) ==
    CASE answer = Busy -> Send("Command", state.pending)
      [] answer.status \notin {"ok", "busy"} -> Become("Idle")
      [] answer.status = "ok" -> Become("Adopt")

(* Maintenance is asked for between the retries.                           *)
OnCommand(answer) ==
    CASE answer = Busy -> Send("Command", state.pending)
      [] answer.status \notin {"ok", "busy"} -> Become("Refuse")
      [] answer.status = "ok" ->
            IF canceling /\ state.pending.route = "start"
            THEN Send("CancelStarted", OnRun("cancel", answer.value))
            ELSE Become("Adopt")

OnStop(answer) ==
    IF answer.status # "ok" THEN Become("Idle")
    ELSE CASE phase = "CancelFirst" ->
                 IF durable.pending THEN Replay(state, TRUE) ELSE Become("DropIntent")
           [] phase = "CancelStarted" -> Become("Adopt")
           [] phase = "Cancel" -> Become("Idle")
           [] phase = "Close" -> Become("Forget")

Answered(answer) ==
    /\ \/ OnOwner(answer) /\ UNCHANGED result
       \/ /\ phase = "Command"
          /\ OnCommand(answer)
          /\ result' = IF state.pending.route = "start" THEN answer.value ELSE result
          /\ UNCHANGED state
       \/ /\ phase \in {"CancelFirst", "CancelStarted", "Cancel", "Close"}
          /\ OnStop(answer)
          /\ UNCHANGED <<state, result>>
    /\ UNCHANGED <<durable, canceling, saved, rows, late, intents, faults>>

(* The server serves the request and its answer arrives.                   *)
ServeWith(answers) ==
    /\ fetch # None
    /\ \E answer \in answers : Dispatch(fetch, answer) /\ Answered(answer)

Serve == ServeWith(Answer)

(* Output of the run shows that its step is done.                          *)
ObserveStep(run) ==
    /\ phase = "Idle" /\ state.boot = boot
    /\ run \in DOMAIN rows /\ rows[run].stepPending
    /\ run \in DOMAIN runs /\ runs[run].step \in {"none", "done"}
    /\ rows' = [rows EXCEPT ![run].stepPending = FALSE]
    /\ UNCHANGED <<phase, state, durable, canceling, fetch, result, saved, World>>

-----------------------------------------------------------------------------
(* Faults.                                                                 *)

(* A request whose fetch failed was lost, was served, or is still under way.*)
Abandoned ==
    \/ UNCHANGED <<serverVars, late>>
    \/ /\ fetch # None
       /\ \E answer \in Answer : Dispatch(fetch, answer)
       /\ UNCHANGED late
    \/ /\ fetch # None /\ BagCardinality(late) < MaxLate
       /\ late' = late (+) SetToBag({fetch})
       /\ UNCHANGED serverVars

Fault == faults < MaxFault /\ intents + faults < MaxEvent /\ faults' = faults + 1 /\ UNCHANGED intents

FetchFails ==
    /\ Fault
    /\ fetch # None
    /\ Abandoned
    /\ Become("Idle")
    /\ canceling' = FALSE
    /\ UNCHANGED <<state, durable, result, saved, rows>>

(* The page is left; what is stored stays.                                 *)
Reload ==
    /\ Fault
    /\ phase # "Closed"
    /\ Abandoned
    /\ Become("Closed")
    /\ state' = Fresh(0)
    /\ durable' = Stored(Fresh(0))
    /\ canceling' = FALSE
    /\ result' = 0
    /\ UNCHANGED <<saved, rows>>

(* The store refuses a write: the operation ends, and opening begins anew. *)
SaveFails ==
    /\ Fault
    /\ phase \in {"SaveOwner", "SaveAttached", "SavePending", "DropIntent", "Adopt", "Commit",
                  "Refuse", "SaveClosing", "Forget", "Erase"}
    /\ Become(IF phase = "Erase" THEN "Closed" ELSE "Idle")
    /\ canceling' = FALSE
    /\ UNCHANGED <<state, durable, result, saved, rows, serverVars, late>>

(* Another notebook reserves a number and attaches it.                     *)
OtherAttaches ==
    /\ Fault
    /\ issued' = issued + 1
    /\ admitted' = issued'
    /\ entries' = entries @@ (issued' :> NewOwner)
    /\ UNCHANGED <<boot, runs, executed, clientVars, late>>

ServeLate ==
    /\ \E q \in BagToSet(late) :
          /\ late' = late (-) SetToBag({q})
          /\ \E answer \in Answer : Dispatch(q, answer)
    /\ UNCHANGED <<clientVars, intents, faults>>

Advance ==
    /\ Tick
    /\ UNCHANGED <<clientVars, late, intents, faults>>

ServerRestarts == boot < MaxBoot /\ Restart /\ UNCHANGED <<clientVars, late, intents, faults>>

-----------------------------------------------------------------------------

(* The controller goes on by itself with what it began.                    *)
Proceed ==
    \/ Erase \/ SaveFresh \/ SaveOwner \/ SaveAttached \/ SavePending
    \/ DropIntent \/ Adopt \/ Commit \/ Refuse \/ SaveClosing \/ Forget

User ==
    \/ Attaching
    \/ \E route \in Route, run \in 0 .. MaxIntent : Submit(route, run)
    \/ Recover(FALSE) \/ Recover(TRUE)
    \/ \E run \in DOMAIN rows : CancelRun(run) \/ CloseRun(run) \/ ObserveStep(run)

Next ==
    \/ Open \/ Proceed \/ User
    \/ Serve \/ ServeLate \/ Advance
    \/ FetchFails \/ Reload \/ SaveFails \/ OtherAttaches \/ ServerRestarts

(* A notebook recovers what is pending when it is opened and before it     *)
(* cancels, closes or changes runs; a collection ends, as each retry of a  *)
(* command asks for maintenance.                                           *)
Fairness ==
    /\ WF_vars(Open) /\ WF_vars(Proceed) /\ WF_vars(Serve)
    /\ SF_vars(Recover(FALSE))
    /\ SF_vars(ServeWith(Answer \ {Busy}))

Spec == Init /\ [][Next]_vars /\ Fairness
-----------------------------------------------------------------------------
(* Properties.                                                             *)

(* What is stored passes validateState when it is read again, so a page    *)
(* that is loaded anew is not refused its own controller.                  *)
SavedIsValid ==
    saved # None /\ saved.pending # None =>
        /\ saved.attached /\ saved.owner # 0
        /\ saved.pending.command = saved.command + 1
        /\ saved.pending.owner = saved.owner
        /\ saved.pending.boot = saved.boot

(* A stored controller is valid, and where it belongs to this incarnation  *)
(* of the server, the commands that took effect are the ones it has        *)
(* counted, and at most the one it has pending: none took effect twice,    *)
(* none that was given up or not yet stored took effect.                   *)
Agreement ==
    /\ SavedIsValid
    /\ saved # None /\ saved.boot = boot =>
          \/ Len(executed) = saved.command
          \/ /\ Len(executed) = saved.command + 1
             /\ executed[Len(executed)] = saved.pending

(* A command that is sent to the incarnation it was made for is the next   *)
(* one or an exact repetition of the last.                                 *)
CommandIsNextOrReplay ==
    phase = "Command" /\ fetch.boot = boot => IsReplay(fetch) \/ IsNext(fetch)

(* Every run of the server that is not closing has a stored row, or is     *)
(* what the pending start will be answered with: none is lost to the user. *)
NoOrphanRun ==
    \A r \in DOMAIN runs : ~runs[r].closing =>
        \/ r \in DOMAIN rows
        \/ /\ saved.pending # None /\ saved.pending.route = "start"
           /\ entries[saved.owner].receipt.request = saved.pending
           /\ entries[saved.owner].receipt.response = Ok(r)

(* A stored row under a controller of this incarnation stands for a run    *)
(* the server has started: rows of an incarnation that is gone are never   *)
(* taken for runs of this one.                                             *)
RowsAreRuns == saved # None /\ saved.boot = boot => DOMAIN rows \subseteq DOMAIN runs

(* A step the server has under way is stored as pending, or the command    *)
(* that asked for it still is: no page takes such a run for one at rest.   *)
StepRemembered ==
    \A r \in DOMAIN runs \cap DOMAIN rows :
        runs[r].step = "active" /\ saved.boot = boot =>
            \/ rows[r].stepPending
            \/ /\ saved.pending # None
               /\ saved.pending.run = r /\ saved.pending.route \in {"step", "continue"}

(* Runs and rows stand for each other, with what is known of their steps,  *)
(* across failures and restarts.                                           *)
RowsMatchRuns == NoOrphanRun /\ RowsAreRuns /\ StepRemembered

(* What is stored of a notebook, its controller and its rows, is what the  *)
(* server has done for it.                                                 *)
StoredIsDone == Agreement /\ RowsMatchRuns

(* Every command that is stored as pending is settled: answered and        *)
(* adopted, refused, or dropped with its server.                           *)
EverySettled == saved # None /\ saved.pending # None ~> saved # None /\ saved.pending = None
=============================================================================
