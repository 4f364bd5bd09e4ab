------------------------------ MODULE Delivery ------------------------------
(***************************************************************************)
(* The way of the answers of one run from the engine into the browser's    *)
(* store.  The server (src/notebook.rs) appends the events of the engine   *)
(* to a spool, gives them out in numbered batches and keeps the last batch *)
(* until its number is acknowledged.  The page (RunSession in              *)
(* src/web/notebook.mjs) assembles alternatives from the events and stores *)
(* them (src/web/answers.mjs) together with its place in the batch, so     *)
(* that a page loaded anew goes on from there.  A cancellation keeps every *)
(* alternative that is complete and drops the rest.                        *)
(*                                                                         *)
(* Fetches fail before or after they are served, requests of a page that   *)
(* was left are served late, transactions of the store and accesses to the *)
(* spool fail.  Commands are the subject of Connection; here the engine    *)
(* runs until it is done or canceled.                                      *)
(***************************************************************************)
EXTENDS Naturals, Sequences, FiniteSets, FiniteSetsExt

CONSTANTS
    MaxAlternative, \* bound: alternatives of the run
    MaxPart,        \* bound: parts of an alternative
    Limit,          \* RunRequest.budget: events of a batch
    Full,           \* OutputAssembler: the writes at which it needs a flush
    CompactAt,      \* Spool::compact: the least part read
    MaxTrouble,     \* bound: failures and reloads
    MaxPoll         \* bound: batches asked for though there is no news

ASSUME DeliveryBounds ==
    /\ {MaxAlternative, MaxPart, MaxTrouble, MaxPoll} \subseteq Nat
    /\ {Limit, Full, CompactAt} \subseteq Nat \ {0}

VARIABLES
    server,     \* the Run: its engine, spool and retained batch
    page,       \* the RunSession and its request under way
    shelf,      \* the store: answers, their parts, and the row live:run
    stray,      \* requests of failed fetches that may still be served
    trouble,    \* number of failures so far
    polls       \* number of batches without news so far

deliveryVars == <<server, page, shelf, stray, trouble, polls>>

Nothing == [kind |-> "nothing"]

Event(kind, alternative) == [kind |-> kind, alternative |-> alternative]

NoBatch == [sequence |-> 0, events |-> <<>>, drained |-> TRUE, done |-> FALSE,
            canceled |-> FALSE, error |-> FALSE]

NewStream == [total |-> 0, current |-> Nothing, writes |-> {}, refuted |-> FALSE]

Away == [doing |-> "Away"]     \* the page is left
Over == [doing |-> "Over"]     \* the run is closed

(* A row of a started run; the page has just adopted it.                   *)
NewPlace == [phase |-> "open", ack |-> 0, sequence |-> 0, index |-> 0,
             total |-> 0, current |-> Nothing]

NewSession ==
    [doing |-> "Idle", status |-> "reading", stop |-> "no", ack |-> 0,
     pending |-> Nothing, stream |-> NewStream, cancel |-> FALSE, more |-> FALSE,
     purpose |-> "read", reply |-> Nothing]

NewServer ==
    [emitted |-> <<>>, ended |-> FALSE, canceled |-> FALSE, error |-> FALSE,
     closing |-> FALSE, gone |-> FALSE, file |-> <<>>, read |-> 0, batch |-> NoBatch]

DeliveryInit ==
    /\ server = NewServer
    /\ page = NewSession
    /\ shelf = [parts |-> {}, answers |-> {}, row |-> NewPlace]
    /\ stray = {}
    /\ trouble = 0
    /\ polls = 0

-----------------------------------------------------------------------------
(* The engine, driven by the maintenance thread, and its spool.            *)

Alternatives(events, kind) == Cardinality({i \in DOMAIN events : events[i].kind = kind})

Begun == Alternatives(server.emitted, "begin")
Complete == Alternatives(server.emitted, "end")

PartsSoFar(events, a) == Cardinality({i \in DOMAIN events : events[i] = Event("part", a)})

(* The next event the engine may bring out.                                *)
Emissible ==
    IF Begun = Complete
    THEN {Event("begin", a) : a \in {Begun + 1} \cap 1 .. MaxAlternative}
    ELSE {Event("end", Begun)} \cup
         {Event("part", a) : a \in {Begun} \cap {b \in {Begun} :
                                    PartsSoFar(server.emitted, b) < MaxPart}}

Running == ~server.ended /\ ~server.canceled

(* Spool::append.                                                          *)
Spooled(s, event) ==
    [s EXCEPT !.emitted = Append(@, event), !.file = Append(@, event)]

DriveOne ==
    /\ Running
    /\ \E event \in Emissible : server' = Spooled(server, event)
    /\ UNCHANGED <<page, shelf, stray, trouble, polls>>

Exhaust ==
    /\ Running /\ Begun = Complete
    /\ server' = [server EXCEPT !.ended = TRUE]
    /\ UNCHANGED <<page, shelf, stray, trouble, polls>>

(* A spool that cannot be written cancels the run.                         *)
AppendFails ==
    /\ Running /\ Emissible # {} /\ trouble < MaxTrouble
    /\ server' = [server EXCEPT !.canceled = TRUE, !.error = TRUE]
    /\ trouble' = trouble + 1
    /\ UNCHANGED <<page, shelf, stray, polls>>

Drained(s) == s.read = Len(s.file)

(* Spool::compact: what was read is cut off when there is much of it.      *)
Compacted(s) ==
    IF s.read >= CompactAt /\ s.read >= Len(s.file) - s.read
    THEN [s EXCEPT !.file = SubSeq(@, s.read + 1, Len(@)), !.read = 0]
    ELSE s

(* Spool::read.                                                            *)
ReadOn(s) == [s EXCEPT !.read = Min({@ + Limit, Len(s.file)})]
EventsRead(s) == SubSeq(s.file, s.read + 1, ReadOn(s).read)

-----------------------------------------------------------------------------
(* The requests on the run, each served while the run is locked: what the  *)
(* server becomes, and what it answers.                                    *)

Served(s, reply) == [server |-> s, reply |-> reply]

Failing(s) == Served(s, [ok |-> FALSE])

NextBatch(s, sequence) ==
    LET c == Compacted(s)
        r == ReadOn(c)
        b == [sequence |-> sequence, events |-> EventsRead(c), drained |-> Drained(r),
              done |-> s.ended /\ Drained(r), canceled |-> s.canceled, error |-> s.error]
    IN Served([r EXCEPT !.batch = b], [ok |-> TRUE, batch |-> b])

(* Fault: a batch is given once.                                           *)
OutputOnce(s, ack) ==
    IF s.gone \/ s.closing \/ ack # s.batch.sequence THEN Failing(s) ELSE NextBatch(s, ack + 1)

(* A batch is given again until it is acknowledged.                        *)
Output(s, ack) ==
    IF s.gone \/ s.closing THEN Failing(s)
    ELSE IF ack = s.batch.sequence THEN NextBatch(s, ack + 1)
    ELSE IF ack + 1 = s.batch.sequence THEN Served(s, [ok |-> TRUE, batch |-> s.batch])
    ELSE Failing(s)

(* A spool that cannot be read cancels the run, and uses up no number.     *)
OutputUnreadable(s) == Failing([s EXCEPT !.canceled = TRUE, !.error = TRUE])

Canceled(s) ==
    IF s.gone THEN Failing(s)
    ELSE Served([s EXCEPT !.canceled = TRUE],
                [ok |-> TRUE, batch |-> s.batch, more |-> ~Drained(s)])

Status(s) ==
    IF s.gone THEN Failing(s)
    ELSE Served(s, [ok |-> TRUE, canceled |-> s.canceled, error |-> s.error])

Closed(s) ==
    IF s.gone THEN Served(s, [ok |-> TRUE])
    ELSE Served([s EXCEPT !.canceled = TRUE, !.closing = TRUE], [ok |-> TRUE])

Handled(s, q) ==
    CASE q.route = "output" -> Output(s, q.ack)
      [] q.route = "cancel" -> Canceled(s)
      [] q.route = "status" -> Status(s)
      [] q.route = "close" -> Closed(s)

(* Runtime::tick on a run that closes: its batches go with it.             *)
ReclaimRun ==
    /\ server.closing /\ ~server.gone
    /\ server' = [server EXCEPT !.gone = TRUE, !.batch = NoBatch]
    /\ UNCHANGED <<page, shelf, stray, trouble, polls>>

-----------------------------------------------------------------------------
(* OutputAssembler: the answers, and what is to be written of them.  A     *)
(* check that fails refutes the stream.                                    *)

NeedsFlush(t) == Cardinality(t.writes) >= Full

(* An event is out of order, or comes before what waits is written.        *)
Misplaced(t, event) ==
    NeedsFlush(t) \/ (event.kind = "begin" /\ t.current # Nothing)
                  \/ (event.kind # "begin" /\ t.current = Nothing)

Push(t, event) ==
    LET n == t.current.number
        u == IF Misplaced(t, event) THEN [t EXCEPT !.refuted = TRUE] ELSE t
    IN IF event.kind = "begin"
       THEN [u EXCEPT !.current = [number |-> t.total + 1, alternative |-> event.alternative,
                                   parts |-> 0]]
       ELSE IF t.current = Nothing THEN u
       ELSE IF event.kind = "part"
       THEN [u EXCEPT !.writes = @ \cup {[store |-> "parts", number |-> n,
                                          slot |-> t.current.parts,
                                          alternative |-> event.alternative]},
                      !.current.parts = @ + 1]
       ELSE [u EXCEPT !.writes = @ \cup {[store |-> "answers", number |-> n, slot |-> 0,
                                          size |-> t.current.parts,
                                          alternative |-> t.current.alternative]},
                      !.total = n,
                      !.current = Nothing]

(* What the stream becomes when the events after index are pushed.         *)
Streams(t, events, index) ==
    LET after[k \in index .. Len(events)] ==
            IF k = index THEN t ELSE Push(after[k - 1], events[k])
    IN after

(* How far they are pushed without a pause.                                *)
PushedTo(streams, index, limit) ==
    Min({limit} \cup {k \in index + 1 .. limit : NeedsFlush(streams[k])})

(* IndexedAnswerStore.flush: all that is to be written and the row of the  *)
(* run, in one transaction; a discarded alternative leaves nothing.        *)
Discarded(p, discard) ==
    IF discard /\ p.stream.current # Nothing THEN p.stream.current.number ELSE 0

(* What put of these writes makes of a table.                              *)
Put(table, writes) ==
    {w \in table : \A v \in writes : v.number # w.number \/ v.slot # w.slot} \cup writes

(* executionStatus, as far as a page loaded anew cares.                    *)
ExecutionStatus(batch) ==
    IF batch.error THEN "open"
    ELSE IF batch.canceled THEN "canceled"
    ELSE IF batch.done THEN "done" ELSE "open"

(* A cancellation or close that has begun is not taken back.               *)
PhaseAfter(p, complete) ==
    LET asked == IF p.cancel THEN IF complete THEN "canceled" ELSE "canceling"
                 ELSE IF p.pending = Nothing THEN shelf.row.phase
                 ELSE ExecutionStatus(p.pending.batch)
    IN IF shelf.row.phase = "closing" \/ (shelf.row.phase = "canceling" /\ ~p.cancel)
       THEN shelf.row.phase ELSE asked

(* The row: the batch and the place in it, or the batch as acknowledged.   *)
PlaceAfter(p, discard, complete) ==
    [phase |-> PhaseAfter(p, complete),
     ack |-> IF complete /\ p.pending # Nothing THEN p.pending.batch.sequence ELSE shelf.row.ack,
     sequence |-> IF complete \/ p.pending = Nothing THEN 0 ELSE p.pending.batch.sequence,
     index |-> IF complete \/ p.pending = Nothing THEN 0 ELSE p.pending.index,
     total |-> p.stream.total,
     current |-> IF discard THEN Nothing ELSE p.stream.current]

Flush(p, discard, complete) ==
    LET number == Discarded(p, discard)
        Of(store) == {w \in p.stream.writes : w.store = store /\ w.number # number}
    IN shelf' = [parts |-> {w \in Put(shelf.parts, Of("parts")) : w.number # number},
                 answers |-> Put(shelf.answers, Of("answers")),
                 row |-> PlaceAfter(p, discard, complete)]

Flushed(p, discard) ==
    [p EXCEPT !.stream.writes = {},
              !.stream.current = IF discard THEN Nothing ELSE @]

-----------------------------------------------------------------------------
(* RunSession.                                                             *)

Refute(p, unless) == [p EXCEPT !.stream.refuted = @ \/ ~unless]

Batch(batch) == [kind |-> "batch", known |-> TRUE, batch |-> batch,
                 sequence |-> batch.sequence, index |-> 0]

(* attachBatch, or a batch of which nothing is delivered.                  *)
Attached(p, batch) ==
    IF p.pending = Nothing THEN [p EXCEPT !.pending = Batch(batch)]
    ELSE Refute([p EXCEPT !.pending.batch = batch, !.pending.known = TRUE],
                p.pending.sequence = batch.sequence /\ p.pending.index <= Len(batch.events))

(* Where a delivery stops: a cancellation keeps the complete alternatives. *)
Bound(p) ==
    IF p.pending = Nothing THEN 0
    ELSE LET events == p.pending.batch.events
             index == p.pending.index
         IN IF p.cancel
            THEN Max({index} \cup {i \in index + 1 .. Len(events) : events[i].kind = "end"})
            ELSE Len(events)

Unpushed(p) == p.pending # Nothing /\ p.pending.index < Bound(p)

(* Fault: any batch of a canceled run is the last.                         *)
AnyIsLast(batch) == batch.canceled

IsLast(batch) == batch.canceled /\ batch.drained

(* deliverPending and deliverCachedOutput; a batch that is the last of a   *)
(* canceled run is delivered as one.                                       *)
Deliver(p, cancel) ==
    LET last == p.pending # Nothing /\ IsLast(p.pending.batch)
        q == [p EXCEPT !.cancel = cancel \/ last]
    IN [q EXCEPT !.doing = IF ~q.cancel \/ Unpushed(q) THEN "Write" ELSE "Finish"]

(* Pushing goes on until the writes are many or the batch is at its end.   *)
PushOn(p) ==
    IF ~Unpushed(p) THEN [p EXCEPT !.doing = "Finish"]
    ELSE LET streams == Streams(p.stream, p.pending.batch.events, p.pending.index)
             to == PushedTo(streams, p.pending.index, Bound(p))
         IN [p EXCEPT !.stream = streams[to], !.pending.index = to,
                      !.doing = IF NeedsFlush(streams[to]) THEN "Write" ELSE "Finish"]

Store(step) == step /\ UNCHANGED <<server, stray, trouble, polls>>

Write ==
    /\ page.doing = "Write"
    /\ Store(Flush(page, FALSE, FALSE))
    /\ page' = PushOn(Flushed(page, FALSE))

ToServer(route) == [route |-> route, ack |-> IF route = "output" THEN page.ack ELSE 0]

(* Something thrown ends what is under way; a cancellation goes on after a *)
(* read, and a close is taken up again.                                    *)
Thrown(p) ==
    [p EXCEPT !.doing = "Idle", !.cancel = FALSE, !.more = FALSE, !.reply = Nothing,
              !.status = IF @ = "reading" THEN "stopped" ELSE @,
              !.stop = IF p.purpose = "read" \/ @ = "closing" THEN @ ELSE "no"]

(* The last delivery of a cancellation has no batch.                       *)
LastDelivery(p) == Deliver([p EXCEPT !.purpose = "last"], TRUE)

OnWithCancel(p) ==
    IF p.more THEN [p EXCEPT !.doing = "Output", !.purpose = "rest"] ELSE LastDelivery(p)

(* What is done once a batch is delivered, by readOutput and by cancel.    *)
Onwards(p, batch) ==
    CASE p.purpose = "read" ->
           IF batch.error THEN Thrown(p)
           ELSE [p EXCEPT !.doing = "Idle",
                          !.status = IF batch.canceled THEN "canceled"
                                     ELSE IF batch.done THEN "done" ELSE @]
      [] p.purpose = "first" -> OnWithCancel(p)
      [] p.purpose = "rest" -> IF batch.error THEN Thrown(p) ELSE OnWithCancel(p)
      [] p.purpose = "last" ->
           IF p.stop = "close" THEN [p EXCEPT !.doing = "SaveClosing", !.stop = "closing"]
           ELSE [p EXCEPT !.doing = "Idle", !.stop = "no"]

(* The whole batch is delivered and stored: it will be acknowledged.       *)
Finish ==
    /\ page.doing = "Finish"
    /\ Store(Flush(page, page.cancel, TRUE))
    /\ LET p == [Flushed(page, page.cancel) EXCEPT
                    !.status = IF page.cancel THEN "canceled" ELSE @]
           b == IF p.pending = Nothing THEN NoBatch ELSE p.pending.batch
           q == IF p.pending = Nothing THEN p
                ELSE Refute([p EXCEPT !.ack = b.sequence, !.pending = Nothing],
                            (b.done /\ ~b.canceled) => p.stream.current = Nothing)
       IN page' = Onwards([q EXCEPT !.cancel = FALSE], b)

-----------------------------------------------------------------------------
(* What the page begins on its own or is asked for by its user.            *)

Page(step) == step /\ UNCHANGED <<server, shelf, stray, trouble>>

(* A batch asked for now would bring nothing new.                          *)
NoNews ==
    /\ page.ack = server.batch.sequence
    /\ Drained(server)
    /\ server.ended = server.batch.done
    /\ server.canceled = server.batch.canceled

(* schedule and readOutput; a batch whose delivery failed is still there.  *)
Read ==
    /\ page.doing = "Idle" /\ page.status = "reading" /\ page.stop = "no"
    /\ LET p == [page EXCEPT !.purpose = "read"]
           cached == p.pending # Nothing /\ p.pending.known
       IN /\ Page(page' = IF cached THEN Deliver(p, FALSE) ELSE [p EXCEPT !.doing = "Output"])
          /\ IF ~cached /\ NoNews THEN polls < MaxPoll /\ polls' = polls + 1
             ELSE UNCHANGED polls

Resume ==
    /\ page.doing = "Idle" /\ page.status = "stopped" /\ page.stop = "no"
    /\ ~server.canceled
    /\ Page(page' = [page EXCEPT !.status = "reading"])
    /\ UNCHANGED polls

(* cancel and closeRun stop the reading and wait for what is under way.    *)
AskToStop(stop) ==
    /\ page.doing \notin {"Away", "Over", "Status"} /\ page.stop = "no"
    /\ Page(page' = [page EXCEPT !.stop = stop,
                                 !.status = IF @ = "reading" THEN "stopped" ELSE @])
    /\ UNCHANGED polls

BeginStop ==
    /\ page.doing = "Idle" /\ page.stop # "no"
    /\ Page(page' = [page EXCEPT !.purpose = "cancel",
                                 !.doing = IF page.stop = "closing" THEN "SaveClosing" ELSE "Cancel"])
    /\ UNCHANGED polls

(* NotebookConnection.lifecycle saves the phase after the run is stopped,  *)
(* and before it is closed.                                                *)
SaveCanceling ==
    /\ page.doing = "SaveCanceling"
    /\ Store(shelf' = [shelf EXCEPT !.row.phase = "canceling"])
    /\ LET reply == page.reply
           p == IF reply.batch.sequence \in {0, page.ack} THEN page
                ELSE Attached(page, reply.batch)
           q == Refute([p EXCEPT !.status = "canceled", !.reply = Nothing, !.purpose = "first",
                                 !.more = reply.more \/ (p.pending # Nothing /\ ~p.pending.batch.drained)],
                       p.pending = Nothing \/ p.pending.known)
       IN page' = IF q.pending = Nothing THEN OnWithCancel(q) ELSE Deliver(q, ~q.more)

SaveClosing ==
    /\ page.doing = "SaveClosing"
    /\ Store(shelf' = [shelf EXCEPT !.row.phase = "closing"])
    /\ page' = [page EXCEPT !.doing = "Close"]

(* NotebookConnection.forget.                                              *)
Drop ==
    /\ page.doing = "Drop"
    /\ Store(shelf' = IF shelf.row.current = Nothing THEN shelf
                      ELSE [shelf EXCEPT !.parts = {w \in @ : w.number # shelf.row.current.number},
                                         !.row.current = Nothing])
    /\ page' = [page EXCEPT !.doing = "Forget"]

Forget ==
    /\ page.doing = "Forget"
    /\ Store(shelf' = [shelf EXCEPT !.row = Nothing])
    /\ page' = Over

(* restore and loadRun.                                                    *)
Restored(row) ==
    [NewSession EXCEPT
       !.ack = row.ack,
       !.stream = [NewStream EXCEPT !.total = row.total, !.current = row.current],
       !.pending = IF row.sequence = 0 THEN Nothing
                   ELSE [kind |-> "batch", known |-> FALSE, batch |-> NoBatch,
                         sequence |-> row.sequence, index |-> row.index]]

Open ==
    /\ page.doing = "Away"
    /\ Page(page' =
          LET p == Restored(shelf.row) IN
          IF shelf.row = Nothing THEN Over
          ELSE CASE shelf.row.phase = "closing" ->
                      [p EXCEPT !.doing = "SaveClosing", !.stop = "closing", !.purpose = "cancel"]
                 [] shelf.row.phase = "canceled" -> [p EXCEPT !.status = "canceled"]
                 [] OTHER -> [p EXCEPT !.doing = "Status", !.purpose = "cancel"])
    /\ UNCHANGED polls

(* A run that is not canceled is read on, also when it is done.            *)
Loaded(p, reply) ==
    IF reply.canceled \/ shelf.row.phase = "canceling"
    THEN [p EXCEPT !.status = "canceled", !.stop = "cancel", !.doing = "Cancel"]
    ELSE [p EXCEPT !.doing = "Idle"]

-----------------------------------------------------------------------------
(* Answers, and all that may go wrong.                                     *)

RouteOf == [Output |-> "output", Cancel |-> "cancel", Status |-> "status", Close |-> "close"]

Asking == page.doing \in DOMAIN RouteOf
Question == ToServer(RouteOf[page.doing])

Told(p, reply) ==
    IF ~reply.ok THEN Thrown(p)
    ELSE CASE p.doing = "Output" ->
                LET q == Attached(p, reply.batch) IN
                IF p.purpose = "read" THEN Deliver(q, FALSE)
                ELSE Deliver([q EXCEPT !.more = ~reply.batch.drained], reply.batch.drained)
           [] p.doing = "Cancel" -> [p EXCEPT !.doing = "SaveCanceling", !.reply = reply]
           [] p.doing = "Status" -> Loaded(p, reply)
           [] p.doing = "Close" -> [p EXCEPT !.doing = "Drop"]

Answered ==
    /\ Asking
    /\ LET h == Handled(server, Question) IN
       /\ server' = h.server
       /\ page' = Told(page, h.reply)
    /\ UNCHANGED <<shelf, stray, trouble, polls>>

Trouble == trouble < MaxTrouble /\ trouble' = trouble + 1

(* The fetch fails after the request was served, before, or never mind.    *)
FetchFails ==
    /\ Asking /\ Trouble
    /\ page' = Thrown(page)
    /\ \/ server' = Handled(server, Question).server /\ UNCHANGED stray
       \/ stray' = stray \cup {Question} /\ UNCHANGED server
    /\ UNCHANGED <<shelf, polls>>

ReadFails ==
    /\ page.doing = "Output" /\ Trouble
    /\ page.ack = server.batch.sequence /\ ~server.gone /\ ~server.closing
    /\ server' = OutputUnreadable(server).server
    /\ page' = Thrown(page)
    /\ UNCHANGED <<shelf, stray, polls>>

StoreFails ==
    /\ page.doing \in {"Write", "Finish", "SaveCanceling", "SaveClosing", "Drop", "Forget"}
    /\ Trouble
    /\ page' = Thrown(page)
    /\ UNCHANGED <<server, shelf, stray, polls>>

Leave ==
    /\ page.doing \notin {"Away", "Over"} /\ Trouble
    /\ page' = Away
    /\ stray' = IF Asking THEN stray \cup {Question} ELSE stray
    /\ UNCHANGED <<server, shelf, polls>>

ServeStray ==
    /\ \E q \in stray :
          /\ stray' = stray \ {q}
          /\ server' = Handled(server, q).server
    /\ UNCHANGED <<page, shelf, trouble, polls>>

PageStep ==
    \/ Write \/ Finish \/ Read \/ BeginStop
    \/ SaveCanceling \/ SaveClosing \/ Drop \/ Forget
    \/ Answered

DeliveryNext ==
    \/ DriveOne \/ Exhaust \/ AppendFails \/ ReclaimRun
    \/ PageStep \/ Open \/ Resume \/ AskToStop("cancel") \/ AskToStop("close")
    \/ FetchFails \/ ReadFails \/ StoreFails \/ Leave \/ ServeStray

DeliverySpec == DeliveryInit /\ [][DeliveryNext]_deliveryVars

-----------------------------------------------------------------------------
(* The page goes on with what it does (PageBusy is ENABLED of PageStep,    *)
(* which is cheaper to evaluate).  Its user opens it again, reads on after *)
(* a failure, and closes a run that was canceled, time and again.          *)
PageBusy ==
    \/ page.doing \notin {"Away", "Over", "Idle"}
    \/ page.doing = "Idle" /\ (page.stop # "no" \/ (page.status = "reading" /\ (NoNews => polls < MaxPoll)))

DeliveryFairness ==
    /\ []<>~PageBusy \/ []<><<PageStep>>_deliveryVars
    /\ WF_deliveryVars(Open)
    /\ WF_deliveryVars(Resume)
    /\ WF_deliveryVars(server.canceled /\ AskToStop("close"))

Saved == {w.number : w \in shelf.answers}

(* The answer n and its parts as the engine brought them out.              *)
AnswerOf(n) == [store |-> "answers", number |-> n, alternative |-> n,
                slot |-> 0, size |-> PartsSoFar(server.emitted, n)]
PartsOf(n, parts) == {[store |-> "parts", number |-> n, slot |-> i, alternative |-> n] :
                         i \in 0 .. parts - 1}

(* The saved answers are the first complete alternatives of the run, each  *)
(* with all its parts; of other alternatives only the one under way has    *)
(* left parts, those the row accounts for; a run found done has them all,  *)
(* and so has one that is closed, of which no parts are left over.  No     *)
(* check of the page ever fails.                                           *)
ArchiveIsExact ==
    LET row == shelf.row
        total == Cardinality(Saved)
        open == row # Nothing /\ row.current # Nothing
    IN /\ total <= Complete
       /\ shelf.answers = {AnswerOf(n) : n \in 1 .. total}
       /\ shelf.parts =
             (UNION {PartsOf(n, PartsSoFar(server.emitted, n)) : n \in 1 .. total}) \cup
             (IF open THEN PartsOf(total + 1, row.current.parts) ELSE {})
       /\ (row = Nothing \/ row.phase = "closing" \/ (row.phase = "done" /\ row.sequence = 0)) =>
             /\ total = Complete
             /\ ~open
       /\ page.doing \notin {"Away", "Over"} => ~page.stream.refuted

(* An alternative that is complete is saved in the end, through failures,  *)
(* reloads and the cancellation of the run.                                *)
AnswersArrive == \A n \in 1 .. MaxAlternative : Complete >= n ~> n \in Saved
=============================================================================
