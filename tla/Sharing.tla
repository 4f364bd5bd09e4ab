------------------------------- MODULE Sharing -------------------------------
(***************************************************************************)
(* The shared restrictions of src/graph/restriction.rs: matchers that want *)
(* the rows of one bucket of an index with given values at other ports     *)
(* share one producer, which reads the bucket once and sorts its rows into *)
(* partitions by those values.                                             *)
(*                                                                         *)
(* Readers come at any time, go on at any pace and leave at any time; any  *)
(* of them that finds no row of its own yet reads one for everybody.  The  *)
(* registry that makes producers known is bounded and cleared at each      *)
(* collection, and a producer its last reader left half way is abandoned.  *)
(* A large bucket is shared in chunks, each with a producer of its own.    *)
(*                                                                         *)
(* Readers pin their roots, so a bucket is a value here: the sequence of   *)
(* its rows.  Two roots share a subtree when its rows are the same.        *)
(***************************************************************************)
EXTENDS Naturals, Sequences, FiniteSets, SequencesExt

CONSTANTS
    Reader,     \* the readers, each of one query
    Query,      \* what may be wanted: records with
                \*    bucket   a sequence of rows: occ, args
                \*    mask     the ports restricted
                \*    values   what they are restricted to
    Capacity,   \* CAPACITY: producers, and plans, in the registry
    PrefixRows, \* PREFIX_ROWS: rows of a chunk
    MaxClear    \* bound: collections

VARIABLES
    cache,      \* Cache, and all producers and plans there ever were:
                \*    entries  sequence of producers: bucket, mask, rows (occ
                \*             and next), parts, readers, done, abandoned
                \*    registry of entries, the oldest first
                \*    plans    sequence of plans: bucket, mask, pending,
                \*             chunks, readers, done, abandoned
                \*    planned  registry of plans, the oldest first
    readers,    \* Subscriber: phase, query, plan, position, entry, last
    told,       \* history: the occurrences each reader found
    clears      \* collections so far

shareVars == <<cache, readers, told, clears>>

-----------------------------------------------------------------------------

Projected(args, mask) == [p \in mask |-> args[p]]

(* What a reader is to find.                                               *)
Wanted(q) ==
    LET rows == SelectSeq(q.bucket, LAMBDA row : Projected(row.args, q.mask) = q.values)
    IN [i \in DOMAIN rows |-> rows[i].occ]

NewEntry(bucket, mask) ==
    [bucket |-> bucket, mask |-> mask, rows |-> <<>>, parts |-> <<>>,
     readers |-> 1, done |-> FALSE, abandoned |-> FALSE]

NewPlan(bucket, mask) ==
    [bucket |-> bucket, mask |-> mask, pending |-> <<bucket>>, chunks |-> <<>>,
     readers |-> 1, done |-> FALSE, abandoned |-> FALSE]

(* Fault: an abandoned producer is joined.                                 *)
IsForAny(producer, bucket, mask) == producer.bucket = bucket /\ producer.mask = mask

IsFor(producer, bucket, mask) ==
    producer.bucket = bucket /\ producer.mask = mask /\ ~producer.abandoned

(* Those of a registry that can be joined, the oldest first.               *)
Known(registry, producers, bucket, mask) ==
    SelectSeq(registry, LAMBDA i : IsFor(producers[i], bucket, mask))

(* The registry evicts its oldest member for a new one.                    *)
Admitted(registry, i) == Append(IF Len(registry) = Capacity THEN Tail(registry) ELSE registry, i)

(* Drop for RowSubscriber.                                                 *)
LeftEntry(entry) ==
    [entry EXCEPT !.readers = @ - 1, !.abandoned = @ \/ (entry.readers = 1 /\ ~entry.done)]

Left(entries, leases) == FoldSeq(LAMBDA i, es : [es EXCEPT ![i] = LeftEntry(@)], entries, leases)

(* A plan that nobody reads and no registry knows is dropped, and with it  *)
(* its leases on producers.                                                *)
DropPlans(c) ==
    LET gone == {i \in DOMAIN c.plans : /\ c.plans[i].readers = 0
                                        /\ i \notin Range(c.planned)
                                        /\ c.plans[i].chunks # <<>>}
        leases == FlattenSeq([i \in DOMAIN c.plans |-> IF i \in gone THEN c.plans[i].chunks ELSE <<>>])
    IN [c EXCEPT !.entries = Left(@, leases),
                 !.plans = [i \in DOMAIN @ |-> IF i \in gone THEN [@[i] EXCEPT !.chunks = <<>>] ELSE @[i]]]

(* Graph::subscribe_prefix: the producer for some rows, known or new.      *)
Subscribed(c, bucket, mask) ==
    LET known == Known(c.registry, c.entries, bucket, mask)
        new == Len(c.entries) + 1
    IN IF known # <<>>
       THEN [cache |-> [c EXCEPT !.entries[known[1]].readers = @ + 1], entry |-> known[1]]
       ELSE [cache |-> [c EXCEPT !.entries = Append(@, NewEntry(bucket, mask)),
                                 !.registry = Admitted(@, new)],
             entry |-> new]

(* The plan for the chunks of a large bucket, known or new.                *)
Planned(c, bucket, mask) ==
    LET known == Known(c.planned, c.plans, bucket, mask)
        new == Len(c.plans) + 1
    IN IF known # <<>>
       THEN [cache |-> [c EXCEPT !.plans[known[1]].readers = @ + 1], plan |-> known[1]]
       ELSE [cache |-> DropPlans([c EXCEPT !.plans = Append(@, NewPlan(bucket, mask)),
                                           !.planned = Admitted(@, new)]),
             plan |-> new]

-----------------------------------------------------------------------------

NoReader == [phase |-> "Idle", plan |-> 0, position |-> 1, entry |-> 0, last |-> 0]

ShareInit ==
    /\ cache = [entries |-> <<>>, registry |-> <<>>, plans |-> <<>>, planned |-> <<>>]
    /\ readers = [r \in Reader |-> NoReader]
    /\ told = [r \in Reader |-> <<>>]
    /\ clears = 0

(* Graph::restriction.                                                     *)
Subscribe(r) ==
    /\ readers[r].phase = "Idle"
    /\ \E q \in Query :
          LET opened == [NoReader EXCEPT !.phase = "Open"] @@ [query |-> q]
              direct == Subscribed(cache, q.bucket, q.mask)
              plan == Planned(cache, q.bucket, q.mask)
          IN IF Len(q.bucket) <= PrefixRows
             THEN /\ cache' = direct.cache
                  /\ readers' = [readers EXCEPT ![r] = [opened EXCEPT !.entry = direct.entry]]
             ELSE /\ cache' = plan.cache
                  /\ readers' = [readers EXCEPT ![r] = [opened EXCEPT !.plan = plan.plan]]
    /\ UNCHANGED <<told, clears>>

Open(r) == readers[r].phase = "Open"
Entry(r) == cache.entries[readers[r].entry]
Plan(r) == cache.plans[readers[r].plan]
Values(r) == readers[r].query.values

(* The next row of the reader among those produced, 0 for none.            *)
NextRowOf(r) ==
    IF readers[r].last # 0 THEN Entry(r).rows[readers[r].last].next
    ELSE IF Values(r) \in DOMAIN Entry(r).parts THEN Entry(r).parts[Values(r)].first
    ELSE 0

Tell(r) ==
    /\ Open(r) /\ readers[r].entry # 0 /\ NextRowOf(r) # 0
    /\ readers' = [readers EXCEPT ![r].last = NextRowOf(r)]
    /\ told' = [told EXCEPT ![r] = Append(@, Entry(r).rows[NextRowOf(r)].occ)]
    /\ UNCHANGED <<cache, clears>>

AtFrontier(r) == Open(r) /\ readers[r].entry # 0 /\ NextRowOf(r) = 0

(* One more row, linked behind the last one with its values.               *)
Produced(entry) ==
    LET row == entry.bucket[Len(entry.rows) + 1]
        values == Projected(row.args, entry.mask)
        new == Len(entry.rows) + 1
        rows == Append(entry.rows, [occ |-> row.occ, next |-> 0])
    IN IF values \in DOMAIN entry.parts
       THEN [entry EXCEPT !.rows = [rows EXCEPT ![entry.parts[values].last].next = new],
                          !.parts[values].last = new]
       ELSE [entry EXCEPT !.rows = rows,
                          !.parts = @ @@ (values :> [first |-> new, last |-> new])]

Produce(r) ==
    /\ AtFrontier(r) /\ ~Entry(r).done
    /\ cache' = [cache EXCEPT !.entries[readers[r].entry] =
          IF Len(@.rows) < Len(@.bucket) THEN Produced(@) ELSE [@ EXCEPT !.done = TRUE]]
    /\ UNCHANGED <<readers, told, clears>>

(* Nothing more will be produced: a chunk is left, a reader of rows ends.  *)
Finished(r) ==
    /\ AtFrontier(r) /\ Entry(r).done
    /\ IF readers[r].plan = 0
       THEN /\ readers' = [readers EXCEPT ![r].phase = "Done"]
            /\ UNCHANGED cache
       ELSE /\ readers' = [readers EXCEPT ![r].entry = 0, ![r].last = 0]
            /\ cache' = [cache EXCEPT !.entries = Left(@, <<readers[r].entry>>)]
    /\ UNCHANGED <<told, clears>>

-----------------------------------------------------------------------------
(* Subscriber::tick between the chunks of a plan.                          *)

BetweenChunks(r) == Open(r) /\ readers[r].entry = 0

(* A chunk that is there is read with the values of the reader.            *)
OpenChunk(r) ==
    /\ BetweenChunks(r)
    /\ readers[r].position <= Len(Plan(r).chunks)
    /\ LET chunk == Plan(r).chunks[readers[r].position]
       IN /\ cache' = [cache EXCEPT !.entries[chunk].readers = @ + 1]
          /\ readers' = [readers EXCEPT ![r].entry = chunk, ![r].position = @ + 1]
    /\ UNCHANGED <<told, clears>>

(* Store::split_prefix: the halves of more rows than a chunk may have.     *)
Halves(rows) ==
    LET middle == (Len(rows) + 1) \div 2
    IN <<SubSeq(rows, middle + 1, Len(rows)), SubSeq(rows, 1, middle)>>

(* A subtree is split, or becomes a chunk that the plan leases.            *)
ExtendPlan(r) ==
    /\ BetweenChunks(r)
    /\ readers[r].position > Len(Plan(r).chunks)
    /\ Plan(r).pending # <<>>
    /\ LET rows == Last(Plan(r).pending)
           popped == [cache EXCEPT !.plans[readers[r].plan].pending = Front(@)]
           leased == Subscribed(popped, rows, Plan(r).mask)
       IN cache' =
             IF Len(rows) > PrefixRows
             THEN [popped EXCEPT !.plans[readers[r].plan].pending = @ \o Halves(rows)]
             ELSE [leased.cache EXCEPT !.plans[readers[r].plan].chunks = Append(@, leased.entry)]
    /\ UNCHANGED <<readers, told, clears>>

EndOfPlan(r) ==
    /\ BetweenChunks(r)
    /\ readers[r].position > Len(Plan(r).chunks)
    /\ Plan(r).pending = <<>>
    /\ cache' = [cache EXCEPT !.plans[readers[r].plan].done = TRUE]
    /\ readers' = [readers EXCEPT ![r].phase = "Done"]
    /\ UNCHANGED <<told, clears>>

-----------------------------------------------------------------------------

(* Drop for Prefixes: a plan left half way gives up its leases.            *)
LeftPlan(c, i) ==
    LET plan == c.plans[i]
        given == plan.readers = 1 /\ ~plan.done
        left == [plan EXCEPT !.readers = @ - 1]
    IN DropPlans(
          IF given
          THEN [c EXCEPT !.entries = Left(@, plan.chunks),
                         !.plans[i] = [left EXCEPT !.pending = <<>>, !.chunks = <<>>,
                                                   !.abandoned = TRUE]]
          ELSE [c EXCEPT !.plans[i] = left])

(* A matcher drops its source, at its end or at any time before.           *)
Leave(r) ==
    /\ readers[r].phase \in {"Open", "Done"}
    /\ readers' = [readers EXCEPT ![r] =
          [@ EXCEPT !.phase = IF @ = "Done" THEN "Served" ELSE "Left", !.plan = 0, !.entry = 0,
                    !.last = 0, !.position = 1]]
    /\ LET unplanned == IF readers[r].plan = 0 THEN cache ELSE LeftPlan(cache, readers[r].plan)
       IN cache' = IF readers[r].entry = 0 THEN unplanned
                   ELSE [unplanned EXCEPT !.entries = Left(@, <<readers[r].entry>>)]
    /\ UNCHANGED <<told, clears>>

(* Cache::clear, at the start of a collection.                             *)
Clear ==
    /\ clears < MaxClear
    /\ clears' = clears + 1
    /\ cache' = DropPlans([cache EXCEPT !.registry = <<>>, !.planned = <<>>])
    /\ UNCHANGED <<readers, told>>

Tick(r) ==
    Tell(r) \/ Produce(r) \/ Finished(r) \/ OpenChunk(r) \/ ExtendPlan(r) \/ EndOfPlan(r)

ShareNext ==
    \/ \E r \in Reader : Subscribe(r) \/ Tick(r) \/ Leave(r)
    \/ Clear

-----------------------------------------------------------------------------

(* Who holds a producer: readers at it, and plans that lease it.           *)
Holders(i) ==
    Cardinality({r \in Reader : readers[r].entry = i})
      + FoldSeq(LAMBDA plan, n : n + Len(SelectSeq(plan.chunks, LAMBDA chunk : chunk = i)),
                0, cache.plans)

(* A reader finds the rows it wants, in order and each once, whoever reads *)
(* them for it, whichever producers are evicted, cleared or left half way  *)
(* meanwhile, and whatever root the other readers have; and a producer     *)
(* with a reader or a lease is never abandoned, so it has its cursor       *)
(* ("live subscriber").                                                    *)
SharedRowsAreExact ==
    /\ \A r \in Reader : readers[r].phase # "Idle" => IsPrefix(told[r], Wanted(readers[r].query))
    /\ \A r \in Reader :
          readers[r].phase \in {"Done", "Served"} => told[r] = Wanted(readers[r].query)
    /\ \A i \in DOMAIN cache.entries :
          /\ cache.entries[i].readers = Holders(i)
          /\ Holders(i) > 0 => ~cache.entries[i].abandoned
=============================================================================
