-------------------------------- MODULE Store --------------------------------
(***************************************************************************)
(* The persistent maps of src/store.rs.  A root is a tree of shared        *)
(* records.  A write copies the records that somebody else can reach and   *)
(* changes the others in place; a record whose last reference is dropped   *)
(* leaves its children in a queue; a collector visits what a collection of *)
(* roots reaches, save what an archive has told it before, and records it  *)
(* did not visit are stale; subtrees for a prefix are remembered weakly.   *)
(*                                                                         *)
(* The caller keeps roots in slots, saves some for good, and works with    *)
(* one cursor or filter and one collector at a time, in any order.         *)
(***************************************************************************)
EXTENDS Naturals, SequencesExt

CONSTANTS
    Width,          \* 256: the bits of a key
    PageBit,        \* PAGE_BIT: from this bit on, keys share a page
    Keys,           \* the keys the caller uses
    Values,         \* what it inserts
    Slots,          \* where the caller keeps roots
    Inputs,         \* what the caller writes in batches
    Ranges,         \* the ranges it reads
    Frontiers,      \* the frontiers it filters along, None to filter everything
    MemoLimit,      \* PREFIX_MEMO_LIMIT
    Answers,        \* what it replaces values with
    First,          \* what the first map holds
    MaxCalls,       \* bound: calls that write, copy, drop, save, open or collect
    MaxSaved,       \* bound: roots saved
    None            \* an empty Option

VARIABLES
    store,     \* Store: its records and tables
    held,      \* the root in each slot, 0 for the empty one
    maps,      \* what each slot is to hold
    reader,    \* a Cursor or a Filter
    collector, \* Collector
    archive,   \* Archive of engine/collection.rs, and the roots saved
    told,      \* the values a collector has returned, live and archived
    calls      \* the number of calls

vars == <<store, held, maps, reader, collector, archive, told, calls>>

-----------------------------------------------------------------------------
(* Keys and records.                                                       *)

Right(k, bit) == (k \div 2 ^ (Width - 1 - bit)) % 2 = 1

Difference(a, b) ==
    IF a = b THEN Width
    ELSE CHOOSE i \in 0 .. Width - 1 :
            Right(a, i) # Right(b, i) /\ \A j \in 0 .. i - 1 : Right(a, j) = Right(b, j)

Least(a, b) == IF a < b THEN a ELSE b

(* The keys that share the bits before this one.                           *)
Bounds(prefix, bit) ==
    LET size == 2 ^ (Width - bit)
        low == (prefix \div size) * size
    IN low .. low + size - 1

(* A leaf and a page have entries, a branch has children.  Bits of the     *)
(* prefix from `bit' on are never read and left out.                       *)
Node(prefix, bit, entries, left, right) ==
    [prefix |-> Min(Bounds(prefix, bit)), bit |-> bit, entries |-> entries,
     left |-> left, right |-> right]

Packed(entries) ==
    LET first == Min(DOMAIN entries)
    IN Node(first, IF Cardinality(DOMAIN entries) = 1 THEN Width ELSE PageBit, entries, 0, 0)

IsBranch(r) == r.bit < PageBit

LeafCount(s, node) ==
    LET leaves(n) == IF n = 0 THEN 0 ELSE s.nodes[n].leaves
    IN IF IsBranch(node) THEN leaves(node.left) + leaves(node.right)
       ELSE Cardinality(DOMAIN node.entries)

Get(s, n, key) ==
    LET found[m \in Nat] ==
            LET r == s.nodes[m] IN
            IF m = 0 THEN None
            ELSE IF IsBranch(r) THEN found[IF Right(key, r.bit) THEN r.right ELSE r.left]
            ELSE IF key \in DOMAIN r.entries THEN r.entries[key] ELSE None
    IN found[n]

-----------------------------------------------------------------------------
(* References.  pins: the records that the caller refers to, but for the   *)
(* reference that the operation under way was given.                       *)

EmptyStore ==
    [nodes |-> <<>>, queue |-> <<>>, memo |-> <<>>, pins |-> {},
     epoch |-> 0, completed |-> 0, archiveEpoch |-> 1, archiveCompleted |-> 1]

Shared(s, n) ==
    \/ n \in s.pins
    \/ \E m \in DOMAIN s.nodes : n \in {s.nodes[m].left, s.nodes[m].right}
    \/ \E i \in DOMAIN s.queue : n \in ToSet(s.queue[i])

(* What the memo witnesses: neither reused nor changed in place.           *)
Weak(s) == UNION {{p[1], s.memo[p]} : p \in DOMAIN s.memo} \ {0}

(* Drop of a reference: the last one leaves the children to release_tick.  *)
Drop(s, n) ==
    IF n = 0 \/ Shared(s, n) THEN s
    ELSE LET r == s.nodes[n] IN
         [s EXCEPT !.nodes = [m \in DOMAIN @ \ {n} |-> @[m]],
                   !.queue = IF r.left = 0 /\ r.right = 0 THEN @
                             ELSE Append(@, <<r.left, r.right>>)]

Dropped(s, ns) == FoldLeft(Drop, s, SetToSortSeq(ns, <))

ReleaseTick(s) ==
    LET pair == Last(s.queue)
        popped == [s EXCEPT !.queue = Front(@)]
        left == Drop([popped EXCEPT !.pins = @ \cup {pair[2]}], pair[1])
    IN Drop([left EXCEPT !.pins = s.pins], pair[2])

Allocate(s, node) ==
    LET n == CHOOSE m \in 1 .. Cardinality(DOMAIN s.nodes \cup Weak(s)) + 1 :
                m \notin DOMAIN s.nodes \cup Weak(s)
        record == node @@ [leaves |-> LeafCount(s, node), marked |-> s.epoch, archived |-> 0]
    IN [st |-> [s EXCEPT !.nodes = @ @@ (n :> record)], root |-> n]

Copied(s, n) ==
    LET r == s.nodes[n]
        copy == Allocate(s, Node(r.prefix, r.bit, r.entries, r.left, r.right))
    IN [copy EXCEPT !.st = Drop(@, n)]

(* Fault: a record is changed in place though others refer to it weakly.   *)
UniqueOverWeak(s, n) ==
    IF Shared(s, n) THEN Copied(s, n)
    ELSE [st |-> [s EXCEPT !.nodes[n].marked = s.epoch, !.nodes[n].archived = 0], root |-> n]

(* The record itself when nobody else refers to it, or else a copy.        *)
Unique(s, n) ==
    IF Shared(s, n) \/ n \in Weak(s) THEN Copied(s, n)
    ELSE [st |-> [s EXCEPT !.nodes[n].marked = s.epoch, !.nodes[n].archived = 0], root |-> n]

Empty(s) == [st |-> s, root |-> 0]

-----------------------------------------------------------------------------
(* Writes: functions from keys to values, None where a key is removed.     *)

(* The record n, now with these entries.                                   *)
Repacked(s, n, entries) ==
    IF entries = <<>> THEN Empty(Drop(s, n))
    ELSE [st |-> [s EXCEPT !.nodes[n] = Packed(entries) @@
                     [@ EXCEPT !.leaves = Cardinality(DOMAIN entries)]],
          root |-> n]

Written(entries, w) ==
    LET gone == {k \in DOMAIN w : w[k] = None}
    IN [k \in (DOMAIN entries \cup DOMAIN w) \ gone |-> IF k \in DOMAIN w THEN w[k] ELSE entries[k]]

(* Store::page_batch.                                                      *)
PageBatch(s, n, w) ==
    LET u == Unique(s, n)
    IN IF n # 0 THEN Repacked(u.st, u.root, Written(u.st.nodes[u.root].entries, w))
       ELSE IF Written(<<>>, w) = <<>> THEN Empty(s)
       ELSE Allocate(s, Packed(Written(<<>>, w)))

(* A branch with these children; with one, that child.                     *)
Joined(s, key, bit, left, right) ==
    IF left = 0 THEN [st |-> s, root |-> right]
    ELSE IF right = 0 THEN [st |-> s, root |-> left]
    ELSE Allocate(s, Node(key, bit, <<>>, left, right))

(* The children are taken out of a branch and put back.                    *)
Taken(s, n) == [s EXCEPT !.nodes[n].left = 0, !.nodes[n].right = 0]

Refilled(s, n, left, right) ==
    IF left = 0 THEN [st |-> Drop(s, n), root |-> right]
    ELSE IF right = 0 THEN [st |-> Drop(s, n), root |-> left]
    ELSE [st |-> [s EXCEPT !.nodes[n] =
                     [@ EXCEPT !.left = left, !.right = right,
                               !.leaves = s.nodes[left].leaves + s.nodes[right].leaves]],
          root |-> n]

RECURSIVE InsertNode(_, _, _, _), RemoveNode(_, _, _), BatchNode(_, _, _)

(* A change of the child on the side of the key.                           *)
Inside(s, n, key, Change(_, _)) ==
    LET u == Unique(s, n)
        r == u.st.nodes[u.root]
        side == Right(key, r.bit)
        v == Change(Taken(u.st, u.root), IF side THEN r.right ELSE r.left)
    IN IF side THEN Refilled(v.st, u.root, r.left, v.root)
               ELSE Refilled(v.st, u.root, v.root, r.right)

InsertNode(s, n, key, value) ==
    LET r == s.nodes[n]
        split == Difference(r.prefix, key)
        new == Allocate(s, Packed(key :> value))
    IN IF n = 0 THEN new
       ELSE IF ~IsBranch(r) /\ split >= PageBit THEN PageBatch(s, n, key :> value)
       ELSE IF split < r.bit
       THEN IF Right(key, split) THEN Joined(new.st, key, split, n, new.root)
                                 ELSE Joined(new.st, key, split, new.root, n)
       ELSE Inside(s, n, key, LAMBDA t, c : InsertNode(t, c, key, value))

RemoveNode(s, n, key) ==
    IF IsBranch(s.nodes[n]) THEN Inside(s, n, key, LAMBDA t, c : RemoveNode(t, c, key))
    ELSE IF s.nodes[n].bit = Width THEN Empty(Drop(s, n))
    ELSE PageBatch(s, n, key :> None)

Insert(s, n, key, value) ==
    IF Get(s, n, key) = value THEN [st |-> s, root |-> n] ELSE InsertNode(s, n, key, value)

RemoveFrom(s, n, key) ==
    IF Get(s, n, key) = None THEN [st |-> s, root |-> n] ELSE RemoveNode(s, n, key)

(* Store::batch_node; every removal is of a key that is there.             *)
BatchNode(s, n, w) ==
    LET r == s.nodes[n]
        low == Min(DOMAIN w)
        bit == IF n = 0 THEN Width ELSE r.bit
        split == Least(Least(bit, IF n = 0 THEN Width ELSE Difference(r.prefix, low)),
                       Difference(low, Max(DOMAIN w)))
        side(right) == [k \in {q \in DOMAIN w : Right(q, split) = right} |-> w[k]]
        (* The subtree is on one side of the new branch.                   *)
        over == n # 0 /\ Right(r.prefix, split)
        a == BatchNode(s, IF over THEN 0 ELSE n, side(FALSE))
        b == BatchNode(a.st, IF over THEN n ELSE 0, side(TRUE))
        (* The branch is at this bit already.                              *)
        u == Unique(s, n)
        c == BatchNode(Taken(u.st, u.root), r.left, side(FALSE))
        d == BatchNode(c.st, r.right, side(TRUE))
    IN IF w = <<>> THEN [st |-> s, root |-> n]
       ELSE IF n # 0 /\ r.leaves = Cardinality(DOMAIN w) /\ \A k \in DOMAIN w : w[k] = None
       THEN Empty(Drop(s, n))
       ELSE IF split >= PageBit THEN PageBatch(s, n, w)
       ELSE IF split = bit THEN Refilled(d.st, u.root, c.root, d.root)
       ELSE Joined(b.st, low, split, a.root, b.root)

(* The last write of a key counts.                                         *)
Coalesced(input) ==
    FoldLeft(LAMBDA w, p : (p[1] :> p[2]) @@ w, <<>>, input)

Batch(s, n, input) ==
    LET last == Coalesced(input)
        changes == {k \in DOMAIN last : Get(s, n, k) # last[k]}
    IN BatchNode(s, n, [k \in changes |-> last[k]])

-----------------------------------------------------------------------------
(* Subtrees by prefix.                                                     *)

(* Store::prefix_root_uncached.                                            *)
PrefixRootUncached(s, n, prefix, bits) ==
    LET down[m \in Nat] ==
            LET r == s.nodes[m] IN
            IF m = 0 THEN 0
            ELSE IF Difference(r.prefix, prefix) < Least(r.bit, bits) THEN 0
            ELSE IF r.bit >= bits THEN m
            ELSE down[IF Right(prefix, r.bit) THEN r.right ELSE r.left]
    IN down[n]

Contained(s, n) ==
    \/ n = 0
    \/ n \in DOMAIN s.nodes /\ \/ s.nodes[n].marked >= s.completed
                               \/ s.nodes[n].archived >= s.archiveCompleted

(* Store::prefix_root: a remembered result counts while it is alive.       *)
PrefixRoot(s, n, prefix, bits) ==
    LET key == <<n, Min(Bounds(prefix, bits)), bits>>
        known == key \in DOMAIN s.memo /\ Contained(s, s.memo[key])
        result == PrefixRootUncached(s, n, prefix, bits)
        kept == IF Cardinality(DOMAIN s.memo) = MemoLimit THEN <<>> ELSE s.memo
    IN IF n = 0 THEN Empty(s)
       ELSE IF known THEN [st |-> s, root |-> s.memo[key]]
       ELSE [st |-> [s EXCEPT !.memo = (key :> result) @@ kept], root |-> result]

-----------------------------------------------------------------------------
(* Cursor: the entries from low to high, in order, one per call.           *)

NewCursor(n, low, high) ==
    [kind |-> "Cursor", root |-> n, low |-> low, high |-> high, current |-> n, run |-> <<>>,
     pending |-> <<>>, yielded |-> <<>>, map |-> <<>>]

InRange(c, k) == c.low <= k /\ k <= c.high

RECURSIVE CursorNext(_, _)

(* The cursor at its next entry, or at the end.                            *)
CursorNext(s, c) ==
    LET top == IF c.current # 0 THEN c.current ELSE Last(c.pending)
        r == s.nodes[top]
        rest == IF c.current # 0 THEN c.pending ELSE Front(c.pending)
        key == Min(DOMAIN c.run)
        range == {k \in DOMAIN r.entries : InRange(c, k)}
        meets == \E k \in Bounds(r.prefix, r.bit) : InRange(c, k)
    IN IF c.run # <<>>
       THEN [c EXCEPT !.run = [k \in DOMAIN @ \ {key} |-> @[k]],
                      !.yielded = Append(@, <<key, c.run[key]>>)]
       ELSE IF c.current = 0 /\ c.pending = <<>> THEN c
       ELSE IF IsBranch(r)
       THEN CursorNext(s, [c EXCEPT !.current = IF meets THEN r.left ELSE 0,
                                    !.pending = IF meets THEN Append(rest, r.right) ELSE rest])
       ELSE CursorNext(s, [c EXCEPT !.current = 0, !.pending = rest,
                                    !.run = [k \in range |-> r.entries[k]]])

-----------------------------------------------------------------------------
(* Filter: every leaf is shown to the caller, which says what becomes of   *)
(* it, and the tree is built anew where something changed.                 *)

(* keys: the frontier outside of which the caller knows the leaves to be   *)
(* right, or None.                                                         *)
NewFilter(n, keys) ==
    [kind |-> "Filter", base |-> n, frame |-> [at |-> "Visit", root |-> n], frames |-> <<>>,
     last |-> 0, leaf |-> None, keys |-> keys, map |-> <<>>, replaced |-> <<>>]

FrameRoots(f) ==
    IF f = None THEN {} ELSE {f.root} \cup (IF "other" \in DOMAIN f THEN {f.other} ELSE {})

ReaderRefs(r) ==
    IF r = None THEN {}
    ELSE IF r.kind = "Cursor" THEN {r.root, r.current} \cup ToSet(r.pending)
    ELSE {r.base, r.last} \cup FrameRoots(r.frame)
             \cup UNION {FrameRoots(r.frames[i]) : i \in DOMAIN r.frames}

(* Filter::returned.                                                       *)
Returned(f, n) ==
    IF f.frames = <<>> THEN [f EXCEPT !.last = n, !.base = n, !.frame = None]
    ELSE [f EXCEPT !.last = n, !.frame = Last(f.frames), !.frames = Front(f.frames)]

Pushed(f, frame, n) ==
    [f EXCEPT !.frames = Append(@, frame), !.frame = [at |-> "Visit", root |-> n]]

(* The answer to the leaf shown is carried out.  root of a page frame is   *)
(* the page read, other the one built.                                     *)
FilterReply(s, f) ==
    LET key == f.leaf.key
        value == f.leaf.replacement[1]
        new == IF value # None THEN Allocate(s, Packed(key :> value)) ELSE Empty(s)
        u == IF value = None THEN RemoveFrom(s, f.frame.other, key)
                             ELSE Insert(s, f.frame.other, key, value)
        g == [f EXCEPT !.leaf = None,
                       !.replaced = IF value = f.leaf.value THEN @ ELSE (key :> value) @@ @]
    IN IF value = f.leaf.value
       THEN [st |-> s, f |-> IF f.frame.at = "Page" THEN g ELSE Returned(g, f.frame.root)]
       ELSE IF f.frame.at = "Page" THEN [st |-> u.st, f |-> [g EXCEPT !.frame.other = u.root]]
       ELSE [st |-> new.st, f |-> Returned(g, new.root)]

Shown(f, key, value) ==
    [f EXCEPT !.leaf = [key |-> key, value |-> value, replacement |-> <<>>]]

(* Filter::tick_frontier while no leaf is shown.                           *)
FilterTick(s, f) ==
    LET n == f.frame.root
        r == s.nodes[n]
        key == Min(f.frame.rest)
        same == f.frame.other = r.left /\ f.last = r.right
        joined == Joined(s, r.prefix, r.bit, f.frame.other, f.last)
        only(g) == [st |-> s, f |-> g]
    IN CASE f.frame.at = "Page" ->
                only(IF f.frame.rest = {} THEN Returned(f, f.frame.other)
                     ELSE Shown([f EXCEPT !.frame.rest = @ \ {key}], key, r.entries[key]))
         [] f.frame.at = "Visit" ->
                only(IF n = 0 THEN Returned(f, 0)
                     ELSE IF f.keys # None /\ f.keys \cap Bounds(r.prefix, r.bit) = {}
                     THEN Returned(f, n)
                     ELSE IF IsBranch(r) THEN Pushed(f, [at |-> "AfterLeft", root |-> n], r.left)
                     ELSE IF r.bit = Width THEN Shown(f, r.prefix, r.entries[r.prefix])
                     ELSE [f EXCEPT !.frame = [at |-> "Page", root |-> n, other |-> n,
                                               rest |-> DOMAIN r.entries]])
         [] f.frame.at = "AfterLeft" ->
                only(Pushed(f, [at |-> "AfterRight", root |-> n, other |-> f.last], r.right))
         [] f.frame.at = "AfterRight" ->
                IF same THEN only(Returned(f, n))
                ELSE [st |-> joined.st, f |-> Returned(f, joined.root)]

-----------------------------------------------------------------------------
(* The caller.                                                             *)

CollectorRefs(c) ==
    IF c = None THEN {} ELSE ToSet(c.roots) \cup ToSet(c.archived) \cup ToSet(c.pending)

Others(slots, r) == {held[y] : y \in slots} \cup ReaderRefs(r) \cup ToSet(archive.saved)
Pins(slots, r) == Others(slots, r) \cup CollectorRefs(collector)

(* The store for an operation that is given the root of slot x.            *)
Opened(x) == [store EXCEPT !.pins = Pins(Slots \ {x}, reader)]
Closed(s) == [s EXCEPT !.pins = {}]

Init ==
    LET u == Batch(EmptyStore, 0, First)
    IN /\ store = u.st
       /\ \E x \in Slots :
             /\ held = [y \in Slots |-> IF y = x THEN u.root ELSE 0]
             /\ maps = [y \in Slots |-> IF y = x THEN Coalesced(First) ELSE <<>>]
       /\ reader = None
       /\ collector = None
       /\ archive = [saved |-> <<>>, maps |-> <<>>, after |-> 0, reset |-> FALSE]
       /\ told = [live |-> {}, archived |-> {}]
       /\ calls = 0

Mutable == collector = None

(* Engine::advance and maintain release before they take any other step.   *)
Idle == store.queue = <<>>

Put(x, u, map) ==
    /\ store' = Closed(u.st)
    /\ held' = [held EXCEPT ![x] = u.root]
    /\ maps' = [maps EXCEPT ![x] = map]

InsertKey(x, k, v) ==
    /\ Mutable /\ calls < MaxCalls
    /\ Put(x, Insert(Opened(x), held[x], k, v), (k :> v) @@ maps[x])
    /\ calls' = calls + 1
    /\ UNCHANGED <<reader, collector, archive, told>>

RemoveKey(x, k) ==
    /\ Mutable /\ calls < MaxCalls /\ k \in DOMAIN maps[x]
    /\ Put(x, RemoveFrom(Opened(x), held[x], k), Written(maps[x], k :> None))
    /\ calls' = calls + 1
    /\ UNCHANGED <<reader, collector, archive, told>>

(* Store::batch; in the end the map has what was written last.             *)
BatchAt(x, input) ==
    LET last(k) == Last(SelectSeq(input, LAMBDA p : p[1] = k))[2]
    IN /\ Mutable /\ calls < MaxCalls
       /\ Put(x, Batch(Opened(x), held[x], input),
              Written(maps[x], [k \in {input[i][1] : i \in DOMAIN input} |-> last(k)]))
       /\ calls' = calls + 1
       /\ UNCHANGED <<reader, collector, archive, told>>

(* Root::clone.                                                            *)
Clone(x, y) ==
    /\ calls < MaxCalls /\ calls' = calls + 1
    /\ Mutable /\ Idle /\ held[x] # 0 /\ held[y] = 0
    /\ held' = [held EXCEPT ![y] = held[x]]
    /\ maps' = [maps EXCEPT ![y] = maps[x]]
    /\ UNCHANGED <<store, reader, collector, archive, told>>

(* A root may be dropped at any time, while records are collected as well. *)
DropRoot(x) ==
    /\ calls < MaxCalls /\ calls' = calls + 1
    /\ held[x] # 0
    /\ Put(x, Empty(Drop(Opened(x), held[x])), <<>>)
    /\ UNCHANGED <<reader, collector, archive, told>>

(* The subtree of slot x for a prefix, in slot y.                          *)
Prefix(x, y, prefix, bits) ==
    LET u == PrefixRoot(store, held[x], prefix, bits)
    IN /\ Mutable /\ Idle /\ held[x] # 0 /\ held[y] = 0
       /\ calls < MaxCalls /\ calls' = calls + 1
       /\ store' = u.st
       /\ held' = [held EXCEPT ![y] = u.root]
       /\ maps' = [maps EXCEPT ![y] = [k \in DOMAIN maps[x] \cap Bounds(prefix, bits) |->
                                          maps[x][k]]]
       /\ UNCHANGED <<reader, collector, archive, told>>

(* Store::release_tick, while records are collected as well.               *)
Release ==
    /\ store.queue # <<>>
    /\ store' = Closed(ReleaseTick([store EXCEPT !.pins = Pins(Slots, reader)]))
    /\ UNCHANGED <<held, maps, reader, collector, archive, told, calls>>

(* A continuation of slot x begins.                                        *)
Open(x, r) ==
    /\ calls < MaxCalls /\ calls' = calls + 1
    /\ reader = None /\ Mutable /\ Idle
    /\ reader' = [r EXCEPT !.map = maps[x]]
    /\ UNCHANGED <<store, held, maps, collector, archive, told>>

(* The continuation goes on; what it no longer refers to is dropped.       *)
ReaderGoes(s, r) ==
    /\ reader' = r
    /\ store' = Closed(Dropped([s EXCEPT !.pins = Pins(Slots, r)],
                               (ReaderRefs(reader) \ Pins(Slots, r)) \cap DOMAIN s.nodes))
    /\ UNCHANGED <<held, maps, collector, archive, told, calls>>

Read ==
    /\ reader # None /\ reader.kind = "Cursor" /\ Mutable /\ Idle
    /\ ReaderGoes(store, CursorNext(store, reader))

(* During a tick a page under construction is in nobody's hands.           *)
InTick == IF reader.frame.at = "Page" THEN [reader EXCEPT !.frame.other = 0] ELSE reader

Filtering == reader # None /\ reader.kind = "Filter" /\ Mutable /\ Idle

(* Filter::tick_frontier.                                                  *)
FilterStep ==
    /\ Filtering /\ reader.frame # None
    /\ reader.leaf # None => reader.leaf.replacement # <<>>
    /\ LET s == [store EXCEPT !.pins = Pins(Slots, InTick)]
           u == IF reader.leaf # None THEN FilterReply(s, reader) ELSE FilterTick(s, reader)
       IN ReaderGoes(u.st, u.f)

(* Filter::replace; a leaf outside of the frontier keeps its value.        *)
Replace(value) ==
    /\ Filtering /\ reader.leaf # None /\ reader.leaf.replacement = <<>>
    /\ value \in Answers => (reader.keys # None => reader.leaf.key \in reader.keys)
    /\ reader' = [reader EXCEPT !.leaf.replacement =
                     <<IF value \in Answers THEN value ELSE reader.leaf.value>>]
    /\ UNCHANGED <<store, held, maps, collector, archive, told, calls>>

(* The caller takes the filtered root to slot x, and lets the filter go.   *)
Filtered(x) ==
    /\ Filtering /\ reader.frame = None
    /\ held' = [held EXCEPT ![x] = reader.last]
    /\ maps' = [maps EXCEPT ![x] = Written(reader.map, reader.replaced)]
    /\ reader' = None
    /\ store' = Closed(Drop([store EXCEPT !.pins = Pins(Slots \ {x}, None) \cup {reader.last}],
                            held[x]))
    /\ UNCHANGED <<collector, archive, told, calls>>

(* A continuation is abandoned.                                            *)
Abandon ==
    /\ reader # None /\ Mutable
    /\ ReaderGoes(store, None)

-----------------------------------------------------------------------------
(* Collections, as engine/collection.rs asks for them.                     *)

(* capture_snapshot and release_snapshot.                                  *)
Save(x) ==
    /\ calls < MaxCalls /\ calls' = calls + 1
    /\ Mutable /\ Idle /\ held[x] # 0 /\ Len(archive.saved) < MaxSaved
    /\ archive' = [archive EXCEPT !.saved = Append(@, held[x]), !.maps = Append(@, maps[x])]
    /\ UNCHANGED <<store, held, maps, reader, collector, told>>

Invalid(a) == [a EXCEPT !.after = 0, !.reset = TRUE]

Unsave(i) ==
    /\ calls < MaxCalls /\ calls' = calls + 1
    /\ Mutable /\ Idle
    /\ archive' = Invalid([archive EXCEPT !.saved = RemoveAt(@, i), !.maps = RemoveAt(@, i)])
    /\ store' = Closed(Drop([store EXCEPT !.pins = {held[x] : x \in Slots} \cup ReaderRefs(reader)
                                \cup ToSet(RemoveAt(archive.saved, i))], archive.saved[i]))
    /\ UNCHANGED <<held, maps, reader, collector, told>>

(* Fault: a filter, like a cursor, keeps only the root it began with.      *)
ReaderRootsBase(r) ==
    IF r = None THEN {} ELSE IF r.kind = "Cursor" THEN {r.root} ELSE {r.base}

(* What a continuation asks a collection to keep: the root of a Cursor, and *)
(* Filter::roots: the base, the root returned last and what is built.      *)
ReaderRoots(r) ==
    IF r = None THEN {}
    ELSE IF r.kind = "Cursor" THEN {r.root}
    ELSE LET built(f) == IF f # None /\ "other" \in DOMAIN f THEN {f.other} ELSE {}
         IN {r.base, r.last} \cup built(r.frame) \cup UNION {built(f) : f \in ToSet(r.frames)}

(* Fault: after a reset the archived records count as told.                *)
CollectUncleared ==
    /\ Mutable /\ Idle /\ calls < MaxCalls /\ calls' = calls + 1
    /\ store' = [store EXCEPT !.memo = <<>>, !.epoch = @ + 1]
    /\ LET saved == SubSeq(archive.saved, archive.after + 1, Len(archive.saved))
       IN collector' = [roots |-> SetToSeq({held[x] : x \in Slots} \cup ReaderRoots(reader)),
                        archived |-> saved, archiving |-> saved # <<>>,
                        pending |-> <<>>, marking |-> TRUE]
    /\ archive' = [archive EXCEPT !.after = Len(archive.saved)]
    /\ told' = [live |-> {}, archived |-> IF archive.reset THEN {} ELSE told.archived]
    /\ UNCHANGED <<held, maps, reader>>

(* Store::collect_archived: the roots saved since the last registration    *)
(* are registered, all of them after a reset.                              *)
Collect ==
    /\ Mutable /\ Idle /\ calls < MaxCalls /\ calls' = calls + 1
    /\ store' = [store EXCEPT !.memo = <<>>, !.epoch = @ + 1,
                              !.archiveEpoch = IF archive.reset THEN @ + 1 ELSE @]
    /\ LET saved == SubSeq(archive.saved, archive.after + 1, Len(archive.saved))
       IN collector' = [roots |-> SetToSeq({held[x] : x \in Slots} \cup ReaderRoots(reader)),
                        archived |-> saved, archiving |-> saved # <<>>,
                        pending |-> <<>>, marking |-> TRUE]
    /\ archive' = [archive EXCEPT !.after = Len(archive.saved)]
    /\ told' = [live |-> {}, archived |-> IF archive.reset THEN {} ELSE told.archived]
    /\ UNCHANGED <<held, maps, reader>>

Visiting == collector # None /\ collector.marking /\ Idle

(* Collector::tick at a root; the entries of a page are told together.     *)
Visit ==
    LET c == collector
        next == IF c.archiving THEN c.archived ELSE c.roots
        n == IF c.pending # <<>> THEN Last(c.pending) ELSE Head(next)
        r == store.nodes[n]
        fresh == /\ n # 0
                 /\ r.archived # store.archiveEpoch
                 /\ ~c.archiving => r.marked # store.epoch
        taken == IF c.pending # <<>> THEN [c EXCEPT !.pending = Front(@)]
                 ELSE IF c.archiving THEN [c EXCEPT !.archived = Tail(@)]
                 ELSE [c EXCEPT !.roots = Tail(@)]
        after == IF fresh /\ IsBranch(r) THEN [taken EXCEPT !.pending = @ \o <<r.right, r.left>>]
                 ELSE taken
        marked == IF ~fresh THEN store
                  ELSE IF c.archiving THEN [store EXCEPT !.nodes[n].archived = store.archiveEpoch]
                  ELSE [store EXCEPT !.nodes[n].marked = store.epoch]
        values == IF fresh THEN Range(r.entries) ELSE {}
        pins == Others(Slots, reader) \cup CollectorRefs(after)
    IN /\ Visiting /\ (c.pending # <<>> \/ next # <<>>)
       /\ collector' = after
       /\ store' = Closed(Drop([marked EXCEPT !.pins = pins], n))
       /\ told' = IF c.archiving THEN [told EXCEPT !.archived = @ \cup values]
                                 ELSE [told EXCEPT !.live = @ \cup values]
       /\ UNCHANGED <<held, maps, reader, archive, calls>>

(* The archived roots are done, or all roots are.                          *)
Visited ==
    /\ Visiting /\ collector.pending = <<>>
    /\ IF collector.archiving
       THEN /\ collector.archived = <<>>
            /\ collector' = [collector EXCEPT !.archiving = FALSE]
            /\ UNCHANGED store
       ELSE /\ collector.roots = <<>>
            /\ collector' = [collector EXCEPT !.marking = FALSE]
            /\ store' = [store EXCEPT !.completed = store.epoch,
                                      !.archiveCompleted = store.archiveEpoch]
    /\ UNCHANGED <<held, maps, reader, archive, told, calls>>

(* What was dropped is released, and the collection is finished.           *)
Finish ==
    /\ collector # None /\ ~collector.marking /\ Idle
    /\ collector' = None
    /\ archive' = [archive EXCEPT !.reset = FALSE]
    /\ UNCHANGED <<store, held, maps, reader, told, calls>>

Next ==
    \/ \E x \in Slots :
          \/ \E k \in Keys : RemoveKey(x, k) \/ \E v \in Values : InsertKey(x, k, v)
          \/ \E input \in Inputs : BatchAt(x, input)
          \/ \E y \in Slots :
                Clone(x, y) \/ \E k \in Keys, bits \in 1 .. PageBit - 1 : Prefix(x, y, k, bits)
          \/ DropRoot(x) \/ Filtered(x) \/ Save(x)
          \/ \E r \in Ranges : Open(x, NewCursor(held[x], r[1], r[2]))
          \/ \E keys \in Frontiers : Open(x, NewFilter(held[x], keys))
    \/ Read \/ FilterStep \/ (\E v \in Answers \cup {"same"} : Replace(v)) \/ Abandon
    \/ Release \/ (\E i \in DOMAIN archive.saved : Unsave(i))
    \/ Collect \/ Visit \/ Visited \/ Finish

Spec == Init /\ [][Next]_vars

-----------------------------------------------------------------------------
(* Properties.                                                             *)

MapOf[n \in Nat] ==
    IF n = 0 THEN <<>>
    ELSE LET r == store.nodes[n]
         IN IF IsBranch(r) THEN MapOf[r.left] @@ MapOf[r.right] ELSE r.entries

TreeOf[n \in Nat] ==
    IF n = 0 THEN {} ELSE {n} \cup TreeOf[store.nodes[n].left] \cup TreeOf[store.nodes[n].right]

Forest(roots) == UNION {TreeOf[n] : n \in roots}
Told(roots) == UNION {Range(store.nodes[n].entries) : n \in Forest(roots)}

(* Each root, whether kept in a slot or saved, holds what its writer wrote *)
(* and nothing else, whatever is written, filtered or collected after it:  *)
(* copies are made where a record is shared and nowhere too late.          *)
ContentsAreKept ==
    /\ \A x \in Slots : MapOf[held[x]] = maps[x]
    /\ \A i \in DOMAIN archive.saved : MapOf[archive.saved[i]] = archive.maps[i]
    /\ \A x \in Slots, k \in Keys :
          Get(store, held[x], k) = IF k \in DOMAIN maps[x] THEN maps[x][k] ELSE None

(* A cursor yields the entries of its range, each once and in order, of    *)
(* the map it was opened on, though writes come between.                   *)
CursorReads ==
    (reader # None /\ reader.kind = "Cursor") =>
        LET keys == SetToSortSeq({k \in DOMAIN reader.map : reader.low <= k /\ k <= reader.high}, <)
            all == [i \in DOMAIN keys |-> <<keys[i], reader.map[keys[i]]>>]
            ended == reader.current = 0 /\ reader.pending = <<>> /\ reader.run = <<>>
        IN /\ IsPrefix(reader.yielded, all)
           /\ ended => reader.yielded = all

(* In every record the cached number of leaves is right, keys are on their *)
(* side of the branch, and no record stays without a reference.            *)
TreesAreWhole ==
    /\ \A n \in DOMAIN store.nodes :
          LET r == store.nodes[n]
              under(m) == DOMAIN MapOf[m]
          IN /\ r.leaves = Cardinality(under(n))
             /\ under(n) \subseteq Bounds(r.prefix, r.bit)
             /\ IsBranch(r) => /\ \A k \in under(r.left) : ~Right(k, r.bit)
                              /\ \A k \in under(r.right) : Right(k, r.bit)
    /\ DOMAIN store.nodes =
          Forest(Pins(Slots, reader) \cup UNION {ToSet(store.queue[i]) : i \in DOMAIN store.queue})

(* A root is the map its writer made of it and a whole tree, and reads the *)
(* same to a cursor that is open while others write.                       *)
RootsAreMaps == ContentsAreKept /\ CursorReads /\ TreesAreWhole

(* No record that anybody still reaches turns stale: what a collection is  *)
(* given as roots is enough for everything held, a continuation in the     *)
(* middle of a tree included.                                              *)
NothingStale ==
    \A n \in Forest({held[x] : x \in Slots} \cup ReaderRefs(reader) \cup ToSet(archive.saved)) :
        Contained(store, n)

(* When a collection has visited its roots, it has told the caller of all  *)
(* values they hold; and what it told as archived is what is still saved.  *)
ValuesTold ==
    (collector # None /\ ~collector.marking) =>
        /\ Told({held[x] : x \in Slots} \cup ToSet(archive.saved) \cup ReaderRoots(reader))
              \subseteq told.live \cup told.archived
        /\ told.archived = Told(ToSet(archive.saved))

(* A collection keeps all that is reachable, and tells all that is held.   *)
CollectionIsExact == NothingStale /\ ValuesTold
=============================================================================
