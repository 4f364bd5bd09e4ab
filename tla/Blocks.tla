-------------------------------- MODULE Blocks --------------------------------
(***************************************************************************)
(* Three containers that keep their entries in blocks of fixed size:       *)
(*    fifo     WaitingQueue (src/engine/waiting.rs), the payloads of the   *)
(*             tasks that wait for the mutation lane,                      *)
(*    slab     NodeSlab (src/condition.rs), the nodes of an arena by their *)
(*             serial numbers,                                             *)
(*    release  QueueState (src/store.rs), the records that wait for being  *)
(*             released.                                                   *)
(* Other modules have them as a sequence, a function and a bag.  Here they *)
(* are what they are, beside the sequence, set or stack they stand for.    *)
(***************************************************************************)
EXTENDS Naturals, Sequences, SequencesExt

CONSTANTS
    Payload,    \* what the queues hold
    Width,      \* WIDTH, NODE_BLOCK and RELEASE_CAPACITY
    MaxHeld,    \* bound: entries in a queue
    MaxSerial   \* bound: serial numbers of nodes

ASSUME BlocksHaveSlots == Width \in Nat \ {0}

VARIABLES
    fifo,       \* WaitingQueue: blocks, spare, head, len
    waiters,    \* history: the payloads in it
    slab,       \* NodeSlab: blocks by epoch, first, last; serial is the next number
    kept,       \* history: the nodes in it
    release,    \* QueueState: inline, overflow (the newest block first)
    stack       \* history: the pairs in it, the newest last

blockVars == <<fifo, waiters, slab, kept, release, stack>>

-----------------------------------------------------------------------------
(* WaitingQueue.  A slot is <<>> or <<payload>>, a spare block <<>> or     *)
(* <<block>>; slots and blocks are counted from 0 as in the code.          *)

Vacant == [i \in 0 .. Width - 1 |-> <<>>]

EmptyFifo == [blocks |-> <<>>, spare |-> <<<<>>, <<>>>>, head |-> 0, len |-> 0]

(* The first spare block, if there is one.                                 *)
Spare(q) == IF q.spare[1] # <<>> THEN 1 ELSE IF q.spare[2] # <<>> THEN 2 ELSE 0

(* A block for the tail.                                                   *)
Grown(q) ==
    IF (q.head + q.len) \div Width # Len(q.blocks) THEN q
    ELSE IF Spare(q) = 0 THEN [q EXCEPT !.blocks = Append(@, Vacant)]
    ELSE [q EXCEPT !.blocks = Append(@, q.spare[Spare(q)][1]), !.spare[Spare(q)] = <<>>]

PushBack(q, payload) ==
    LET tail == q.head + q.len
    IN [Grown(q) EXCEPT !.blocks[tail \div Width + 1][tail % Width] = <<payload>>,
                        !.len = @ + 1]

(* The front block is done with: kept as a spare one, or given back.       *)
Retired(q) ==
    [q EXCEPT !.blocks = Tail(@),
              !.spare = IF @[1] = <<>> THEN [@ EXCEPT ![1] = <<q.blocks[1]>>]
                        ELSE IF @[2] = <<>> THEN [@ EXCEPT ![2] = <<q.blocks[1]>>]
                        ELSE @,
              !.head = 0]

FifoFront(q) == q.blocks[1][q.head]

(* Fault: the payload is left in its slot.                                 *)
PoppedFrontKept(q) ==
    LET p == [q EXCEPT !.head = @ + 1, !.len = @ - 1]
    IN IF p.head = Width \/ p.len = 0 THEN Retired(p) ELSE p

PoppedFront(q) ==
    LET p == [q EXCEPT !.blocks[1][q.head] = <<>>, !.head = @ + 1, !.len = @ - 1]
    IN IF p.head = Width \/ p.len = 0 THEN Retired(p) ELSE p

(* WaitingQueue::get and iter.                                             *)
Got(q, index) == q.blocks[(q.head + index) \div Width + 1][(q.head + index) % Width]

Listed(q) ==
    FlattenSeq([k \in DOMAIN q.blocks |->
        FlattenSeq([i \in 1 .. Width |-> q.blocks[k][i - 1]])])

FifoPush ==
    /\ fifo.len < MaxHeld
    /\ \E payload \in Payload :
          /\ fifo' = PushBack(fifo, payload)
          /\ waiters' = Append(waiters, payload)
    /\ UNCHANGED <<slab, kept, release, stack>>

FifoPop ==
    /\ fifo.len # 0
    /\ fifo' = PoppedFront(fifo)
    /\ waiters' = Tail(waiters)
    /\ UNCHANGED <<slab, kept, release, stack>>

-----------------------------------------------------------------------------
(* NodeSlab.  The blocks that have nodes are linked in the order of their  *)
(* epochs; a link is an epoch, or NoEpoch.  A block is told apart by its   *)
(* nodes; `live' counts them.                                              *)

NoEpoch == MaxSerial + 1

EmptySlab == [blocks |-> <<>>, first |-> NoEpoch, last |-> NoEpoch, serial |-> 0]

Epoch(id) == id \div Width

(* A block for the epoch of a new node, behind the others.                 *)
Opened(s, epoch) ==
    IF epoch \in DOMAIN s.blocks THEN s
    ELSE LET block == [nodes |-> {}, live |-> 0, previous |-> s.last, next |-> NoEpoch]
             linked == IF s.last = NoEpoch THEN s.blocks
                       ELSE [s.blocks EXCEPT ![s.last].next = epoch]
         IN [s EXCEPT !.blocks = [e \in DOMAIN linked \cup {epoch} |->
                                    IF e = epoch THEN block ELSE linked[e]],
                      !.first = IF s.last = NoEpoch THEN epoch ELSE @,
                      !.last = epoch]

Allocated(s) ==
    LET epoch == Epoch(s.serial)
    IN [Opened(s, epoch) EXCEPT !.blocks[epoch].nodes = @ \cup {s.serial},
                                !.blocks[epoch].live = @ + 1,
                                !.serial = @ + 1]

(* A block that is empty is unlinked.                                      *)
Unlinked(s, epoch) ==
    LET previous == s.blocks[epoch].previous
        next == s.blocks[epoch].next
    IN [s EXCEPT !.blocks = [e \in DOMAIN @ \ {epoch} |->
                               [@[e] EXCEPT !.next = IF e = previous THEN next ELSE @,
                                            !.previous = IF e = next THEN previous ELSE @]],
                 !.first = IF previous = NoEpoch THEN next ELSE @,
                 !.last = IF next = NoEpoch THEN previous ELSE @]

Deleted(s, id) ==
    LET epoch == Epoch(id)
        t == [s EXCEPT !.blocks[epoch].nodes = @ \ {id}, !.blocks[epoch].live = @ - 1]
    IN IF t.blocks[epoch].live = 0 THEN Unlinked(t, epoch) ELSE t

Least(S) == CHOOSE x \in S : \A y \in S : x <= y

(* NodeSlab::next: the node after `cursor', or the first; two blocks are   *)
(* looked at.  NoEpoch when there is none.                                 *)
InBlock(s, epoch) == IF epoch = NoEpoch THEN NoEpoch ELSE Least(s.blocks[epoch].nodes)

FirstNode(s) == InBlock(s, s.first)

NodeAfter(s, cursor) ==
    LET block == s.blocks[Epoch(cursor)]
        rest == {id \in block.nodes : id > cursor}
    IN IF rest # {} THEN Least(rest) ELSE InBlock(s, block.next)

SlabAllocate ==
    /\ slab.serial <= MaxSerial
    /\ slab' = Allocated(slab)
    /\ kept' = kept \cup {slab.serial}
    /\ UNCHANGED <<fifo, waiters, release, stack>>

SlabRemove ==
    /\ \E id \in kept :
          /\ slab' = Deleted(slab, id)
          /\ kept' = kept \ {id}
    /\ UNCHANGED <<fifo, waiters, release, stack>>

-----------------------------------------------------------------------------
(* QueueState: the inline block, and a chain of blocks once it is full.    *)

EmptyRelease == [inline |-> <<>>, overflow |-> <<>>]

ReleasePushed(q, pair) ==
    IF q.overflow # <<>> /\ Len(q.overflow[1]) < Width
    THEN [q EXCEPT !.overflow[1] = Append(@, pair)]
    ELSE IF q.overflow = <<>> /\ Len(q.inline) < Width
    THEN [q EXCEPT !.inline = Append(@, pair)]
    ELSE [q EXCEPT !.overflow = <<<<pair>>>> \o @]

(* What is popped, and what is left.                                       *)
ReleaseTop(q) == IF q.overflow # <<>> THEN Last(q.overflow[1]) ELSE Last(q.inline)

ReleasePopped(q) ==
    IF q.overflow = <<>> THEN [q EXCEPT !.inline = Front(@)]
    ELSE IF Len(q.overflow[1]) = 1 THEN [q EXCEPT !.overflow = Tail(@)]
    ELSE [q EXCEPT !.overflow[1] = Front(@)]

ReleasePush ==
    /\ Len(stack) < MaxHeld
    /\ \E pair \in Payload :
          /\ release' = ReleasePushed(release, pair)
          /\ stack' = Append(stack, pair)
    /\ UNCHANGED <<fifo, waiters, slab, kept>>

ReleasePop ==
    /\ stack # <<>>
    /\ release' = ReleasePopped(release)
    /\ stack' = Front(stack)
    /\ UNCHANGED <<fifo, waiters, slab, kept>>

-----------------------------------------------------------------------------

(* The containers have nothing to do with each other: one is used.         *)
BlocksInit ==
    /\ fifo = EmptyFifo /\ waiters = <<>>
    /\ slab = EmptySlab /\ kept = {}
    /\ release = EmptyRelease /\ stack = <<>>

-----------------------------------------------------------------------------
(* Properties.                                                             *)

(* The FIFO hands out its payloads in the order they came, by index, by    *)
(* iteration and from its front; no spare block brings a payload back, and *)
(* there is a block exactly where there is a payload.                      *)
FifoIsASequence ==
    /\ fifo.len = Len(waiters)
    /\ \A i \in 1 .. fifo.len : Got(fifo, i - 1) = <<waiters[i]>>
    /\ fifo.len # 0 => FifoFront(fifo) = <<waiters[1]>>
    /\ Listed(fifo) = waiters
    /\ \A s \in {1, 2} : fifo.spare[s] \in {<<>>, <<Vacant>>}
    /\ Len(fifo.blocks) = (fifo.head + fifo.len + Width - 1) \div Width

(* A cursor goes through the nodes in the order of their numbers, whatever *)
(* was removed, and no block is left without a node.                       *)
SlabIsASet ==
    /\ UNION {slab.blocks[e].nodes : e \in DOMAIN slab.blocks} = kept
    /\ \A e \in DOMAIN slab.blocks :
          /\ slab.blocks[e].nodes # {}
          /\ \A id \in slab.blocks[e].nodes : Epoch(id) = e
    /\ FirstNode(slab) = IF kept = {} THEN NoEpoch ELSE Least(kept)
    /\ \A id \in kept :
          LET later == {other \in kept : other > id}
          IN NodeAfter(slab, id) = IF later = {} THEN NoEpoch ELSE Least(later)

(* Whatever is waiting for release is released, the newest first.          *)
ReleaseIsAStack ==
    /\ release.inline \o FlattenSeq(Reverse(release.overflow)) = stack
    /\ stack # <<>> => ReleaseTop(release) = Last(stack)

BlocksAreExact == FifoIsASequence /\ SlabIsASet /\ ReleaseIsAStack

=============================================================================
