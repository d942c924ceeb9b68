---------------------------- MODULE BoundedFifo ----------------------------
(***************************************************************************)
(* What SCQueue (lib/usb/include/scqueue.h) promises its callers: a FIFO   *)
(* of at most Capacity heap pointers, shared by the cores, whose methods   *)
(* are atomic and which owns a pointer from enqueue() until dequeue().     *)
(* An item that does not fit is deleted by enqueue() itself.               *)
(***************************************************************************)
EXTENDS Naturals, Sequences

CONSTANTS
    Cores,      \* the processors that call the queue
    Items,      \* the heap addresses an event object can have
    NULL,       \* the null pointer
    Capacity    \* allocation_size of the template

ASSUME CapacityAssumption == Capacity \in Nat \ {0}
ASSUME NullAssumption == NULL \notin Items

VARIABLES
    fifo,       \* the queued pointers, oldest first
    held,       \* held[c]: the pointer core c owns outside the queue, or NULL
    live,       \* the addresses allocated and not yet deleted
    answer      \* answer[c]: what core c's last call but dequeue() returned

vars == <<fifo, held, live, answer>>

EmptyAnswer == "empty"
NonEmptyAnswer == "nonempty"
QueuedAnswer == "queued"
FullAnswer == "full"
Answers == Items \cup {NULL, EmptyAnswer, NonEmptyAnswer, QueuedAnswer, FullAnswer}

Init ==
    /\ fifo = <<>>
    /\ held = [c \in Cores |-> NULL]
    /\ live = {}
    /\ answer = [c \in Cores |-> NULL]

\* The caller allocates an event (new KeyEvent, new MouseClickEvent).
New(c) ==
    /\ held[c] = NULL
    /\ \E x \in Items \ live :
          /\ held' = [held EXCEPT ![c] = x]
          /\ live' = live \cup {x}
    /\ UNCHANGED <<fifo, answer>>

Discard(c) ==
    /\ held[c] # NULL
    /\ live' = live \ {held[c]}
    /\ held' = [held EXCEPT ![c] = NULL]
    /\ UNCHANGED fifo

\* The caller deletes an event it dequeued.
Delete(c) == Discard(c) /\ UNCHANGED answer

Returns(c, a) == answer' = [answer EXCEPT ![c] = a]

\* enqueue() of a queue with room: returns true.
Enqueue(c) ==
    /\ held[c] # NULL
    /\ Len(fifo) < Capacity
    /\ fifo' = Append(fifo, held[c])
    /\ held' = [held EXCEPT ![c] = NULL]
    /\ Returns(c, QueuedAnswer)
    /\ UNCHANGED live

\* enqueue() of a full queue, and of no other: deletes the item, returns false.
EnqueueFull(c) ==
    /\ Len(fifo) = Capacity
    /\ Discard(c)
    /\ Returns(c, FullAnswer)

\* dequeue() of a queue that holds something (of an empty one: a stutter).
Dequeue(c) ==
    /\ held[c] = NULL
    /\ fifo # <<>>
    /\ held' = [held EXCEPT ![c] = Head(fifo)]
    /\ fifo' = Tail(fifo)
    /\ UNCHANGED <<live, answer>>

\* peek(): the head is returned and stays in the queue.
Peek(c) ==
    /\ Returns(c, IF fifo = <<>> THEN NULL ELSE Head(fifo))
    /\ UNCHANGED <<fifo, held, live>>

IsEmpty(c) ==
    /\ Returns(c, IF fifo = <<>> THEN EmptyAnswer ELSE NonEmptyAnswer)
    /\ UNCHANGED <<fifo, held, live>>

Next ==
    \E c \in Cores :
        \/ New(c)
        \/ Delete(c)
        \/ Enqueue(c)
        \/ EnqueueFull(c)
        \/ Dequeue(c)
        \/ Peek(c)
        \/ IsEmpty(c)

Spec == Init /\ [][Next]_vars

-----------------------------------------------------------------------------
TypeOK ==
    /\ fifo \in Seq(Items)
    /\ Len(fifo) <= Capacity
    /\ held \in [Cores -> Items \cup {NULL}]
    /\ live \subseteq Items
    /\ answer \in [Cores -> Answers]

Queued == {fifo[k] : k \in 1..Len(fifo)}
HeldItems == {held[c] : c \in Cores} \ {NULL}

\* No event object is leaked, deleted twice or used by two owners: what is
\* allocated is exactly what is queued (once) or held (by one core).
Ownership ==
    /\ live = Queued \cup HeldItems
    /\ Queued \cap HeldItems = {}
    /\ \A j, k \in 1..Len(fifo) : fifo[j] = fifo[k] => j = k
    /\ \A c, d \in Cores : held[c] = held[d] /\ held[c] # NULL => c = d
=============================================================================
