------------------------------ MODULE SCQueue ------------------------------
(***************************************************************************)
(* SCQueue<T, allocation_size> (lib/usb/include/scqueue.h, scqueue.tpp):   *)
(* a ring buffer of pointers under one RP2040 mutex, called by both cores. *)
(* Keyboard events, mouse clicks and blink requests all travel in one.     *)
(*                                                                         *)
(* Every method is modelled as the steps between which the other core can  *)
(* run: taking the mutex, reading the indices, writing the ring, leaving   *)
(* the mutex.  Waiting for the mutex has no effect of its own, so calling  *)
(* a method and taking its mutex are one step.                             *)
(***************************************************************************)
EXTENDS Naturals, Sequences

CONSTANTS
    Cores,      \* the processors that call the queue
    Items,      \* the heap addresses an event object can have
    NULL,       \* the null pointer
    Capacity,   \* allocation_size
    Free        \* the mutex when no core owns it

ASSUME CapacityAssumption == Capacity \in Nat \ {0}
ASSUME NullAssumption == NULL \notin Items
ASSUME FreeAssumption == Free \notin Cores

VARIABLES
    queue,      \* queue_: the ring
    first,      \* first_: index of the oldest item
    last,       \* last_: index of the newest item
    isEmpty,    \* is_empty_
    owner,      \* scq_mutex_: the core inside a method
    pc,         \* pc[c]: where core c is inside a method
    item,       \* item[c]: the pointer core c owns (argument or result)
    idx,        \* idx[c]: new_last of enqueue(), old_first of dequeue()
    live,       \* the addresses allocated and not yet deleted
    answer      \* answer[c]: what core c's last call but dequeue() returned

vars == <<queue, first, last, isEmpty, owner, pc, item, idx, live, answer>>
ring == <<queue, first, last, isEmpty>>

Slots == 0..(Capacity - 1)
NextSlot(i) == (i + 1) % Capacity

PCs == {"idle", "enqueue", "store", "dequeue", "fetch", "peek", "isEmpty", "exit"}

EmptyAnswer == "empty"
NonEmptyAnswer == "nonempty"
QueuedAnswer == "queued"
FullAnswer == "full"
Answers == Items \cup {NULL, EmptyAnswer, NonEmptyAnswer, QueuedAnswer, FullAnswer}

\* The queues are globals: the ring starts zeroed.
Init ==
    /\ queue = [i \in Slots |-> NULL]
    /\ first = 0
    /\ last = 0
    /\ isEmpty = TRUE
    /\ owner = Free
    /\ pc = [c \in Cores |-> "idle"]
    /\ item = [c \in Cores |-> NULL]
    /\ idx = [c \in Cores |-> 0]
    /\ live = {}
    /\ answer = [c \in Cores |-> NULL]

Goto(c, l) == pc' = [pc EXCEPT ![c] = l]

\* Faulty variant of Lock: the mutex is taken from its owner.
LockTaken(c) == owner' = c

Returns(c, a) == answer' = [answer EXCEPT ![c] = a]

\* mutexLock / mutexUnlock.
Lock(c) == owner = Free /\ owner' = c
Unlock(c) == owner' = Free

-----------------------------------------------------------------------------
(* The callers' side: they allocate what they queue and delete what they   *)
(* dequeue (e.g. KbdRptParser::OnKeyDown and KbdRptParser::Reset).         *)

New(c) ==
    /\ pc[c] = "idle"
    /\ item[c] = NULL
    /\ \E x \in Items \ live :
          /\ item' = [item EXCEPT ![c] = x]
          /\ live' = live \cup {x}
    /\ UNCHANGED <<ring, owner, pc, idx, answer>>

Delete(c) ==
    /\ pc[c] = "idle"
    /\ item[c] # NULL
    /\ live' = live \ {item[c]}
    /\ item' = [item EXCEPT ![c] = NULL]
    /\ UNCHANGED <<ring, owner, pc, idx, answer>>

-----------------------------------------------------------------------------
(* enqueue(item) *)

EnqueueEnter(c) ==
    /\ pc[c] = "idle"
    /\ item[c] # NULL
    /\ Lock(c)
    /\ Goto(c, "enqueue")
    /\ UNCHANGED <<ring, item, idx, live, answer>>

\* Faulty variant of IsFull: one slot is kept free.
IsFullEarly == ~isEmpty /\ first = NextSlot(NextSlot(last))

IsFull == ~isEmpty /\ first = NextSlot(last)

\* Faulty variant of EnqueueTest: the item of a full queue is not deleted.
EnqueueTestLeaks(c) ==
    /\ pc[c] = "enqueue"
    /\ idx' = [idx EXCEPT ![c] = NextSlot(last)]
    /\ \/ /\ IsFull
          /\ item' = [item EXCEPT ![c] = NULL]
          /\ Returns(c, FullAnswer)
          /\ Goto(c, "exit")
       \/ ~IsFull /\ Goto(c, "store") /\ UNCHANGED <<item, answer>>
    /\ UNCHANGED <<ring, owner, live>>

\* "no overwriting, return false if queue is full"
EnqueueTest(c) ==
    /\ pc[c] = "enqueue"
    /\ idx' = [idx EXCEPT ![c] = NextSlot(last)]
    /\ \/ /\ IsFull
          /\ live' = live \ {item[c]}
          /\ item' = [item EXCEPT ![c] = NULL]
          /\ Returns(c, FullAnswer)
          /\ Goto(c, "exit")
       \/ /\ ~IsFull
          /\ Goto(c, "store")
          /\ UNCHANGED <<live, item, answer>>
    /\ UNCHANGED <<ring, owner>>

\* An empty queue stores at last_ without moving it.
EnqueueStore(c) ==
    /\ pc[c] = "store"
    /\ LET slot == IF isEmpty THEN last ELSE idx[c]
       IN  /\ last' = slot
           /\ queue' = [queue EXCEPT ![slot] = item[c]]
    /\ isEmpty' = FALSE
    /\ item' = [item EXCEPT ![c] = NULL]
    /\ Returns(c, QueuedAnswer)
    /\ Goto(c, "exit")
    /\ UNCHANGED <<first, owner, idx, live>>

-----------------------------------------------------------------------------
(* dequeue() *)

DequeueEnter(c) ==
    /\ pc[c] = "idle"
    /\ item[c] = NULL
    /\ Lock(c)
    /\ Goto(c, "dequeue")
    /\ UNCHANGED <<ring, item, idx, live, answer>>

\* Faulty variant of DequeueNone: it returns without mutexUnlock().
DequeueNoneLocked(c) ==
    /\ pc[c] = "dequeue"
    /\ isEmpty
    /\ Goto(c, "idle")
    /\ UNCHANGED <<ring, owner, item, idx, live, answer>>

DequeueNone(c) ==
    /\ pc[c] = "dequeue"
    /\ isEmpty
    /\ Goto(c, "exit")
    /\ UNCHANGED <<ring, owner, item, idx, live, answer>>

\* The last item: the indices stay, only is_empty_ changes.
DequeueLast(c) ==
    /\ pc[c] = "dequeue"
    /\ ~isEmpty
    /\ first = last
    /\ item' = [item EXCEPT ![c] = queue[first]]
    /\ isEmpty' = TRUE
    /\ Goto(c, "exit")
    /\ UNCHANGED <<queue, first, last, owner, idx, live, answer>>

\* first_ moves before the slot it left is read.
DequeueAdvance(c) ==
    /\ pc[c] = "dequeue"
    /\ ~isEmpty
    /\ first # last
    /\ idx' = [idx EXCEPT ![c] = first]
    /\ first' = NextSlot(first)
    /\ Goto(c, "fetch")
    /\ UNCHANGED <<queue, last, isEmpty, owner, item, live, answer>>

DequeueFetch(c) ==
    /\ pc[c] = "fetch"
    /\ item' = [item EXCEPT ![c] = queue[idx[c]]]
    /\ Goto(c, "exit")
    /\ UNCHANGED <<ring, owner, idx, live, answer>>

-----------------------------------------------------------------------------
(* peek(), isEmpty() and the end of every method *)

QueryEnter(c) ==
    /\ pc[c] = "idle"
    /\ Lock(c)
    /\ \/ Goto(c, "peek")
       \/ Goto(c, "isEmpty")
    /\ UNCHANGED <<ring, item, idx, live, answer>>

PeekRead(c) ==
    /\ pc[c] = "peek"
    /\ Returns(c, IF isEmpty THEN NULL ELSE queue[first])
    /\ Goto(c, "exit")
    /\ UNCHANGED <<ring, owner, item, idx, live>>

IsEmptyRead(c) ==
    /\ pc[c] = "isEmpty"
    /\ Returns(c, IF isEmpty THEN EmptyAnswer ELSE NonEmptyAnswer)
    /\ Goto(c, "exit")
    /\ UNCHANGED <<ring, owner, item, idx, live>>

Exit(c) ==
    /\ pc[c] = "exit"
    /\ Unlock(c)
    /\ Goto(c, "idle")
    /\ UNCHANGED <<ring, item, idx, live, answer>>

\* The steps of a core that is inside a method.
Inside(c) ==
    \/ EnqueueTest(c)
    \/ EnqueueStore(c)
    \/ DequeueNone(c)
    \/ DequeueLast(c)
    \/ DequeueAdvance(c)
    \/ DequeueFetch(c)
    \/ PeekRead(c)
    \/ IsEmptyRead(c)
    \/ Exit(c)

Next ==
    \E c \in Cores :
        \/ New(c)
        \/ Delete(c)
        \/ EnqueueEnter(c)
        \/ DequeueEnter(c)
        \/ QueryEnter(c)
        \/ Inside(c)

Spec == Init /\ [][Next]_vars

\* A core inside a method runs on: nothing in a method blocks.
FairSpec == Spec /\ \A c \in Cores : WF_vars(Inside(c))

-----------------------------------------------------------------------------
TypeOK ==
    /\ queue \in [Slots -> Items \cup {NULL}]
    /\ first \in Slots
    /\ last \in Slots
    /\ isEmpty \in BOOLEAN
    /\ owner \in Cores \cup {Free}
    /\ pc \in [Cores -> PCs]
    /\ item \in [Cores -> Items \cup {NULL}]
    /\ idx \in [Cores -> Slots]
    /\ live \subseteq Items
    /\ answer \in [Cores -> Answers]

\* The mutex serialises the methods: the core inside one is its owner.
MutexInv == \A c \in Cores : pc[c] # "idle" <=> owner = c

\* The slots from first_ to last_, around the end of the ring.
Used == IF first <= last THEN first..last ELSE Slots \ ((last + 1)..(first - 1))

\* A store goes to the free slot after last_, a fetch reads the slot first_
\* just left.
InsideInv(c) ==
    /\ pc[c] \in {"enqueue", "store"} => item[c] # NULL
    /\ pc[c] \in {"dequeue", "fetch"} => item[c] = NULL
    /\ pc[c] = "store" => ~IsFull /\ idx[c] = NextSlot(last)
    /\ pc[c] = "fetch" => /\ ~isEmpty
                          /\ first = NextSlot(idx[c])
                          /\ idx[c] # last
                          /\ queue[idx[c]] # NULL

\* What the indices mean at every step, also half way through a method: an
\* empty ring has first_ = last_ (enqueue relies on it) and the slots in use
\* hold pointers.
IndexInv ==
    /\ isEmpty => first = last
    /\ ~isEmpty => \A i \in Used : queue[i] # NULL
    /\ \A c \in Cores : InsideInv(c)

\* The next method of the other core is not kept out for ever: a method that
\* took the mutex releases it on every path.
MutexReleased == \A c \in Cores : owner = c ~> owner # c

-----------------------------------------------------------------------------
(* SCQueue implements BoundedFifo: the ring from first_ to last_ is the    *)
(* queue, and a core that advanced first_ already owns the slot it will    *)
(* read.                                                                   *)

Count ==
    IF isEmpty THEN 0
    ELSE IF first <= last THEN last - first + 1
    ELSE last + Capacity - first + 1

Contents == [k \in 1..Count |-> queue[(first + (k - 1)) % Capacity]]

Held == [c \in Cores |-> IF pc[c] = "fetch" THEN queue[idx[c]] ELSE item[c]]

Fifo == INSTANCE BoundedFifo WITH fifo <- Contents, held <- Held

\* Every step of the ring buffer is a step of an atomic bounded FIFO or
\* invisible: no item is lost, duplicated, reordered or overwritten.
ImplementsFifo == Fifo!Spec

\* The ownership discipline of the FIFO, read off the ring buffer.
FifoOwnership == Fifo!Ownership
=============================================================================
