------------------------- MODULE BoundedFifoProofs -------------------------
(***************************************************************************)
(* The ownership discipline of the abstract queue, for any number of cores,*)
(* any set of addresses and any capacity.                                  *)
(***************************************************************************)
EXTENDS BoundedFifo, SequenceTheorems, TLAPS

IInv == TypeOK /\ Ownership

\* The initial queue is well typed and owns nothing.
LEMMA InitIInv == Init => IInv
  BY NullAssumption, CapacityAssumption
     DEF Init, IInv, TypeOK, Ownership, Queued, HeldItems, Answers

\* One case per method; only the methods that move a pointer say anything
\* about ownership.
LEMMA NextIInv == IInv /\ [Next]_vars => IInv'
<1> SUFFICES ASSUME IInv, [Next]_vars PROVE IInv'
  OBVIOUS
<1> USE NullAssumption, CapacityAssumption
<1>1. CASE UNCHANGED vars
  BY <1>1 DEF vars, IInv, TypeOK, Ownership, Queued, HeldItems
<1>2. ASSUME NEW c \in Cores, New(c) PROVE IInv'
  <2>1. PICK x \in Items \ live : /\ held' = [held EXCEPT ![c] = x]
                                  /\ live' = live \cup {x}
    BY <1>2 DEF New
  <2>2. TypeOK'
    BY <1>2, <2>1 DEF New, IInv, TypeOK
  <2>3. Ownership'
    <3>1. HeldItems' = HeldItems \cup {x}
      BY <1>2, <2>1 DEF New, HeldItems, IInv, TypeOK
    <3>2. Queued' = Queued /\ x \notin Queued /\ x \notin HeldItems
      BY <1>2, <2>1 DEF New, Queued, IInv, Ownership
    <3>3. \A d \in Cores : held[d] # x
      BY <3>2 DEF HeldItems
    <3> QED
      BY <1>2, <2>1, <3>1, <3>2, <3>3 DEF New, IInv, TypeOK, Ownership
  <2> QED
    BY <2>2, <2>3 DEF IInv
<1>3. ASSUME NEW c \in Cores, Discard(c), answer' \in [Cores -> Answers] PROVE IInv'
  <2>1. TypeOK'
    BY <1>3 DEF Discard, IInv, TypeOK
  <2>2. HeldItems' = HeldItems \ {held[c]}
    BY <1>3 DEF Discard, HeldItems, IInv, TypeOK, Ownership
  <2>3. Queued' = Queued /\ held[c] \notin Queued
    BY <1>3 DEF Discard, Queued, HeldItems, IInv, Ownership
  <2>4. Ownership'
    BY <1>3, <2>2, <2>3 DEF Discard, IInv, TypeOK, Ownership
  <2> QED
    BY <2>1, <2>4 DEF IInv
<1>4. ASSUME NEW c \in Cores, Enqueue(c) PROVE IInv'
  <2>1. held[c] \in Items /\ Len(fifo) \in Nat
    BY <1>4 DEF Enqueue, IInv, TypeOK
  <2>2. /\ fifo' \in Seq(Items)
        /\ Len(fifo') = Len(fifo) + 1
        /\ \A k \in 1..Len(fifo) : fifo'[k] = fifo[k]
        /\ fifo'[Len(fifo) + 1] = held[c]
    BY <1>4, <2>1, AppendProperties DEF Enqueue, IInv, TypeOK
  <2>3. TypeOK'
    <3>1. answer' \in [Cores -> Answers]
      BY <1>4 DEF Enqueue, Returns, Answers, IInv, TypeOK
    <3>2. Len(fifo') <= Capacity
      BY <1>4, <2>1, <2>2 DEF Enqueue
    <3>3. held' \in [Cores -> Items \cup {NULL}] /\ live' \subseteq Items
      BY <1>4 DEF Enqueue, IInv, TypeOK
    <3> QED
      BY <2>2, <3>1, <3>2, <3>3 DEF TypeOK
  <2>4. HeldItems' = HeldItems \ {held[c]} /\ held[c] \in HeldItems
    BY <1>4, <2>1 DEF Enqueue, HeldItems, IInv, TypeOK, Ownership
  <2>5. Queued' = Queued \cup {held[c]}
    <3>1. ASSUME NEW k \in 1..(Len(fifo) + 1), k # Len(fifo) + 1
          PROVE  k \in 1..Len(fifo)
      BY <2>1, <3>1
    <3>2. 1..Len(fifo) \subseteq 1..(Len(fifo) + 1) /\ Len(fifo) + 1 \in 1..(Len(fifo) + 1)
      BY <2>1
    <3> QED
      BY <2>2, <3>1, <3>2 DEF Queued
  <2>6. \A j, k \in 1..Len(fifo') : fifo'[j] = fifo'[k] => j = k
    <3>1. \A k \in 1..Len(fifo) : fifo[k] # held[c]
      BY <2>4 DEF Queued, IInv, Ownership
    <3> QED
      BY <2>1, <2>2, <3>1 DEF IInv, Ownership
  <2>7. Ownership'
    BY <1>4, <2>1, <2>4, <2>5, <2>6 DEF Enqueue, IInv, TypeOK, Ownership
  <2> QED
    BY <2>3, <2>7 DEF IInv
<1>5. ASSUME NEW c \in Cores, Delete(c) \/ EnqueueFull(c) PROVE IInv'
  <2>1. Discard(c)
    BY <1>5 DEF Delete, EnqueueFull
  <2>2. answer' \in [Cores -> Answers]
    BY <1>5 DEF Delete, EnqueueFull, Returns, Answers, IInv, TypeOK
  <2> QED
    BY <1>3, <2>1, <2>2
<1>6. ASSUME NEW c \in Cores, Dequeue(c) PROVE IInv'
  <2>1. fifo \in Seq(Items) /\ fifo # <<>>
    BY <1>6 DEF Dequeue, IInv, TypeOK
  <2>2. /\ Len(fifo) \in Nat \ {0}
        /\ fifo' \in Seq(Items)
        /\ Len(fifo') = Len(fifo) - 1
        /\ \A k \in 1..(Len(fifo) - 1) : fifo'[k] = fifo[k + 1]
        /\ Head(fifo) = fifo[1]
        /\ fifo[1] \in Items
    BY <1>6, <2>1, HeadTailProperties, EmptySeq DEF Dequeue
  <2>3. TypeOK'
    BY <1>6, <2>2 DEF Dequeue, IInv, TypeOK
  <2>4. HeldItems' = HeldItems \cup {fifo[1]}
    BY <1>6, <2>2 DEF Dequeue, HeldItems, IInv, TypeOK
  <2>5. Queued' = Queued \ {fifo[1]} /\ fifo[1] \in Queued
    <3>1. \A k \in 1..(Len(fifo) - 1) : k + 1 \in 1..Len(fifo) /\ k + 1 # 1
      BY <2>2
    <3>2. \A k \in 1..Len(fifo) : k # 1 => k - 1 \in 1..(Len(fifo) - 1) /\ (k - 1) + 1 = k
      BY <2>2
    <3>3. 1 \in 1..Len(fifo)
      BY <2>2
    <3>4. Queued' = {fifo[k + 1] : k \in 1..(Len(fifo) - 1)}
      BY <2>2 DEF Queued
    <3>5. \A j, k \in 1..Len(fifo) : fifo[j] = fifo[k] => j = k
      BY DEF IInv, Ownership
    <3>6. ASSUME NEW x \in Queued' PROVE x \in Queued /\ x # fifo[1]
      <4>1. PICK k \in 1..(Len(fifo) - 1) : x = fifo[k + 1]
        BY <3>4
      <4> QED
        BY <4>1, <3>1, <3>3, <3>5 DEF Queued
    <3>7. ASSUME NEW x \in Queued, x # fifo[1] PROVE x \in Queued'
      <4>1. PICK k \in 1..Len(fifo) : x = fifo[k]
        BY DEF Queued
      <4>2. k - 1 \in 1..(Len(fifo) - 1) /\ x = fifo[(k - 1) + 1]
        BY <4>1, <3>2, <3>7
      <4> QED
        BY <4>2, <3>4
    <3>8. fifo[1] \in Queued
      BY <3>3 DEF Queued
    <3> QED
      BY <3>6, <3>7, <3>8
  <2>6. \A j, k \in 1..Len(fifo') : fifo'[j] = fifo'[k] => j = k
    BY <2>2 DEF IInv, Ownership
  <2>7. \A d \in Cores : held[d] # fifo[1]
    BY <2>2, <2>5 DEF HeldItems, IInv, Ownership
  <2>8. Ownership'
    <3>1. live' = Queued' \cup HeldItems'
      BY <1>6, <2>4, <2>5 DEF Dequeue, IInv, Ownership
    <3>2. Queued' \cap HeldItems' = {}
      BY <2>4, <2>5 DEF IInv, Ownership
    <3>3. \A a, b \in Cores : held'[a] = held'[b] /\ held'[a] # NULL => a = b
      BY <1>6, <2>2, <2>7 DEF Dequeue, IInv, TypeOK, Ownership
    <3> QED
      BY <3>1, <3>2, <3>3, <2>6 DEF Ownership
  <2> QED
    BY <2>3, <2>8 DEF IInv
<1>7. ASSUME NEW c \in Cores, Peek(c) \/ IsEmpty(c) PROVE IInv'
  <2>1. fifo # <<>> => Head(fifo) \in Items
    BY HeadTailProperties DEF IInv, TypeOK
  <2>2. answer' \in [Cores -> Answers]
    BY <1>7, <2>1 DEF Peek, IsEmpty, Returns, IInv, TypeOK, Answers
  <2>3. UNCHANGED <<fifo, held, live>>
    BY <1>7 DEF Peek, IsEmpty
  <2>4. Ownership'
    BY <2>3 DEF IInv, Ownership, Queued, HeldItems
  <2> QED
    BY <2>2, <2>3, <2>4 DEF IInv, TypeOK
<1> QED
  BY <1>1, <1>2, <1>4, <1>5, <1>6, <1>7 DEF Next

\* The queue always holds well typed items, at most Capacity of them.
THEOREM TypeCorrect == Spec => []TypeOK
  BY InitIInv, NextIInv, PTL DEF Spec, IInv

\* No event object is leaked, deleted twice or owned twice.
THEOREM OwnershipTheorem == Spec => []Ownership
  BY InitIInv, NextIInv, PTL DEF Spec, IInv
=============================================================================
