--------------------------- MODULE SCQueueProofs ---------------------------
(***************************************************************************)
(* The ring buffer is safe for any number of cores and any capacity, and   *)
(* it implements the atomic bounded FIFO.                                  *)
(***************************************************************************)
EXTENDS SCQueue, SequenceTheorems, TLAPS

IInv == TypeOK /\ MutexInv /\ IndexInv

-----------------------------------------------------------------------------
(* Index arithmetic. *)

LEMMA NextSlotValue ==
  ASSUME NEW i \in Slots
  PROVE  /\ NextSlot(i) = IF i + 1 = Capacity THEN 0 ELSE i + 1
         /\ NextSlot(i) \in Slots
  BY CapacityAssumption DEF NextSlot, Slots

LEMMA WrapValue ==
  ASSUME NEW i \in Slots, NEW j \in Slots
  PROVE  /\ (i + j) % Capacity = IF i + j < Capacity THEN i + j ELSE i + j - Capacity
         /\ (i + j) % Capacity \in Slots
  BY CapacityAssumption DEF Slots

-----------------------------------------------------------------------------
(* The inductive invariant. *)

LEMMA InitIInv == Init => IInv
  BY CapacityAssumption, FreeAssumption
     DEF Init, IInv, TypeOK, MutexInv, IndexInv, InsideInv, Slots, PCs, Answers

LEMMA TypeStep == TypeOK /\ IndexInv /\ [Next]_vars => TypeOK'
<1> SUFFICES ASSUME TypeOK, IndexInv, [Next]_vars PROVE TypeOK'
  OBVIOUS
<1> USE DEF TypeOK, ring, PCs, Goto, Lock, Unlock
<1>1. CASE UNCHANGED vars
  BY <1>1 DEF vars
<1>2. ASSUME NEW c \in Cores, New(c) \/ Delete(c) PROVE TypeOK'
  BY <1>2 DEF New, Delete
<1>3. ASSUME NEW c \in Cores,
   EnqueueEnter(c) \/ DequeueEnter(c) \/ QueryEnter(c) PROVE TypeOK'
  BY <1>3 DEF EnqueueEnter, DequeueEnter, QueryEnter
<1>4. ASSUME NEW c \in Cores, EnqueueTest(c) PROVE TypeOK'
  BY <1>4, NextSlotValue DEF EnqueueTest, Returns, Answers
<1>5. ASSUME NEW c \in Cores, EnqueueStore(c) PROVE TypeOK'
  BY <1>5 DEF EnqueueStore, Returns, Answers
<1>6. ASSUME NEW c \in Cores, DequeueNone(c) \/ DequeueLast(c) PROVE TypeOK'
  BY <1>6 DEF DequeueNone, DequeueLast
<1>7. ASSUME NEW c \in Cores, DequeueAdvance(c) PROVE TypeOK'
  BY <1>7, NextSlotValue DEF DequeueAdvance
<1>8. ASSUME NEW c \in Cores, DequeueFetch(c) PROVE TypeOK'
  BY <1>8 DEF DequeueFetch
<1>9. ASSUME NEW c \in Cores, PeekRead(c) \/ IsEmptyRead(c) PROVE TypeOK'
  BY <1>9 DEF PeekRead, IsEmptyRead, Returns, Answers
<1>10. ASSUME NEW c \in Cores, Exit(c) PROVE TypeOK'
  BY <1>10 DEF Exit
<1> QED
  BY <1>1, <1>2, <1>3, <1>4, <1>5, <1>6, <1>7, <1>8, <1>9, <1>10 DEF Next, Inside

LEMMA MutexStep == TypeOK /\ MutexInv /\ [Next]_vars => MutexInv'
<1> SUFFICES ASSUME TypeOK, MutexInv, [Next]_vars PROVE MutexInv'
  OBVIOUS
<1> USE DEF TypeOK, MutexInv, Goto, Lock, Unlock
<1>1. CASE UNCHANGED vars
  BY <1>1 DEF vars
<1>2. ASSUME NEW c \in Cores, New(c) \/ Delete(c) PROVE MutexInv'
  BY <1>2 DEF New, Delete
<1>3. ASSUME NEW c \in Cores,
   EnqueueEnter(c) \/ DequeueEnter(c) \/ QueryEnter(c) PROVE MutexInv'
  BY <1>3, FreeAssumption DEF EnqueueEnter, DequeueEnter, QueryEnter
<1>4. ASSUME NEW c \in Cores, EnqueueTest(c) \/ EnqueueStore(c) PROVE MutexInv'
  BY <1>4 DEF EnqueueTest, EnqueueStore
<1>5. ASSUME NEW c \in Cores,
             DequeueNone(c) \/ DequeueLast(c) \/ DequeueAdvance(c) \/ DequeueFetch(c)
      PROVE  MutexInv'
  BY <1>5 DEF DequeueNone, DequeueLast, DequeueAdvance, DequeueFetch
<1>6. ASSUME NEW c \in Cores, PeekRead(c) \/ IsEmptyRead(c) PROVE MutexInv'
  BY <1>6 DEF PeekRead, IsEmptyRead
<1>7. ASSUME NEW c \in Cores, Exit(c) PROVE MutexInv'
  BY <1>7, FreeAssumption DEF Exit
<1> QED
  BY <1>1, <1>2, <1>3, <1>4, <1>5, <1>6, <1>7 DEF Next, Inside

\* Only the owner of the mutex is inside a method, so a step of core c leaves
\* the other cores' conditions alone.
LEMMA IndexStep == IInv /\ [Next]_vars => IndexInv'
<1> SUFFICES ASSUME IInv, [Next]_vars PROVE IndexInv'
  OBVIOUS
<1> USE DEF IInv, TypeOK, Goto, Lock, Unlock, ring
<1>0. \A c, d \in Cores : pc[c] # "idle" /\ pc[d] # "idle" => c = d
  BY DEF MutexInv
<1>1. CASE UNCHANGED vars
  BY <1>1 DEF vars, IndexInv, InsideInv, Used, IsFull, NextSlot
<1>2. ASSUME NEW c \in Cores, New(c) PROVE IndexInv'
  BY <1>2, NullAssumption DEF New, IndexInv, InsideInv, Used, IsFull, NextSlot
<1>3. ASSUME NEW c \in Cores, Delete(c) PROVE IndexInv'
  BY <1>3 DEF Delete, IndexInv, InsideInv, Used, IsFull, NextSlot
<1>4. ASSUME NEW c \in Cores,
   EnqueueEnter(c) \/ DequeueEnter(c) \/ QueryEnter(c) PROVE IndexInv'
  BY <1>4 DEF EnqueueEnter, DequeueEnter, QueryEnter, IndexInv, InsideInv, Used, IsFull,
              NextSlot
<1>5. ASSUME NEW c \in Cores, EnqueueTest(c) PROVE IndexInv'
  BY <1>5, <1>0 DEF EnqueueTest, IndexInv, InsideInv, Used, IsFull, NextSlot
<1>6. ASSUME NEW c \in Cores, EnqueueStore(c) PROVE IndexInv'
  <2>1. ~IsFull /\ idx[c] = NextSlot(last) /\ item[c] # NULL
    BY <1>6 DEF EnqueueStore, IndexInv, InsideInv
  <2>2. \A d \in Cores : InsideInv(d)'
    BY <1>6, <1>0 DEF EnqueueStore, InsideInv
  <2>3. ASSUME NEW i \in Used' PROVE queue'[i] # NULL
    <3>1. CASE isEmpty
      <4>1. first = last /\ i = last
        BY <1>6, <3>1 DEF EnqueueStore, IndexInv, Used, Slots
      <4> QED
        BY <1>6, <2>1, <3>1, <4>1 DEF EnqueueStore
    <3>2. CASE ~isEmpty
      <4>1. last' = NextSlot(last) /\ queue' = [queue EXCEPT ![last'] = item[c]] /\ first' = first
        BY <1>6, <2>1, <3>2 DEF EnqueueStore
      <4>2. first # NextSlot(last)
        BY <2>1, <3>2 DEF IsFull
      <4>3. i \in Slots
        BY <4>1, NextSlotValue, CapacityAssumption DEF Used, Slots
      <4>4. i # last' => i \in Used
        <5>1. last' = IF last + 1 = Capacity THEN 0 ELSE last + 1
          BY <4>1, NextSlotValue
        <5>2. first # last' /\ first \in 0..(Capacity - 1) /\ last \in 0..(Capacity - 1)
          BY <4>1, <4>2 DEF Slots
        <5>3. CASE first <= last
          BY <4>1, <4>3, <5>1, <5>2, <5>3, CapacityAssumption DEF Used, Slots
        <5>4. CASE first > last
          BY <4>1, <4>3, <5>1, <5>2, <5>4, CapacityAssumption DEF Used, Slots
        <5> QED
          BY <5>2, <5>3, <5>4, CapacityAssumption
      <4>5. i # last' => queue[i] # NULL
        BY <3>2, <4>4 DEF IndexInv
      <4> QED
        BY <2>1, <4>1, <4>3, <4>5
    <3> QED
      BY <3>1, <3>2
  <2>4. ~isEmpty'
    BY <1>6 DEF EnqueueStore
  <2> QED
    BY <2>2, <2>3, <2>4 DEF IndexInv
<1>7. ASSUME NEW c \in Cores, DequeueNone(c) \/ DequeueLast(c) PROVE IndexInv'
  BY <1>7, <1>0 DEF DequeueNone, DequeueLast, IndexInv, InsideInv, Used, IsFull, NextSlot
<1>8. ASSUME NEW c \in Cores, DequeueAdvance(c) PROVE IndexInv'
  <2>1. /\ idx'[c] = first
        /\ first' = NextSlot(first)
        /\ first # last
        /\ UNCHANGED <<queue, last, isEmpty, item>>
        /\ ~isEmpty
        /\ pc[c] = "dequeue"
        /\ pc'[c] = "fetch"
    BY <1>8 DEF DequeueAdvance
  <2>2. first \in Used
    BY <2>1, CapacityAssumption DEF Used, Slots
  <2>3. InsideInv(c)'
    BY <2>1, <2>2, NextSlotValue DEF IndexInv, InsideInv
  <2>4. \A d \in Cores : InsideInv(d)'
    <3>1. ASSUME NEW d \in Cores, d # c PROVE pc'[d] = "idle"
      BY <1>8, <2>1, <1>0, <3>1 DEF DequeueAdvance
    <3> QED
      BY <2>3, <3>1 DEF InsideInv
  <2>5. Used' \subseteq Used
    <3>1. first' = IF first + 1 = Capacity THEN 0 ELSE first + 1
      BY <2>1, NextSlotValue
    <3>2. first \in 0..(Capacity - 1) /\ last \in 0..(Capacity - 1)
      BY DEF Slots
    <3>3. CASE first <= last
      BY <2>1, <3>1, <3>2, <3>3, CapacityAssumption DEF Used, Slots
    <3>4. CASE first > last
      BY <2>1, <3>1, <3>2, <3>4, CapacityAssumption DEF Used, Slots
    <3> QED
      BY <3>2, <3>3, <3>4, CapacityAssumption
  <2> QED
    BY <2>1, <2>4, <2>5 DEF IndexInv
<1>9. ASSUME NEW c \in Cores, DequeueFetch(c) PROVE IndexInv'
  BY <1>9, <1>0 DEF DequeueFetch, IndexInv, InsideInv, Used, IsFull, NextSlot
<1>10. ASSUME NEW c \in Cores, PeekRead(c) \/ IsEmptyRead(c) PROVE IndexInv'
  BY <1>10 DEF PeekRead, IsEmptyRead, IndexInv, InsideInv, Used, IsFull, NextSlot
<1>11. ASSUME NEW c \in Cores, Exit(c) PROVE IndexInv'
  BY <1>11 DEF Exit, IndexInv, InsideInv, Used, IsFull, NextSlot
<1> QED
  BY <1>1, <1>2, <1>3, <1>4, <1>5, <1>6, <1>7, <1>8, <1>9, <1>10, <1>11 DEF Next, Inside

LEMMA NextIInv == IInv /\ [Next]_vars => IInv'
  BY TypeStep, MutexStep, IndexStep DEF IInv

\* The inductive invariant holds at every step.
LEMMA Invariance == Spec => []IInv
  BY InitIInv, NextIInv, PTL DEF Spec

\* Both indices stay inside the ring and every result is a pointer or NULL.
THEOREM TypeCorrect == Spec => []TypeOK
  BY Invariance, PTL DEF IInv

\* The core inside a method is the owner of the mutex, so at most one is.
THEOREM MutualExclusion == Spec => []MutexInv
  BY Invariance, PTL DEF IInv

\* The indices mean what the methods assume, also half way through a method.
THEOREM IndicesConsistent == Spec => []IndexInv
  BY Invariance, PTL DEF IInv
-----------------------------------------------------------------------------
(* The refinement. *)

\* How many items the indices denote.
LEMMA CountValue ==
  ASSUME TypeOK, isEmpty => first = last
  PROVE  /\ Count \in 0..Capacity
         /\ Count = 0 <=> isEmpty
         /\ Count = Capacity <=> IsFull
<1>1. first \in 0..(Capacity - 1) /\ last \in 0..(Capacity - 1) /\ isEmpty \in BOOLEAN
  BY DEF TypeOK, Slots
<1>2. NextSlot(last) = IF last + 1 = Capacity THEN 0 ELSE last + 1
  BY NextSlotValue DEF TypeOK
<1> QED
  BY <1>1, <1>2, CapacityAssumption DEF Count, IsFull

\* The k-th item is at the slot k - 1 after first_, and that slot is in use.
LEMMA SlotValue ==
  ASSUME TypeOK, isEmpty => first = last, NEW k \in 1..Count
  PROVE  /\ (first + (k - 1)) % Capacity =
              IF first + k - 1 < Capacity THEN first + k - 1 ELSE first + k - 1 - Capacity
         /\ (first + (k - 1)) % Capacity \in Used
         /\ (first + (k - 1)) % Capacity \in Slots
<1>1. first \in 0..(Capacity - 1) /\ last \in 0..(Capacity - 1) /\ isEmpty \in BOOLEAN
  BY DEF TypeOK, Slots
<1>2. k - 1 \in 0..(Capacity - 1) /\ ~isEmpty
  BY CountValue, CapacityAssumption
<1>3. /\ (first + (k - 1)) % Capacity =
           IF first + (k - 1) < Capacity THEN first + (k - 1) ELSE first + (k - 1) - Capacity
      /\ (first + (k - 1)) % Capacity \in Slots
  BY <1>1, <1>2, WrapValue DEF Slots
<1>4. k \in Int /\ k >= 1 /\ k <= Count
  BY CountValue
<1> QED
  BY <1>1, <1>2, <1>3, <1>4, CapacityAssumption DEF Used, Slots, Count

LEMMA ContentsSeq ==
  ASSUME IInv
  PROVE  Contents \in Seq(Items) /\ Len(Contents) = Count /\ Count \in Nat
<1>1. Count \in Nat
  BY CountValue, CapacityAssumption DEF IInv, IndexInv
<1>2. \A k \in 1..Count : queue[(first + (k - 1)) % Capacity] \in Items
  <2> SUFFICES ASSUME NEW k \in 1..Count
               PROVE  queue[(first + (k - 1)) % Capacity] \in Items
    OBVIOUS
  <2>1. /\ (first + (k - 1)) % Capacity \in Used
        /\ (first + (k - 1)) % Capacity \in Slots
    BY SlotValue DEF IInv, IndexInv
  <2>2. ~isEmpty
    BY CountValue DEF IInv, IndexInv
  <2> QED
    BY <2>1, <2>2 DEF IInv, IndexInv, TypeOK
<1> QED
  BY <1>1, <1>2 DEF Contents
LEMMA ContentsElement ==
  ASSUME IInv, NEW k \in 1..Count
  PROVE  Contents[k] = queue[IF first + k - 1 < Capacity THEN first + k - 1
                                                         ELSE first + k - 1 - Capacity]
  BY SlotValue DEF IInv, IndexInv, Contents

\* The same facts of the next state.
ContentsOK ==
    /\ Contents \in Seq(Items)
    /\ Len(Contents) = Count
    /\ Count \in Nat
    /\ \A k \in 1..Count :
          Contents[k] = queue[IF first + k - 1 < Capacity THEN first + k - 1
                                                          ELSE first + k - 1 - Capacity]

LEMMA ContentsFacts == IInv => ContentsOK
  BY ContentsSeq, ContentsElement DEF ContentsOK

LEMMA ContentsFactsNext == IInv' => ContentsOK'
  BY ContentsFacts, PTL

\* A step that leaves the ring alone leaves the contents alone.
LEMMA ContentsUnchanged == UNCHANGED ring => UNCHANGED Contents
  BY DEF ring, Contents, Count

\* A store appends to the contents.
LEMMA StoreAppends ==
  ASSUME IInv, IInv', NEW c \in Cores, EnqueueStore(c)
  PROVE  /\ Count < Capacity
         /\ Contents' = Append(Contents, item[c])
<1>1. /\ first \in 0..(Capacity - 1) /\ last \in 0..(Capacity - 1) /\ isEmpty \in BOOLEAN
      /\ queue \in [Slots -> Items \cup {NULL}] /\ item[c] \in Items
  BY DEF IInv, TypeOK, Slots, EnqueueStore, IndexInv, InsideInv
<1>2. ~IsFull /\ idx[c] = NextSlot(last)
  BY DEF EnqueueStore, IInv, IndexInv, InsideInv
<1>3. NextSlot(last) = IF last + 1 = Capacity THEN 0 ELSE last + 1
  BY NextSlotValue DEF IInv, TypeOK
<1>4. Count \in 0..(Capacity - 1)
  BY <1>2, CountValue, CapacityAssumption DEF IInv, IndexInv
<1>5. /\ last' = IF isEmpty THEN last ELSE NextSlot(last)
      /\ queue' = [queue EXCEPT ![last'] = item[c]]
      /\ first' = first /\ isEmpty' = FALSE
  BY <1>2 DEF EnqueueStore
<1>6. isEmpty => first = last
  BY DEF IInv, IndexInv
<1>7. Count' = Count + 1
  BY <1>1, <1>2, <1>3, <1>5, <1>6, CapacityAssumption DEF Count, IsFull
<1>8. Contents' \in Seq(Items) /\ Len(Contents') = Count'
  BY ContentsFactsNext DEF ContentsOK
<1>9. Contents \in Seq(Items) /\ Len(Contents) = Count
  BY ContentsSeq
<1>10. /\ Append(Contents, item[c]) \in Seq(Items)
       /\ Len(Append(Contents, item[c])) = Count + 1
       /\ \A k \in 1..Count : Append(Contents, item[c])[k] = Contents[k]
       /\ Append(Contents, item[c])[Count + 1] = item[c]
  BY <1>1, <1>9, AppendProperties
<1>11. ASSUME NEW k \in 1..(Count + 1) PROVE Contents'[k] = Append(Contents, item[c])[k]
  <2> DEFINE slot == IF first + k - 1 < Capacity THEN first + k - 1 ELSE first + k - 1 - Capacity
  <2>1. Contents'[k] = queue'[slot]
    <3>1. \A j \in 1..Count' : Contents'[j] = queue'[IF first' + j - 1 < Capacity
                                 THEN first' + j - 1 ELSE first' + j - 1 - Capacity]
      BY ContentsFactsNext DEF ContentsOK
    <3> QED
      BY <3>1, <1>5, <1>7
  <2>2. CASE k = Count + 1
    <3>1. slot = last'
      BY <2>2, <1>1, <1>2, <1>3, <1>4, <1>5, <1>6, CapacityAssumption DEF Count, IsFull
    <3>2. last' \in Slots
      BY <1>1, <1>3, <1>5, CapacityAssumption DEF Slots
    <3>3. queue'[last'] = item[c]
      BY <3>2, <1>1, <1>5
    <3> HIDE DEF slot
    <3> QED
      BY <2>1, <2>2, <3>1, <3>3, <1>10
  <2>3. CASE k # Count + 1
    <3>1. k \in 1..Count
      BY <2>3, <1>4
    <3>2. slot # last'
      BY <3>1, <1>1, <1>2, <1>3, <1>4, <1>5, <1>6, CapacityAssumption DEF Count, IsFull
    <3>3. slot \in Slots
      BY <1>1, <1>4, <3>1, CapacityAssumption DEF Slots
    <3>4. Contents[k] = queue[slot]
      BY <3>1, ContentsElement
    <3> QED
      BY <2>1, <3>1, <3>2, <3>3, <3>4, <1>1, <1>5, <1>10
  <2> QED
    BY <2>2, <2>3
<1> HIDE DEF Count, Contents
<1>12. \A k \in 1..Len(Contents') : Contents'[k] = Append(Contents, item[c])[k]
  BY <1>7, <1>8, <1>11
<1>13. Contents' = Append(Contents, item[c])
  BY <1>7, <1>8, <1>10, <1>12, SeqEqual
<1> QED
  BY <1>4, <1>13, CapacityAssumption

\* Either branch of dequeue() takes the head off the contents.
LEMMA DequeueTakesHead ==
  ASSUME IInv, IInv', NEW c \in Cores, DequeueLast(c) \/ DequeueAdvance(c)
  PROVE  /\ Contents # <<>>
         /\ Head(Contents) = queue[first]
         /\ Contents' = Tail(Contents)
<1>1. first \in 0..(Capacity - 1) /\ last \in 0..(Capacity - 1) /\ isEmpty \in BOOLEAN
  BY DEF IInv, TypeOK, Slots
<1>2. ~isEmpty /\ UNCHANGED <<queue, last>>
  BY DEF DequeueLast, DequeueAdvance
<1>3. NextSlot(first) = IF first + 1 = Capacity THEN 0 ELSE first + 1
  BY NextSlotValue DEF IInv, TypeOK
<1>4. Count \in 1..Capacity
  BY <1>2, CountValue, CapacityAssumption DEF IInv, IndexInv
<1>5. \/ first = last /\ first' = first /\ isEmpty' = TRUE
      \/ first # last /\ first' = NextSlot(first) /\ isEmpty' = FALSE
  BY <1>2 DEF DequeueLast, DequeueAdvance, IInv, TypeOK
<1>6. Count' = Count - 1
  BY <1>1, <1>2, <1>3, <1>5, CapacityAssumption DEF Count
<1>7. Contents \in Seq(Items) /\ Len(Contents) = Count
  BY ContentsSeq
<1>8. Contents' \in Seq(Items) /\ Len(Contents') = Count'
  BY ContentsFactsNext DEF ContentsOK
<1>9. Contents # <<>>
  BY <1>4, <1>7, EmptySeq
<1>10. /\ Tail(Contents) \in Seq(Items)
       /\ Len(Tail(Contents)) = Count - 1
       /\ \A k \in 1..(Count - 1) : Tail(Contents)[k] = Contents[k + 1]
       /\ Head(Contents) = Contents[1]
  BY <1>7, <1>9, HeadTailProperties
<1>11. Contents[1] = queue[first]
  BY <1>1, <1>4, ContentsElement, CapacityAssumption
<1>12. ASSUME NEW k \in 1..(Count - 1) PROVE Contents'[k] = Contents[k + 1]
  <2>1. Count > 1 /\ k + 1 \in 1..Count /\ k \in 1..Count'
    BY <1>4, <1>6
  <2>2. first # last
    BY <2>1, <1>1, <1>2 DEF Count
  <2>3. Contents'[k] = queue'[IF first' + k - 1 < Capacity
                              THEN first' + k - 1 ELSE first' + k - 1 - Capacity]
    <3>1. \A j \in 1..Count' : Contents'[j] = queue'[IF first' + j - 1 < Capacity
                                 THEN first' + j - 1 ELSE first' + j - 1 - Capacity]
      BY ContentsFactsNext DEF ContentsOK
    <3> QED
      BY <3>1, <2>1
  <2>4. Contents[k + 1] = queue[IF first + (k + 1) - 1 < Capacity
                                THEN first + (k + 1) - 1 ELSE first + (k + 1) - 1 - Capacity]
    BY <2>1, ContentsElement
  <2>5. (IF first' + k - 1 < Capacity THEN first' + k - 1 ELSE first' + k - 1 - Capacity)
         = (IF first + (k + 1) - 1 < Capacity THEN first + (k + 1) - 1
                                              ELSE first + (k + 1) - 1 - Capacity)
    BY <2>1, <2>2, <1>1, <1>3, <1>4, <1>5, CapacityAssumption
  <2> QED
    BY <2>3, <2>4, <2>5, <1>2
<1>13. Contents' = Tail(Contents)
  BY <1>6, <1>8, <1>10, <1>12, SeqEqual
<1> QED
  BY <1>9, <1>10, <1>11, <1>13

\* An action that is no method of the abstract queue: nothing it can see moves.
LEMMA Stutter ==
  ASSUME UNCHANGED <<ring, live, answer, Held>>
  PROVE  UNCHANGED Fifo!vars
  BY ContentsUnchanged DEF Fifo!vars

LEMMA InitRefines == Init => Fifo!Init
<1> SUFFICES ASSUME Init PROVE Fifo!Init
  OBVIOUS
<1>1. Contents = <<>>
  BY DEF Init, Contents, Count
<1>2. Held = [c \in Cores |-> NULL]
  BY DEF Init, Held
<1> QED
  BY <1>1, <1>2 DEF Init, Fifo!Init

\* Every step of the ring buffer is a method of the abstract queue or a
\* stutter: New, Delete, peek() and isEmpty() map to themselves, enqueue()
\* takes effect at its test (full) or its store, dequeue() where it reads or
\* leaves the head.
LEMMA NextRefines == IInv /\ IInv' /\ [Next]_vars => [Fifo!Next]_Fifo!vars
<1> SUFFICES ASSUME IInv, IInv', [Next]_vars PROVE [Fifo!Next]_Fifo!vars
  OBVIOUS
<1> USE DEF Goto, Lock, Unlock
<1>0. /\ pc \in [Cores -> PCs] /\ item \in [Cores -> Items \cup {NULL}]
      /\ idx \in [Cores -> Slots] /\ answer \in [Cores -> Answers]
  BY DEF IInv, TypeOK
<1>1. CASE UNCHANGED vars
  BY <1>1, Stutter DEF vars, ring, Held
<1>2. ASSUME NEW c \in Cores, New(c) PROVE Fifo!Next
  <2>1. PICK x \in Items \ live : /\ item' = [item EXCEPT ![c] = x]
                                  /\ live' = live \cup {x}
    BY <1>2 DEF New
  <2>2. Held' = [Held EXCEPT ![c] = x] /\ Held[c] = NULL
    BY <1>0, <1>2, <2>1 DEF New, Held, ring
  <2>3. Contents' = Contents
    BY <1>2, ContentsUnchanged DEF New
  <2>4. Fifo!New(c)
    BY <1>2, <2>1, <2>2, <2>3 DEF New, Fifo!New
  <2> QED
    BY <2>4 DEF Fifo!Next
<1>3. ASSUME NEW c \in Cores, Delete(c) PROVE Fifo!Next
  <2>1. Held' = [Held EXCEPT ![c] = NULL] /\ Held[c] = item[c]
    BY <1>0, <1>3 DEF Delete, Held, ring
  <2>2. Contents' = Contents
    BY <1>3, ContentsUnchanged DEF Delete
  <2>3. Fifo!Delete(c)
    BY <1>3, <2>1, <2>2 DEF Delete, Fifo!Delete, Fifo!Discard
  <2> QED
    BY <2>3 DEF Fifo!Next
<1>4. ASSUME NEW c \in Cores, EnqueueEnter(c) \/ DequeueEnter(c) \/ QueryEnter(c)
      PROVE  UNCHANGED Fifo!vars
  <2>1. UNCHANGED <<ring, item, idx, live, answer>>
    BY <1>4 DEF EnqueueEnter, DequeueEnter, QueryEnter
  <2>2. \A d \in Cores : pc[d] = "fetch" <=> pc'[d] = "fetch"
    BY <1>0, <1>4 DEF EnqueueEnter, DequeueEnter, QueryEnter
  <2>3. Held' = Held
    BY <2>1, <2>2 DEF Held, ring
  <2> QED
    BY <2>1, <2>3, Stutter
<1>5. ASSUME NEW c \in Cores, EnqueueTest(c) PROVE Fifo!Next \/ UNCHANGED Fifo!vars
  <2>1. UNCHANGED ring /\ pc[c] = "enqueue" /\ item[c] # NULL
    BY <1>5 DEF EnqueueTest, IInv, IndexInv, InsideInv
  <2>2. \A d \in Cores : pc[d] = "fetch" => d # c /\ idx'[d] = idx[d]
    BY <1>0, <1>5 DEF EnqueueTest
  <2>3. \A d \in Cores : pc[d] = "fetch" <=> pc'[d] = "fetch"
    BY <1>0, <1>5 DEF EnqueueTest
  <2>4. Contents' = Contents
    BY <2>1, ContentsUnchanged
  <2>5. CASE IsFull
    <3>1. Len(Contents) = Capacity
      BY <2>5, CountValue, ContentsSeq DEF IInv, IndexInv
    <3>2. live' = live \ {item[c]} /\ item' = [item EXCEPT ![c] = NULL]
      BY <1>5, <2>5 DEF EnqueueTest
    <3>3. Held' = [Held EXCEPT ![c] = NULL] /\ Held[c] = item[c]
      BY <1>0, <2>1, <2>2, <2>3, <3>2 DEF Held, ring
    <3>4. Fifo!EnqueueFull(c)
      BY <1>5, <2>1, <2>4, <2>5, <3>1, <3>2, <3>3
         DEF EnqueueTest, Returns, FullAnswer,
             Fifo!EnqueueFull, Fifo!Discard, Fifo!Returns, Fifo!FullAnswer
    <3> QED
      BY <3>4 DEF Fifo!Next
  <2>6. CASE ~IsFull
    <3>1. UNCHANGED <<live, item, answer>>
      BY <1>5, <2>6 DEF EnqueueTest
    <3>2. Held' = Held
      BY <2>1, <2>2, <2>3, <3>1 DEF Held, ring
    <3> QED
      BY <2>1, <3>1, <3>2, Stutter
  <2> QED
    BY <2>5, <2>6
<1>6. ASSUME NEW c \in Cores, EnqueueStore(c) PROVE Fifo!Next
  <2>1. pc[c] = "store" /\ item[c] # NULL
    BY <1>6 DEF EnqueueStore, IInv, IndexInv, InsideInv
  <2>2. \A d \in Cores : d # c => pc[d] # "fetch" /\ pc'[d] # "fetch"
    BY <1>0, <1>6, <2>1 DEF EnqueueStore, IInv, MutexInv
  <2>3. Held' = [Held EXCEPT ![c] = NULL] /\ Held[c] = item[c]
    BY <1>0, <1>6, <2>1, <2>2 DEF EnqueueStore, Held
  <2>4. Len(Contents) < Capacity /\ Contents' = Append(Contents, item[c])
    BY <1>6, StoreAppends, ContentsSeq
  <2>5. Fifo!Enqueue(c)
    BY <1>6, <2>1, <2>3, <2>4
       DEF EnqueueStore, Returns, QueuedAnswer, Fifo!Enqueue, Fifo!Returns, Fifo!QueuedAnswer
  <2> QED
    BY <2>5 DEF Fifo!Next
<1>7. ASSUME NEW c \in Cores, DequeueNone(c) PROVE UNCHANGED Fifo!vars
  <2>1. \A d \in Cores : pc[d] = "fetch" <=> pc'[d] = "fetch"
    BY <1>0, <1>7 DEF DequeueNone
  <2>2. Held' = Held
    BY <1>7, <2>1 DEF DequeueNone, Held, ring
  <2> QED
    BY <1>7, <2>2, Stutter DEF DequeueNone
<1>8. ASSUME NEW c \in Cores, DequeueLast(c) \/ DequeueAdvance(c) PROVE Fifo!Next
  <2>1. pc[c] = "dequeue" /\ item[c] = NULL
    BY <1>8 DEF DequeueLast, DequeueAdvance, IInv, IndexInv, InsideInv
  <2>2. \A d \in Cores : d # c => pc[d] # "fetch" /\ pc'[d] # "fetch"
    BY <1>0, <1>8, <2>1 DEF DequeueLast, DequeueAdvance, IInv, MutexInv
  <2>3. Held' = [Held EXCEPT ![c] = queue[first]] /\ Held[c] = NULL
    <3>1. Held[c] = NULL
      BY <2>1 DEF Held
    <3>2. Held'[c] = queue[first]
      BY <1>0, <1>8 DEF DequeueLast, DequeueAdvance, Held
    <3>3. \A d \in Cores : d # c => Held'[d] = Held[d]
      BY <1>0, <1>8, <2>2 DEF DequeueLast, DequeueAdvance, Held
    <3> QED
      BY <3>1, <3>2, <3>3 DEF Held
  <2>4. /\ Contents # <<>>
        /\ Head(Contents) = queue[first]
        /\ Contents' = Tail(Contents)
    BY <1>8, DequeueTakesHead
  <2>5. UNCHANGED <<live, answer>>
    BY <1>8 DEF DequeueLast, DequeueAdvance
  <2>6. Fifo!Dequeue(c)
    BY <2>3, <2>4, <2>5 DEF Fifo!Dequeue
  <2> QED
    BY <2>6 DEF Fifo!Next
<1>9. ASSUME NEW c \in Cores, DequeueFetch(c) PROVE UNCHANGED Fifo!vars
  <2>1. Held' = Held
    BY <1>0, <1>9 DEF DequeueFetch, Held, ring
  <2> QED
    BY <1>9, <2>1, Stutter DEF DequeueFetch
<1>10. ASSUME NEW c \in Cores, PeekRead(c) \/ IsEmptyRead(c) PROVE Fifo!Next
  <2>1. UNCHANGED <<ring, item, idx, live>>
    BY <1>10 DEF PeekRead, IsEmptyRead
  <2>2. \A d \in Cores : pc[d] = "fetch" <=> pc'[d] = "fetch"
    BY <1>0, <1>10 DEF PeekRead, IsEmptyRead
  <2>3. Held' = Held
    BY <2>1, <2>2 DEF Held, ring
  <2>4. Contents' = Contents
    BY <2>1, ContentsUnchanged
  <2>5. Contents = <<>> <=> isEmpty
    <3>1. Len(Contents) = Count /\ Contents \in Seq(Items) /\ (Count = 0 <=> isEmpty)
      BY ContentsSeq, CountValue DEF IInv, IndexInv
    <3> QED
      BY <3>1, EmptySeq
  <2>6. Contents # <<>> => Head(Contents) = queue[first]
    <3>1. SUFFICES ASSUME Contents # <<>> PROVE Contents[1] = queue[first]
      BY ContentsSeq, HeadTailProperties
    <3>2. Count \in 1..Capacity
      BY <2>5, <3>1, CountValue, CapacityAssumption DEF IInv, IndexInv
    <3> QED
      BY <3>2, ContentsElement, CapacityAssumption DEF IInv, TypeOK, Slots
  <2>7. Fifo!Peek(c) \/ Fifo!IsEmpty(c)
    BY <1>10, <2>1, <2>3, <2>4, <2>5, <2>6
       DEF PeekRead, IsEmptyRead, Returns, Fifo!Peek, Fifo!IsEmpty, Fifo!Returns, EmptyAnswer, NonEmptyAnswer,
           Fifo!EmptyAnswer, Fifo!NonEmptyAnswer
  <2> QED
    BY <2>7 DEF Fifo!Next
<1>11. ASSUME NEW c \in Cores, Exit(c) PROVE UNCHANGED Fifo!vars
  <2>1. \A d \in Cores : pc[d] = "fetch" <=> pc'[d] = "fetch"
    BY <1>0, <1>11 DEF Exit
  <2>2. Held' = Held
    BY <1>11, <2>1 DEF Exit, Held, ring
  <2> QED
    BY <1>11, <2>2, Stutter DEF Exit
<1> QED
  BY <1>1, <1>2, <1>3, <1>4, <1>5, <1>6, <1>7, <1>8, <1>9, <1>10, <1>11 DEF Next, Inside

\* Whatever the two cores interleave, the ring buffer behaves as an atomic
\* FIFO of at most Capacity items: no item is lost, duplicated, reordered or
\* overwritten between its enqueue() and its dequeue().
THEOREM Refinement == Spec => ImplementsFifo
  BY InitRefines, NextRefines, Invariance, PTL DEF Spec, ImplementsFifo, Fifo!Spec
FifoProofs == INSTANCE BoundedFifoProofs WITH fifo <- Contents, held <- Held

\* No event object is leaked, deleted twice or owned twice by the users of
\* the ring buffer.
THEOREM OwnershipTransfers == Spec => []FifoOwnership
<1>1. FifoProofs!Spec => []FifoProofs!Ownership
  BY CapacityAssumption, NullAssumption, FifoProofs!OwnershipTheorem
<1>2. Fifo!Init <=> FifoProofs!Init
  BY DEF Fifo!Init, FifoProofs!Init
<1>3. [Fifo!Next]_Fifo!vars <=> [FifoProofs!Next]_FifoProofs!vars
  BY DEF Fifo!Next, Fifo!vars, Fifo!New, Fifo!Delete, Fifo!Enqueue, Fifo!EnqueueFull,
         Fifo!Dequeue, Fifo!Peek, Fifo!IsEmpty, Fifo!EmptyAnswer, Fifo!NonEmptyAnswer,
         Fifo!Discard, Fifo!Returns, Fifo!QueuedAnswer, Fifo!FullAnswer,
         FifoProofs!Discard, FifoProofs!Returns, FifoProofs!QueuedAnswer,
         FifoProofs!FullAnswer,
         FifoProofs!Next, FifoProofs!vars, FifoProofs!New, FifoProofs!Delete,
         FifoProofs!Enqueue, FifoProofs!EnqueueFull, FifoProofs!Dequeue,
         FifoProofs!Peek, FifoProofs!IsEmpty, FifoProofs!EmptyAnswer,
         FifoProofs!NonEmptyAnswer
<1>4. FifoProofs!Ownership <=> FifoOwnership
  BY DEF FifoOwnership,
         Fifo!Ownership, Fifo!Queued, Fifo!HeldItems,
         FifoProofs!Ownership, FifoProofs!Queued, FifoProofs!HeldItems
<1> QED
  BY Refinement, <1>1, <1>2, <1>3, <1>4, PTL DEF ImplementsFifo, Fifo!Spec, FifoProofs!Spec
=============================================================================
