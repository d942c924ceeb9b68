-------------------------- MODULE KeyEventPathProofs --------------------------
(***************************************************************************)
(* Packing register 0 while core 1 queues and drains events: the steps of  *)
(* both cores are calls of the FIFO, so its ownership discipline holds of  *)
(* them, and without an overlapping Reset the packing reads only live      *)
(* events and keeps the power key alone.                                   *)
(***************************************************************************)
EXTENDS KeyEventPath, BoundedFifoProofs

-----------------------------------------------------------------------------
(* The path implements the abstract queue. *)

\* A step of either core is a call of the queue or leaves it alone.
LEMMA PathStepIsFifoStep == [PathNext]_pathVars => [Next]_vars
<1> SUFFICES ASSUME [PathNext]_pathVars PROVE [Next]_vars
  OBVIOUS
<1> USE CoresAssumption
<1>1. core0 \in Cores /\ core1 \in Cores
  OBVIOUS
<1>2. CASE UNCHANGED fifoVars
  BY <1>2 DEF fifoVars
<1>3. CASE TakeFirst \/ TakeSecond
  BY <1>1, <1>3 DEF TakeFirst, TakeSecond, fifoVars, Next
<1>4. CASE ReadFirst \/ ReadSecond
  BY <1>1, <1>4 DEF ReadFirst, ReadSecond, DeleteHeld, fifoVars, Next
<1>5. CASE PeekSecond
  BY <1>1, <1>5 DEF PeekSecond, Next
<1>6. CASE NewEvent \/ EnqueueEvent
  BY <1>1, <1>6 DEF NewEvent, EnqueueEvent, Next
<1>7. CASE DrainTake \/ DrainDelete
  BY <1>1, <1>7 DEF DrainTake, DrainDelete, DeleteHeld, fifoVars, Next
<1>8. CASE \/ StartPacking \/ TestFirst \/ TestSecond \/ CheckSecond
           \/ RequestReset \/ StartReset \/ DrainTest
  BY <1>2, <1>8 DEF StartPacking, TestFirst, TestSecond, CheckSecond, RequestReset,
                    StartReset, DrainTest
<1>9. CASE UNCHANGED pathVars
  BY <1>2, <1>9 DEF pathVars
<1> QED
  BY <1>3, <1>4, <1>5, <1>6, <1>7, <1>8, <1>9 DEF PathNext, Packing, Draining

\* Every behaviour of the two cores is one of the abstract queue.
THEOREM PathIsFifo == PathSpec => Spec
<1>1. PathInit => Init
  BY DEF PathInit
<1> QED
  BY <1>1, PathStepIsFifoStep, PTL DEF PathSpec, Spec

\* No event object is leaked, freed twice or owned twice, although the cores
\* read through stale pointers and the heap reuses addresses.
THEOREM PathOwnership == PathSpec => []Ownership
  BY PathIsFifo, OwnershipTheorem, PTL

-----------------------------------------------------------------------------
(* Safe packing. *)

\* Core 0 holds an event only between taking and deleting it; a Reset during a
\* packing is noted.
PlaceInv ==
    /\ held[core0] # NULL => pc0 \in {"read1", "read2"}
    /\ pc0 # "idle" /\ pc1 \in {"drain", "take", "delete"} => overlap

\* What core 0 has learned stays true as long as it is the only consumer.
KnownInv ==
    /\ pc0 \in {"test1", "take1", "peek", "check", "take2"} => fifo # <<>>
    /\ pc0 = "check" => answer[core0] = Head(fifo)
    /\ pc0 = "take2" => content[Head(fifo)] # "power"
    /\ pc0 \in {"read1", "read2"} => held[core0] # NULL
    /\ pc0 = "read2" => content[held[core0]] # "power"

\* Until the second event is read, the second place is empty.
EmptyPlaces == pc0 # "idle" => key2 = "none"

PathIInv ==
    /\ IInv /\ PathTypeOK
    /\ PlaceInv
    /\ EmptyPlaces
    /\ ~overlap => KnownInv /\ PackingSafeAlone

LEMMA PathInitIInv == PathInit => PathIInv
<1> SUFFICES ASSUME PathInit PROVE PathIInv
  OBVIOUS
<1>1. IInv
  BY InitIInv DEF PathInit
<1> QED
  BY <1>1, CoresAssumption
     DEF PathInit, Init, PathIInv, IInv, PathTypeOK, PlaceInv, EmptyPlaces, KnownInv,
         PackingSafeAlone, KeyKinds, Packed

\* The steps of core 0.
LEMMA Core0Step ==
    ASSUME PathIInv, IInv', StartPacking \/ Packing \/ RequestReset
    PROVE  PathIInv'
<1> USE CoresAssumption, NullAssumption
<1>1. core0 \in Cores /\ core1 \in Cores /\ TypeOK /\ Ownership /\ TypeOK'
  BY DEF PathIInv, IInv
<1>2. ASSUME fifo # <<>> PROVE Head(fifo) \in Items /\ Head(fifo) # NULL /\ Head(fifo) \in live
  <2>1. Head(fifo) = fifo[1] /\ 1 \in 1..Len(fifo) /\ fifo[1] \in Items
    BY <1>1, <1>2, HeadTailProperties, EmptySeq DEF TypeOK
  <2> QED
    BY <1>1, <2>1 DEF Ownership, Queued
<1>3. ASSUME held[core0] # NULL PROVE held[core0] \in live /\ held[core0] \in Items
  BY <1>1, <1>3 DEF TypeOK, Ownership, HeldItems
<1>4. CASE StartPacking
  <2>1. /\ pc0 = "idle" /\ pc0' = "test1" /\ fifo # <<>>
        /\ key1' = "none" /\ key2' = "none" /\ badUse' = FALSE
        /\ overlap' = (pc1 \in {"drain", "take", "delete"})
        /\ UNCHANGED <<fifo, held, live, answer, pc1, content, usb_kbd_reset>>
    BY <1>4 DEF StartPacking, core1Vars, fifoVars, vars
  <2>2. overlap' \in BOOLEAN /\ badUse' \in BOOLEAN
    <3>1. \A b : b = (pc1 \in {"drain", "take", "delete"}) => b \in BOOLEAN
      OBVIOUS
    <3> QED
      BY <2>1, <3>1
  <2>3. key1' \in Packed /\ key2' \in Packed
    BY <2>1 DEF Packed
  <2>4. PathTypeOK'
    BY <1>1, <2>1, <2>2, <2>3 DEF PathIInv, PathTypeOK
  <2> QED
    BY <2>1, <2>4 DEF PathIInv, PlaceInv, EmptyPlaces, KnownInv, PackingSafeAlone
<1>5. CASE TestFirst
  BY <1>1, <1>5 DEF TestFirst, PathIInv, PathTypeOK, PlaceInv, EmptyPlaces, KnownInv,
              PackingSafeAlone, core1Vars, fifoVars, historyVars, vars
<1>6. CASE TakeFirst
  <2>1. CASE Dequeue(core0)
    BY <1>1, <1>2, <1>6, <2>1
       DEF TakeFirst, Dequeue, PathIInv, PathTypeOK, PlaceInv, EmptyPlaces, KnownInv,
           PackingSafeAlone, core1Vars, historyVars, TypeOK
  <2>2. CASE fifo = <<>> /\ UNCHANGED fifoVars
    BY <1>1, <1>6, <2>2
       DEF TakeFirst, PathIInv, PathTypeOK, PlaceInv, EmptyPlaces, KnownInv,
           PackingSafeAlone, core1Vars, historyVars, fifoVars, vars
  <2> QED
    BY <1>6, <2>1, <2>2 DEF TakeFirst
<1>7. CASE ReadFirst
  <2>1. PICK k \in ReadThrough(held[core0]) :
            /\ key1' = k
            /\ IF k = "power" THEN key2' = k /\ pc0' = "idle"
                              ELSE UNCHANGED key2 /\ pc0' = "test2"
    BY <1>7 DEF ReadFirst
  <2>2. k \in KeyKinds
    BY <1>1, <2>1 DEF ReadThrough, PathIInv, PathTypeOK, TypeOK
  <2>3. held'[core0] = NULL /\ held' \in [Cores -> Items \cup {NULL}]
    BY <1>1, <1>7 DEF ReadFirst, DeleteHeld, Delete, Discard, fifoVars, vars, TypeOK
  <2>4. pc0 = "read1" /\ UNCHANGED <<pc1, content, usb_kbd_reset, overlap>>
    BY <1>7 DEF ReadFirst, core1Vars
  <2>5. ~overlap => ~badUse'
    BY <1>3, <1>7, <2>4 DEF ReadFirst, Use, PathIInv, KnownInv, PackingSafeAlone
  <2>6. badUse' \in BOOLEAN
    BY <1>7 DEF ReadFirst, Use, PathIInv, PathTypeOK
  <2>7. key1' = k /\ IF k = "power" THEN key2' = k /\ pc0' = "idle"
                              ELSE key2' = key2 /\ pc0' = "test2"
    BY <2>1
  <2>8. PathTypeOK'
    BY <1>1, <2>2, <2>4, <2>6, <2>7 DEF PathIInv, PathTypeOK, Packed, KeyKinds
  <2>9. PlaceInv'
    BY <2>3, <2>4, <2>7 DEF PathIInv, PlaceInv
  <2>10. EmptyPlaces'
    BY <2>4, <2>7 DEF PathIInv, EmptyPlaces
  <2>11. ~overlap' => KnownInv' /\ PackingSafeAlone'
    BY <2>4, <2>5, <2>7 DEF PathIInv, KnownInv, PackingSafeAlone, EmptyPlaces
  <2> QED
    BY <2>8, <2>9, <2>10, <2>11 DEF PathIInv
<1>8. CASE TestSecond
  BY <1>1, <1>8 DEF TestSecond, PathIInv, PathTypeOK, PlaceInv, EmptyPlaces, KnownInv,
              PackingSafeAlone, core1Vars, fifoVars, historyVars, vars
<1>9. CASE PeekSecond
  BY <1>1, <1>9 DEF PeekSecond, Peek, Returns, PathIInv, PathTypeOK, PlaceInv, EmptyPlaces,
              KnownInv, PackingSafeAlone, core1Vars, historyVars, TypeOK
<1>10. CASE CheckSecond
  <2>1. UNCHANGED <<fifoVars, core1Vars, key1, key2, usb_kbd_reset, overlap>> /\ pc0 = "check"
        /\ pc0' \in {"idle", "take2"}
    BY <1>10 DEF CheckSecond
  <2>2. badUse' \in BOOLEAN
    BY <1>10 DEF CheckSecond, Use, PathIInv, PathTypeOK
  <2>3. ASSUME ~overlap PROVE ~badUse' /\ (pc0' = "take2" => content[Head(fifo)] # "power")
    <3>1. fifo # <<>> /\ answer[core0] = Head(fifo)
      BY <2>1, <2>3 DEF PathIInv, KnownInv
    <3>2. answer[core0] # NULL /\ answer[core0] \in live
      BY <1>2, <3>1
    <3>3. ReadThrough(answer[core0]) = {content[Head(fifo)]}
      BY <3>1, <3>2 DEF ReadThrough
    <3>4. badUse' = (badUse \/ answer[core0] \notin live)
      BY <1>10, <3>2 DEF CheckSecond, Use
    <3>5. pc0' = IF content[Head(fifo)] # "power" THEN "take2" ELSE "idle"
      BY <1>10, <3>2, <3>3 DEF CheckSecond
    <3> QED
      BY <2>3, <3>2, <3>4, <3>5 DEF PathIInv, PackingSafeAlone
  <2>4. UNCHANGED <<fifo, held, live, answer, pc1, content, key1, key2, usb_kbd_reset, overlap>>
    BY <2>1 DEF core1Vars, fifoVars, vars
  <2>5. PathTypeOK'
    BY <1>1, <2>1, <2>2, <2>4 DEF PathIInv, PathTypeOK
  <2> QED
    BY <2>1, <2>3, <2>4, <2>5
       DEF PathIInv, PlaceInv, EmptyPlaces, KnownInv, PackingSafeAlone
<1>11. CASE TakeSecond
  <2>1. CASE Dequeue(core0)
    BY <1>1, <1>2, <1>11, <2>1
       DEF TakeSecond, Dequeue, PathIInv, PathTypeOK, PlaceInv, EmptyPlaces, KnownInv,
           PackingSafeAlone, core1Vars, historyVars, TypeOK
  <2>2. CASE fifo = <<>> /\ UNCHANGED fifoVars
    BY <1>1, <1>11, <2>2
       DEF TakeSecond, PathIInv, PathTypeOK, PlaceInv, EmptyPlaces, KnownInv,
           PackingSafeAlone, core1Vars, historyVars, fifoVars, vars
  <2> QED
    BY <1>11, <2>1, <2>2 DEF TakeSecond
<1>12. CASE ReadSecond
  <2>1. pc0 = "read2" /\ pc0' = "idle" /\ UNCHANGED <<pc1, content, key1, usb_kbd_reset, overlap>>
    BY <1>12 DEF ReadSecond, core1Vars
  <2>2. key2' \in KeyKinds
    BY <1>1, <1>12 DEF ReadSecond, ReadThrough, PathIInv, PathTypeOK, TypeOK
  <2>3. held'[core0] = NULL
    BY <1>1, <1>12 DEF ReadSecond, DeleteHeld, Delete, Discard, fifoVars, vars, TypeOK
  <2>4. badUse' \in BOOLEAN
    BY <1>12 DEF ReadSecond, Use, PathIInv, PathTypeOK
  <2>5. ASSUME ~overlap PROVE ~badUse' /\ key2' # "power"
    BY <1>3, <1>12, <2>1, <2>5
       DEF ReadSecond, Use, ReadThrough, PathIInv, KnownInv, PackingSafeAlone
  <2>6. PathTypeOK'
    BY <1>1, <2>1, <2>2, <2>4 DEF PathIInv, PathTypeOK, Packed
  <2> QED
    BY <2>1, <2>3, <2>5, <2>6 DEF PathIInv, PlaceInv, EmptyPlaces, KnownInv, PackingSafeAlone
<1>13. CASE RequestReset
  BY <1>1, <1>13 DEF RequestReset, PathIInv, PathTypeOK, PlaceInv, EmptyPlaces, KnownInv,
              PackingSafeAlone, core0Vars, core1Vars, fifoVars, historyVars, vars
<1> QED
  BY <1>4, <1>5, <1>6, <1>7, <1>8, <1>9, <1>10, <1>11, <1>12, <1>13 DEF Packing

\* The steps of core 1.  An event it allocates or queues is not one core 0 is
\* about to read; only its drain takes events away, and that is an overlap.
LEMMA Core1Step ==
    ASSUME PathIInv, IInv', NewEvent \/ EnqueueEvent \/ Draining
    PROVE  PathIInv'
<1> USE CoresAssumption, NullAssumption
<1>1. core0 \in Cores /\ core1 \in Cores /\ core0 # core1 /\ TypeOK /\ Ownership /\ TypeOK'
  BY DEF PathIInv, IInv
<1>2. ASSUME fifo # <<>> PROVE Head(fifo) \in live
  <2>1. Head(fifo) = fifo[1] /\ 1 \in 1..Len(fifo)
    BY <1>1, <1>2, HeadTailProperties, EmptySeq DEF TypeOK
  <2> QED
    BY <1>1, <2>1 DEF Ownership, Queued
<1>3. CASE NewEvent
  <2>1. PICK x \in Items \ live : held' = [held EXCEPT ![core1] = x]
    BY <1>3 DEF NewEvent, New
  <2>2. PICK k \in KeyKinds : content' = [content EXCEPT ![x] = k]
    BY <1>1, <1>3, <2>1 DEF NewEvent, TypeOK
  <2>3. /\ pc1' = "enqueue" /\ held'[core0] = held[core0]
        /\ UNCHANGED <<fifo, answer, pc0, key1, key2, usb_kbd_reset, badUse, overlap>>
    BY <1>1, <1>3, <2>1 DEF NewEvent, New, core0Vars, historyVars, TypeOK
  <2>4. fifo # <<>> => content'[Head(fifo)] = content[Head(fifo)]
    BY <1>1, <1>2, <2>2 DEF TypeOK, PathIInv, PathTypeOK
  <2>5. held[core0] # NULL => content'[held[core0]] = content[held[core0]]
    BY <1>1, <2>2 DEF TypeOK, Ownership, HeldItems, PathIInv, PathTypeOK
  <2>6. PathTypeOK'
    BY <1>1, <2>2, <2>3 DEF PathIInv, PathTypeOK
  <2>7. ~overlap' => KnownInv' /\ PackingSafeAlone'
    BY <2>3, <2>4, <2>5 DEF PathIInv, KnownInv, PackingSafeAlone
  <2> QED
    BY <2>3, <2>6, <2>7 DEF PathIInv, PlaceInv, EmptyPlaces
<1>4. CASE EnqueueEvent
  <2>1. /\ pc1' = "usb" /\ UNCHANGED <<content, pc0, key1, key2, usb_kbd_reset, badUse, overlap>>
    BY <1>1, <1>4 DEF EnqueueEvent, core0Vars, historyVars
  <2>2. held'[core0] = held[core0] /\ answer'[core0] = answer[core0]
    BY <1>1, <1>4 DEF EnqueueEvent, Enqueue, EnqueueFull, Discard, Returns, TypeOK
  <2>3. fifo # <<>> => fifo' # <<>> /\ Head(fifo') = Head(fifo)
    <3>1. CASE Enqueue(core1)
      <4>1. held[core1] \in Items /\ fifo' = Append(fifo, held[core1]) /\ fifo \in Seq(Items)
        BY <1>1, <3>1 DEF Enqueue, TypeOK
      <4> QED
        BY <4>1, HeadTailProperties, AppendProperties, EmptySeq
    <3>2. CASE EnqueueFull(core1)
      BY <3>2 DEF EnqueueFull, Discard
    <3> QED
      BY <1>4, <3>1, <3>2 DEF EnqueueEvent
  <2>4. PathTypeOK'
    BY <1>1, <2>1 DEF PathIInv, PathTypeOK
  <2>5. ~overlap' => KnownInv' /\ PackingSafeAlone'
    BY <2>1, <2>2, <2>3 DEF PathIInv, KnownInv, PackingSafeAlone
  <2> QED
    BY <2>1, <2>2, <2>4, <2>5 DEF PathIInv, PlaceInv, EmptyPlaces
<1>5. CASE StartReset
  BY <1>1, <1>5 DEF StartReset, PathIInv, PathTypeOK, PlaceInv, EmptyPlaces, KnownInv,
              PackingSafeAlone, core0Vars, fifoVars, vars
<1>6. CASE DrainTest \/ DrainTake \/ DrainDelete
  <2>1. /\ pc1 \in {"drain", "take", "delete"} /\ pc1' \in {"usb", "drain", "take", "delete"}
        /\ usb_kbd_reset' \in BOOLEAN
        /\ UNCHANGED <<content, pc0, key1, key2, badUse, overlap>>
    BY <1>6 DEF DrainTest, DrainTake, DrainDelete, core0Vars, historyVars, PathIInv, PathTypeOK
  <2>2. held'[core0] = held[core0]
    BY <1>1, <1>6 DEF DrainTest, DrainTake, DrainDelete, DeleteHeld, Delete, Discard,
                      Dequeue, fifoVars, vars, TypeOK
  <2>3. PathTypeOK'
    BY <1>1, <2>1 DEF PathIInv, PathTypeOK
  <2>4. pc0 = "idle" \/ overlap
    BY <2>1 DEF PathIInv, PlaceInv
  <2> QED
    BY <2>1, <2>2, <2>3, <2>4
       DEF PathIInv, PlaceInv, EmptyPlaces, KnownInv, PackingSafeAlone
<1> QED
  BY <1>3, <1>4, <1>5, <1>6 DEF Draining

LEMMA PathNextIInv == PathIInv /\ [PathNext]_pathVars => PathIInv'
<1> SUFFICES ASSUME PathIInv, [PathNext]_pathVars PROVE PathIInv'
  OBVIOUS
<1>1. IInv'
  BY PathStepIsFifoStep, NextIInv DEF PathIInv
<1>2. CASE UNCHANGED pathVars
  BY <1>1, <1>2 DEF pathVars, fifoVars, core0Vars, core1Vars, historyVars, vars, PathIInv,
     PathTypeOK, PlaceInv, EmptyPlaces, KnownInv, PackingSafeAlone, IInv
<1> QED
  BY <1>1, <1>2, Core0Step, Core1Step DEF PathNext

\* Packing reads only live events and never packs a power key behind another
\* key, unless a Reset of core 1 overlaps it.
THEOREM PathInvTheorem == PathSpec => []PathInv
<1>1. PathIInv => PathInv
  BY DEF PathIInv, PathInv, PackingSafeAlone
<1> QED
  BY <1>1, PathInitIInv, PathNextIInv, PTL DEF PathSpec
=============================================================================
