---------------------------- MODULE KeyEventPath ---------------------------
(***************************************************************************)
(* One key event's way through the firmware, pointer by pointer: core 1    *)
(* allocates and queues it (KbdRptParser::OnKeyDown, OnKeyUp), core 0      *)
(* packs up to two of them into register 0 and deletes them                *)
(* (ADBKbdRptParser::GetAdbRegister0), and after a flush core 1 drains the *)
(* queue (KbdRptParser::Reset) while core 0 may be packing.                *)
(*                                                                         *)
(* The queue is BoundedFifo, which SCQueue implements: each call of it is  *)
(* atomic, and everything between two calls can interleave.  A key is only *)
(* an ordinary one or the power key.                                       *)
(***************************************************************************)
EXTENDS BoundedFifo

CONSTANTS core0, core1

ASSUME CoresAssumption == Cores = {core0, core1} /\ core0 # core1

VARIABLES
    pc0,            \* where core 0 is in loop() and GetAdbRegister0
    pc1,            \* where core 1 is in loop1()
    content,        \* content[x]: what the memory at x holds
    key1, key2,     \* the key codes packed in register 0
    usb_kbd_reset,
    badUse,         \* this packing read through NULL or a deleted event (history)
    overlap         \* a Reset overlapped this packing (history)

fifoVars == vars
core0Vars == <<pc0, key1, key2>>
core1Vars == <<pc1, content>>
historyVars == <<badUse, overlap>>
pathVars == <<fifoVars, core0Vars, core1Vars, usb_kbd_reset, historyVars>>

KeyKinds == {"key", "power"}
Packed == KeyKinds \cup {"none"}

PathInit ==
    /\ Init
    /\ pc0 = "idle" /\ pc1 = "usb"
    /\ content = [x \in Items |-> "key"]
    /\ key1 = "none" /\ key2 = "none"
    /\ usb_kbd_reset = FALSE
    /\ badUse = FALSE /\ overlap = FALSE

\* What core 0 can read through pointer x: the event while it is live, anything
\* through NULL or after a delete.
ReadThrough(x) == IF x \in live THEN {content[x]} ELSE KeyKinds

Use(x) == badUse' = (badUse \/ x \notin live)

-----------------------------------------------------------------------------
(* Core 0: PendingKeyboardEvent() and GetAdbRegister0().                    *)

StartPacking ==
    /\ pc0 = "idle"
    /\ fifo # <<>>
    /\ pc0' = "test1"
    /\ key1' = "none" /\ key2' = "none"
    /\ badUse' = FALSE
    /\ overlap' = (pc1 \in {"drain", "take", "delete"})
    /\ UNCHANGED <<fifoVars, core1Vars, usb_kbd_reset>>

TestFirst ==
    /\ pc0 = "test1"
    /\ pc0' = IF fifo # <<>> THEN "take1" ELSE "test2"
    /\ UNCHANGED <<fifoVars, core1Vars, key1, key2, usb_kbd_reset, historyVars>>

\* Faulty variant of TakeFirst: the event stays in the queue.
TakeFirstPeeks ==
    /\ pc0 = "take1"
    /\ held' = [held EXCEPT ![core0] = IF fifo = <<>> THEN NULL ELSE Head(fifo)]
    /\ pc0' = "read1"
    /\ UNCHANGED <<fifo, live, answer, core1Vars, key1, key2, usb_kbd_reset, historyVars>>

\* dequeue(): of a queue drained meanwhile it returns NULL.
TakeFirst ==
    /\ pc0 = "take1"
    /\ \/ Dequeue(core0)
       \/ fifo = <<>> /\ UNCHANGED fifoVars
    /\ pc0' = "read1"
    /\ UNCHANGED <<core1Vars, key1, key2, usb_kbd_reset, historyVars>>

\* The key code is read, then the event deleted; deleting NULL does nothing.
DeleteHeld(c) ==
    \/ Delete(c)
    \/ held[c] = NULL /\ UNCHANGED fifoVars

\* A power key fills both places of the register.
ReadFirst ==
    /\ pc0 = "read1"
    /\ Use(held[core0])
    /\ \E k \in ReadThrough(held[core0]) :
          /\ key1' = k
          /\ IF k = "power" THEN key2' = k /\ pc0' = "idle"
                            ELSE UNCHANGED key2 /\ pc0' = "test2"
    /\ DeleteHeld(core0)
    /\ UNCHANGED <<core1Vars, usb_kbd_reset, overlap>>

TestSecond ==
    /\ pc0 = "test2"
    /\ pc0' = IF fifo # <<>> THEN "peek" ELSE "idle"
    /\ UNCHANGED <<fifoVars, core1Vars, key1, key2, usb_kbd_reset, historyVars>>

PeekSecond ==
    /\ pc0 = "peek"
    /\ Peek(core0)
    /\ pc0' = "check"
    /\ UNCHANGED <<core1Vars, key1, key2, usb_kbd_reset, historyVars>>

\* Faulty variant of CheckSecond: any second key is taken.
CheckSecondTakesAny ==
    /\ pc0 = "check"
    /\ pc0' = IF answer[core0] = NULL THEN "idle" ELSE "take2"
    /\ UNCHANGED <<fifoVars, core1Vars, key1, key2, usb_kbd_reset, historyVars>>

\* The event is still in the queue while its key code is read; a power key is
\* left there.
CheckSecond ==
    /\ pc0 = "check"
    /\ LET event == answer[core0]
       IN  IF event = NULL
           THEN pc0' = "idle" /\ UNCHANGED badUse
           ELSE /\ Use(event)
                /\ \E k \in ReadThrough(event) :
                      pc0' = IF k # "power" THEN "take2" ELSE "idle"
    /\ UNCHANGED <<fifoVars, core1Vars, key1, key2, usb_kbd_reset, overlap>>

TakeSecond ==
    /\ pc0 = "take2"
    /\ \/ Dequeue(core0)
       \/ fifo = <<>> /\ UNCHANGED fifoVars
    /\ pc0' = "read2"
    /\ UNCHANGED <<core1Vars, key1, key2, usb_kbd_reset, historyVars>>

ReadSecond ==
    /\ pc0 = "read2"
    /\ Use(held[core0])
    /\ key2' \in ReadThrough(held[core0])
    /\ DeleteHeld(core0)
    /\ pc0' = "idle"
    /\ UNCHANGED <<core1Vars, key1, usb_kbd_reset, overlap>>

\* A flush of the keyboard, processed between two packings.
RequestReset ==
    /\ pc0 = "idle"
    /\ ~usb_kbd_reset
    /\ usb_kbd_reset' = TRUE
    /\ UNCHANGED <<fifoVars, core0Vars, core1Vars, historyVars>>

\* GetAdbRegister0 once it is called.
Packing ==
    \/ TestFirst
    \/ TakeFirst
    \/ ReadFirst
    \/ TestSecond
    \/ PeekSecond
    \/ CheckSecond
    \/ TakeSecond
    \/ ReadSecond

-----------------------------------------------------------------------------
(* Core 1: key events and Reset().                                          *)

\* new KeyEvent(...): the heap may reuse an address core 0 still points to.
NewEvent ==
    /\ pc1 = "usb"
    /\ New(core1)
    /\ \E k \in KeyKinds : content' = [content EXCEPT ![held'[core1]] = k]
    /\ pc1' = "enqueue"
    /\ UNCHANGED <<core0Vars, usb_kbd_reset, historyVars>>

EnqueueEvent ==
    /\ pc1 = "enqueue"
    /\ Enqueue(core1) \/ EnqueueFull(core1)
    /\ pc1' = "usb"
    /\ UNCHANGED <<core0Vars, content, usb_kbd_reset, historyVars>>

StartReset ==
    /\ pc1 = "usb"
    /\ usb_kbd_reset
    /\ pc1' = "drain"
    /\ overlap' = (overlap \/ pc0 # "idle")
    /\ UNCHANGED <<fifoVars, core0Vars, content, usb_kbd_reset, badUse>>

\* while (PendingKeyboardEvent()); the flag is cleared after Reset().
DrainTest ==
    /\ pc1 = "drain"
    /\ IF fifo # <<>>
       THEN pc1' = "take" /\ UNCHANGED usb_kbd_reset
       ELSE pc1' = "usb" /\ usb_kbd_reset' = FALSE
    /\ UNCHANGED <<fifoVars, core0Vars, content, historyVars>>

\* Faulty variant of DrainTake: the event is not taken out of the queue.
DrainTakeNothing ==
    /\ pc1 = "take"
    /\ pc1' = "delete"
    /\ UNCHANGED <<fifoVars, core0Vars, content, usb_kbd_reset, historyVars>>

\* delete(m_keyboard_events.dequeue()), of an event or of NULL.
DrainTake ==
    /\ pc1 = "take"
    /\ \/ Dequeue(core1)
       \/ fifo = <<>> /\ UNCHANGED fifoVars
    /\ pc1' = "delete"
    /\ UNCHANGED <<core0Vars, content, usb_kbd_reset, historyVars>>

DrainDelete ==
    /\ pc1 = "delete"
    /\ DeleteHeld(core1)
    /\ pc1' = "drain"
    /\ UNCHANGED <<core0Vars, content, usb_kbd_reset, historyVars>>

Draining == StartReset \/ DrainTest \/ DrainTake \/ DrainDelete

PathNext ==
    \/ StartPacking
    \/ Packing
    \/ RequestReset
    \/ NewEvent
    \/ EnqueueEvent
    \/ Draining

PathSpec == PathInit /\ [][PathNext]_pathVars

\* Both cores run on and core 1's loop comes back to its reset flag; nothing is
\* assumed of when core 0 packs, which is up to the host's polling.
FairPathSpec ==
    /\ PathSpec
    /\ WF_pathVars(Packing)
    /\ WF_pathVars(EnqueueEvent)
    /\ SF_pathVars(StartReset)
    /\ WF_pathVars(DrainTest \/ DrainTake \/ DrainDelete)

-----------------------------------------------------------------------------
PathTypeOK ==
    /\ TypeOK
    /\ pc0 \in {"idle", "test1", "take1", "read1", "test2", "peek", "check", "take2",
                "read2"}
    /\ pc1 \in {"usb", "enqueue", "drain", "take", "delete"}
    /\ content \in [Items -> KeyKinds]
    /\ key1 \in Packed /\ key2 \in Packed
    /\ usb_kbd_reset \in BOOLEAN /\ badUse \in BOOLEAN /\ overlap \in BOOLEAN

\* isEmpty(), peek() and dequeue() are separate calls, yet core 0 reads only
\* live events and never packs a power key behind another key, as long as no
\* Reset of core 1 overlaps the packing: core 0 is then the only consumer.
PackingSafeAlone ==
    ~overlap => /\ ~badUse
                /\ key2 = "power" => key1 = "power"

\* Packing is safe but for an overlapping Reset.
PathInv ==
    /\ PathTypeOK
    /\ PackingSafeAlone

\* The drain ends, whatever core 0 takes from the queue meanwhile: its only
\* producer is the draining core.
ResetEnds == usb_kbd_reset ~> ~usb_kbd_reset

=============================================================================
