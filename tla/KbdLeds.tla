------------------------------ MODULE KbdLeds ------------------------------
(***************************************************************************)
(* The lock LEDs of the USB keyboards.  Whoever wants other LEDs (the host *)
(* through Listen register 2 on core 0; a lock key, a new keyboard or a    *)
(* flush on core 1) writes kbdLockingKeys and raises usb_set_leds; core    *)
(* 1's loop then walks over keyboards_list, one slot per call of           *)
(* ChangeUSBKeyboardLEDs, with one set_report in flight at a time          *)
(* (lib/QuokkADB/src/platformkbdparser.cpp, usbhost.cpp).  There is no     *)
(* lock: core 0 can store LEDs and raise the flag inside such a call.      *)
(***************************************************************************)
EXTENDS Integers, FiniteSets

CONSTANTS
    Keyboards,      \* the USB keyboards that come and go
    NoKeyboard,     \* an empty slot, no report in flight
    MaxKeyboards,   \* MAX_KEYBOARDS
    HostRegs,       \* the values of register 2 the host sends
    Lossy,          \* whether transfers on the bus and over USB can fail
    Unplugging,     \* whether keyboards are unplugged
    MaxRequests     \* bound: LED requests in a behaviour

ASSUME SlotsAssumption == MaxKeyboards \in Nat \ {0}
ASSUME KeyboardsAssumption == NoKeyboard \notin Keyboards
ASSUME OptionsAssumption ==
    /\ HostRegs \subseteq Nat
    /\ Lossy \in BOOLEAN
    /\ Unplugging \in BOOLEAN
    /\ MaxRequests \in Nat

VARIABLES
    leds,           \* kbdLockingKeys: the LEDs that should be lit
    usb_set_leds,   \* a change is to be sent
    core1,          \* where core 1 is in ChangeUSBKeyboardLEDs
    listPos,        \* the static i of ChangeUSBKeyboardLEDs
    ready,          \* set_hid_report_ready
    list,           \* keyboards_list
    usb_kbd_leds,   \* the static buffer the reports are sent from
    inFlight,       \* the keyboard whose set_report is not complete
    transferred,    \* the transfer to it is over, its callback still to come
    lit,            \* lit[k]: the LEDs keyboard k shows
    core0,          \* where core 0 is in adb_set_leds
    want,           \* the LEDs core 0 is storing
    raced,          \* core 1 stored to the same byte meanwhile
    asked,          \* the LEDs last asked for with data (history)
    servedFrom,     \* the first slot of the current or last scan for which the
                    \* LEDs were read after the last store to them (history)
    unserved,       \* keyboards whose last report failed (history)
    requests        \* number of requests (bound)

ledsVars == <<leds, usb_set_leds, core1, listPos, ready, list, usb_kbd_leds, inFlight,
              transferred, lit, core0, want, raced, asked, servedFrom, unserved, requests>>

ListSlots == 0..(MaxKeyboards - 1)
Led == {"num", "caps", "scroll"}
Mounted == {list[s] : s \in ListSlots} \ {NoKeyboard}

\* adb_set_leds: a cleared bit of register 2 lights its LED.  The argument is
\* a uint16_t, so a negative number keeps its low bits.
Decode(reg2) ==
    LET Clear(b) == (reg2 \div b) % 2 = 0
    IN  {l \in Led : \/ l = "num" /\ Clear(1)
                     \/ l = "caps" /\ Clear(2)
                     \/ l = "scroll" /\ Clear(4)}

\* Receive16bitRegister returns one of these when it fails.
ReceiveErrors == {-1, -2, -3, -4, -5}

LedsInit ==
    /\ leds = {} /\ usb_set_leds = FALSE /\ core1 = "loop" /\ listPos = 0 /\ ready = TRUE
    /\ list = [s \in ListSlots |-> NoKeyboard]
    /\ usb_kbd_leds = {} /\ inFlight = NoKeyboard /\ transferred = FALSE
    /\ lit = [k \in Keyboards |-> {}]
    /\ core0 = "idle" /\ want = {} /\ raced = FALSE
    /\ asked = {} /\ servedFrom = 0 /\ unserved = {} /\ requests = 0

core0Vars == <<core0, want, raced>>
usbVars == <<ready, inFlight, transferred, lit>>
scanVars == <<core1, listPos, usb_kbd_leds, list, unserved, usbVars>>

\* Whenever the LEDs are stored, no slot has been read since.
LedsStored == servedFrom' = MaxKeyboards

\* Each LED is a bit of one byte, written with a load and a store.  When both
\* cores write, either may undo what the other did: any mix of the two can be
\* the result.
Mix(a, b) == {m \in SUBSET Led : a \cap b \subseteq m /\ m \subseteq a \cup b}

\* SetUSBkeyboardLEDs(l) on core 1.
SetUSBkeyboardLEDs(l) ==
    /\ leds' \in IF core0 = "store" THEN Mix(leds, l) ELSE {l}
    /\ raced' = (raced \/ core0 = "store")
    /\ asked' = l
    /\ LedsStored
    /\ usb_set_leds' = TRUE
    /\ UNCHANGED <<core0, want>>

Request ==
    /\ requests < MaxRequests
    /\ requests' = requests + 1

-----------------------------------------------------------------------------
(* Core 0: Listen register 2 of an extended keyboard (adb.cpp).  The result  *)
(* of Receive16bitRegister goes to adb_set_leds whether it is data or not.   *)

ListenData ==
    /\ core0 = "idle"
    /\ Request
    /\ \E reg2 \in HostRegs : want' = Decode(reg2) /\ asked' = Decode(reg2)
    /\ core0' = "store"
    /\ raced' = FALSE
    /\ UNCHANGED <<leds, usb_set_leds, servedFrom, scanVars>>

ListenFailed ==
    /\ core0 = "idle"
    /\ Lossy
    /\ Request
    /\ \E reg2 \in ReceiveErrors : want' = Decode(reg2)
    /\ core0' = "store"
    /\ raced' = FALSE
    /\ UNCHANGED <<leds, asked, usb_set_leds, servedFrom, scanVars>>

\* SetUSBkeyboardLEDs on core 0, one LED after the other; core 1 sees what is
\* stored so far.
StorePartly ==
    /\ core0 = "store"
    /\ leds' \in Mix(leds, want)
    /\ LedsStored
    /\ UNCHANGED <<usb_set_leds, core0, want, raced, asked, requests, scanVars>>

StoreDone ==
    /\ core0 = "store"
    /\ leds' \in IF raced THEN Mix(leds, want) ELSE {want}
    /\ LedsStored
    /\ core0' = "flag"
    /\ UNCHANGED <<usb_set_leds, want, raced, asked, requests, scanVars>>

\* The flag is raised after the LEDs are stored; core 1 can run in between.
ListenFlag ==
    /\ core0 = "flag"
    /\ usb_set_leds' = TRUE
    /\ core0' = "idle" /\ want' = {} /\ raced' = FALSE
    /\ UNCHANGED <<leds, asked, servedFrom, requests, scanVars>>

-----------------------------------------------------------------------------
(* Core 1: requests of the USB side, between calls of                       *)
(* ChangeUSBKeyboardLEDs.                                                   *)

\* HandleLockingKeys: a lock key of a keyboard toggles its LED.
LockKey ==
    /\ core1 = "loop"
    /\ Mounted # {}
    /\ Request
    /\ \E l \in Led : SetUSBkeyboardLEDs((leds \ {l}) \cup ({l} \ leds))
    /\ UNCHANGED scanVars

\* SendString turns Caps Lock off before it types a text.
ForceCapsOff ==
    /\ core1 = "loop"
    /\ Mounted # {}
    /\ Request
    /\ SetUSBkeyboardLEDs(leds \ {"caps"})
    /\ UNCHANGED scanVars

\* KbdRptParser::Reset, after a flush: all LEDs off.
FlushReset ==
    /\ core1 = "loop"
    /\ Request
    /\ SetUSBkeyboardLEDs({})
    /\ UNCHANGED scanVars

\* AddKeyboard: the lowest free slot, and the LEDs are sent again.
AddKeyboard ==
    /\ core1 = "loop"
    /\ Request
    /\ \E k \in Keyboards \ Mounted, s \in ListSlots :
          /\ list[s] = NoKeyboard
          /\ \A t \in ListSlots : t < s => list[t] # NoKeyboard
          /\ k # inFlight
          /\ list' = [list EXCEPT ![s] = k]
          /\ lit' = [lit EXCEPT ![k] = {}]
    /\ SetUSBkeyboardLEDs(leds)
    /\ UNCHANGED <<core1, listPos, usb_kbd_leds, unserved, ready, inFlight, transferred>>

\* RemoveKeyboard; a report in flight to the keyboard is never completed.
RemoveKeyboard ==
    /\ core1 = "loop"
    /\ Unplugging
    /\ Request
    /\ \E s \in ListSlots :
          /\ list[s] # NoKeyboard
          /\ list' = [list EXCEPT ![s] = NoKeyboard]
    /\ UNCHANGED <<leds, asked, usb_set_leds, core1, listPos, usb_kbd_leds, usbVars, core0Vars,
                   servedFrom, unserved>>

-----------------------------------------------------------------------------
(* Core 1: ChangeUSBKeyboardLEDs.  A call is its first read of the LEDs, its *)
(* last one, the list and the USB stack, which only core 1 uses, and at the  *)
(* end of the list the flag; core 0 can run between any two of them.         *)

requestVars == <<leds, asked, core0Vars, requests>>

\* Slot listPos has been read after every store made so far, also if it was
\* read before: the bus was busy then.
ReadLeds ==
    /\ core1 = "loop"
    /\ usb_set_leds
    /\ usb_kbd_leds' = leds
    /\ core1' = "reading"
    /\ servedFrom' = IF servedFrom < listPos THEN servedFrom ELSE listPos
    /\ UNCHANGED <<usb_set_leds, listPos, list, usbVars, unserved, requestVars>>

\* The LEDs are read one by one: those core 0 stores meanwhile may be old or new.
ReadRest ==
    /\ core1 = "reading"
    /\ usb_kbd_leds' \in Mix(usb_kbd_leds, leds)
    /\ core1' = "slot"
    /\ UNCHANGED <<usb_set_leds, listPos, list, usbVars, servedFrom, unserved, requestVars>>

NextSlot ==
    /\ listPos' = listPos + 1
    /\ core1' = IF listPos' < MaxKeyboards THEN "loop" ELSE "end"
    /\ UNCHANGED <<usb_set_leds, usb_kbd_leds, list, lit, servedFrom, requestVars>>

SkipSlot ==
    /\ core1 = "slot"
    /\ list[listPos] = NoKeyboard
    /\ NextSlot
    /\ UNCHANGED <<ready, inFlight, transferred, unserved>>

\* Faulty variant of SendReport: the bus is not marked busy.
SendReportStaysReady ==
    /\ core1 = "slot"
    /\ list[listPos] # NoKeyboard
    /\ ready
    /\ inFlight' = list[listPos]
    /\ transferred' = FALSE
    /\ unserved' = unserved \ {list[listPos]}
    /\ NextSlot
    /\ UNCHANGED ready

SendReport ==
    /\ core1 = "slot"
    /\ list[listPos] # NoKeyboard
    /\ ready
    /\ ready' = FALSE
    /\ inFlight' = list[listPos]
    /\ transferred' = FALSE
    /\ unserved' = unserved \ {list[listPos]}
    /\ NextSlot

\* tuh_hid_set_report returns false: this keyboard is passed over.
SendReportFails ==
    /\ Lossy
    /\ core1 = "slot"
    /\ list[listPos] # NoKeyboard
    /\ ready
    /\ unserved' = unserved \cup {list[listPos]}
    /\ NextSlot
    /\ UNCHANGED <<ready, inFlight, transferred>>

\* Faulty variant of WaitReady: a keyboard is passed over while the bus is busy.
WaitReadyPasses ==
    /\ core1 = "slot"
    /\ list[listPos] # NoKeyboard
    /\ ~ready
    /\ NextSlot
    /\ UNCHANGED <<ready, inFlight, transferred, unserved>>

\* The bus is busy with the previous report: the slot is tried again, although
\* the buffer of that report has been refilled.
WaitReady ==
    /\ core1 = "slot"
    /\ list[listPos] # NoKeyboard
    /\ ~ready
    /\ core1' = "loop"
    /\ UNCHANGED <<usb_set_leds, listPos, usb_kbd_leds, list, usbVars, servedFrom, unserved,
                   requestVars>>

\* The flag is lowered, whoever has raised it meanwhile.
ScanEnd ==
    /\ core1 = "end"
    /\ usb_set_leds' = FALSE
    /\ listPos' = 0
    /\ core1' = "loop"
    /\ UNCHANGED <<usb_kbd_leds, list, usbVars, servedFrom, unserved, requestVars>>

ChangeUSBKeyboardLEDs ==
    ReadLeds \/ ReadRest \/ SkipSlot \/ SendReport \/ SendReportFails \/ WaitReady \/ ScanEnd

-----------------------------------------------------------------------------
(* The USB stack (tuh_task, core 1): it sends the byte in the buffer, then   *)
(* calls tuh_hid_set_report_complete_cb.                                     *)

Transfer ==
    /\ core1 = "loop"
    /\ inFlight \in Mounted /\ ~transferred
    /\ lit' = [lit EXCEPT ![inFlight] = usb_kbd_leds]
    /\ transferred' = TRUE
    /\ UNCHANGED <<usb_set_leds, core1, listPos, usb_kbd_leds, list, ready, inFlight,
                   servedFrom, unserved, requestVars>>

\* A transfer fails, before or after the keyboard has got the byte.
TransferFails ==
    /\ Lossy
    /\ core1 = "loop"
    /\ inFlight \in Mounted /\ ~transferred
    /\ \E shown \in {lit[inFlight], usb_kbd_leds} : lit' = [lit EXCEPT ![inFlight] = shown]
    /\ transferred' = TRUE
    /\ unserved' = unserved \cup {inFlight}
    /\ UNCHANGED <<usb_set_leds, core1, listPos, usb_kbd_leds, list, ready, inFlight,
                   servedFrom, requestVars>>

\* Faulty variant of ReportComplete: the bus stays marked busy.
ReportCompleteStaysBusy ==
    /\ core1 = "loop"
    /\ inFlight \in Mounted /\ transferred
    /\ inFlight' = NoKeyboard
    /\ transferred' = FALSE
    /\ UNCHANGED <<usb_set_leds, core1, listPos, usb_kbd_leds, list, ready, lit, servedFrom,
                   unserved, requestVars>>

\* The callback ignores len, which is 0 after a failed transfer: the keyboard
\* is not tried again.
ReportComplete ==
    /\ core1 = "loop"
    /\ inFlight \in Mounted /\ transferred
    /\ inFlight' = NoKeyboard
    /\ transferred' = FALSE
    /\ ready' = TRUE
    /\ UNCHANGED <<usb_set_leds, core1, listPos, usb_kbd_leds, list, lit, servedFrom,
                   unserved, requestVars>>

UsbStack == Transfer \/ TransferFails \/ ReportComplete

LedsNext ==
    \/ ListenData
    \/ ListenFailed
    \/ StorePartly
    \/ StoreDone
    \/ ListenFlag
    \/ LockKey
    \/ ForceCapsOff
    \/ FlushReset
    \/ AddKeyboard
    \/ RemoveKeyboard
    \/ ChangeUSBKeyboardLEDs
    \/ UsbStack

LedsSpec == LedsInit /\ [][LedsNext]_ledsVars

\* Core 1 keeps calling ChangeUSBKeyboardLEDs, and between the calls the USB
\* stack gets on with a report to a keyboard that stays plugged in.
FairLedsSpec == LedsSpec /\ WF_ledsVars(ChangeUSBKeyboardLEDs) /\ SF_ledsVars(UsbStack)

-----------------------------------------------------------------------------
LedsTypeOK ==
    /\ leds \subseteq Led /\ asked \subseteq Led /\ usb_kbd_leds \subseteq Led
    /\ usb_set_leds \in BOOLEAN /\ ready \in BOOLEAN /\ transferred \in BOOLEAN
    /\ core1 \in {"loop", "reading", "slot", "end"}
    /\ listPos \in 0..MaxKeyboards
    /\ list \in [ListSlots -> Keyboards \cup {NoKeyboard}]
    /\ inFlight \in Keyboards \cup {NoKeyboard}
    /\ lit \in [Keyboards -> SUBSET Led]
    /\ core0 \in {"idle", "store", "flag"}
    /\ want \subseteq Led /\ raced \in BOOLEAN
    /\ servedFrom \in 0..MaxKeyboards /\ unserved \subseteq Keyboards
    /\ requests \in 0..MaxRequests

\* The static buffer belongs to one report at a time: while one is in flight
\* no other is started.
OneReportAtATime ==
    /\ LedsTypeOK
    /\ inFlight # NoKeyboard <=> ~ready

\* Keyboard k shows the LEDs asked for, or its report, with those LEDs, is
\* still to be sent.
Shows(k) ==
    \/ lit[k] = leds
    \/ inFlight = k /\ ~transferred /\ usb_kbd_leds = leds

\* When a scan is over every keyboard shows the LEDs asked for, unless its last
\* report failed or the LEDs were stored after they had been read for it: also
\* one whose flag was raised before the scan and lowered by it.
ScanServes ==
    ~usb_set_leds =>
        \A s \in ListSlots :
            s >= servedFrom /\ list[s] # NoKeyboard /\ list[s] \notin unserved => Shows(list[s])

\* Every request comes to the end of a scan, whatever else is requested, unless
\* a keyboard is unplugged with its report in flight: nobody completes that one.
RequestServed == usb_set_leds ~> ~usb_set_leds \/ inFlight \in Keyboards \ Mounted

-----------------------------------------------------------------------------
(* What the code's comments say and the code does not do. *)

\* adb.h:57: Receive16bitRegister "returns less than zero on a failed receive":
\* what core 0 stores, undisturbed, is what the host last sent.
LedsOnlyFromData == core0 = "flag" /\ ~raced => leds = asked
=============================================================================
