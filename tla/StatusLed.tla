------------------------------ MODULE StatusLed ------------------------------
(***************************************************************************)
(* The status LED of QuokkADB (lib/QuokkADB/src/blink.cpp) together with   *)
(* the settings of FlashSettings.  Core 0 darkens the LED while it waits   *)
(* for a command and lights it otherwise (quokkadb.cpp, loop); core 1      *)
(* blinks it to report a mounted device, a save or a new divisor.  The two *)
(* share the LED without a lock: led_on and led_off test blinking first.   *)
(*                                                                         *)
(* Core 0 is parked while core 1 writes the flash.  The delays are         *)
(* abstracted: a phase of a blink ends at any later poll.                  *)
(***************************************************************************)
EXTENDS FlashSettings, Sequences, FiniteSets

CONSTANTS
    BlinkQueueLength,   \* BLINK_QUEUE_LENGTH
    KeyboardBlinks,     \* blinks for a mounted keyboard, 2
    MouseBlinks,        \* for a mounted mouse, 3
    SaveBlinks,         \* SAVE_TO_FLASH_BLINK_COUNT
    ClearBlinks         \* CLEAR_FLASH_BLINK_COUNT

ASSUME BlinkAssumption ==
    /\ BlinkQueueLength \in Nat \ {0}
    /\ {KeyboardBlinks, MouseBlinks, SaveBlinks, ClearBlinks} \subseteq 1..ErasedByte

VARIABLES
    led,            \* the LED is lit
    pc0,            \* where core 0 is in loop()
    blink_queue,    \* the times of the blinks asked for
    starting,       \* poll() has lit the LED and not yet set blinking
    blinking,
    blink,          \* poll()'s current event and static variables
    shown,          \* the LED was lit when its current flash ended (history)
    seen,           \* its flashes one could see: lit, and then dark (history)
    spoiled         \* the phases of it in which core 0 drove the LED (history)

core1Vars == <<blink_queue, starting, blinking, blink, shown, seen>>
ledVars == <<led, pc0, core1Vars, spoiled>>

-----------------------------------------------------------------------------
(* Core 0: led_off(), ReceiveCommand, led_on() if the setting says so. *)

\* Core 0 runs unless the power is off or a save has parked it.
Core0Runs == pc \in {"ready", "written"}

Phase == <<blink.blinked, blink.on_phase>>

Drive(lit) ==
    /\ led' = lit
    /\ spoiled' = IF starting \/ blinking THEN spoiled \cup {Phase} ELSE spoiled

\* Faulty variant of LedOffTest: blinking is not tested.
LedOffForced ==
    /\ Core0Runs /\ pc0 = "led_off"
    /\ pc0' = "dark"
    /\ UNCHANGED <<vars, led, core1Vars, spoiled>>

\* The test and the write to the pin are two steps: core 1 may start a blink
\* in between.
LedOffTest ==
    /\ Core0Runs /\ pc0 = "led_off"
    /\ pc0' = IF blinking THEN "receive" ELSE "dark"
    /\ UNCHANGED <<vars, led, core1Vars, spoiled>>

LedOff ==
    /\ Core0Runs /\ pc0 = "dark"
    /\ Drive(FALSE)
    /\ pc0' = "receive"
    /\ UNCHANGED <<vars, core1Vars>>

\* Faulty variant of CommandReceived: the setting is not asked.
CommandReceivedLights ==
    /\ Core0Runs /\ pc0 = "receive"
    /\ pc0' = "led_on"
    /\ UNCHANGED <<vars, led, core1Vars, spoiled>>

CommandReceived ==
    /\ Core0Runs /\ pc0 = "receive"
    /\ pc0' = IF settings.led_on = 1 THEN "led_on" ELSE "led_off"
    /\ UNCHANGED <<vars, led, core1Vars, spoiled>>

\* Faulty variant of LedOnTest: blinking is not tested.
LedOnForced ==
    /\ Core0Runs /\ pc0 = "led_on"
    /\ pc0' = "lit"
    /\ UNCHANGED <<vars, led, core1Vars, spoiled>>

LedOnTest ==
    /\ Core0Runs /\ pc0 = "led_on"
    /\ pc0' = IF blinking THEN "led_off" ELSE "lit"
    /\ UNCHANGED <<vars, led, core1Vars, spoiled>>

LedOn ==
    /\ Core0Runs /\ pc0 = "lit"
    /\ Drive(TRUE)
    /\ pc0' = "led_off"
    /\ UNCHANGED <<vars, core1Vars>>

Core0Led == LedOffTest \/ LedOff \/ CommandReceived \/ LedOnTest \/ LedOn

-----------------------------------------------------------------------------
(* Core 1: BlinkLed::poll() *)

Polls == pc = "ready" /\ ~starting

StartBlink ==
    /\ Polls /\ ~blinking /\ blink_queue # <<>>
    /\ blink' = [times |-> Head(blink_queue), on_phase |-> TRUE, blinked |-> 0,
                 ending |-> FALSE]
    /\ blink_queue' = Tail(blink_queue)
    /\ led' = TRUE
    /\ starting' = TRUE
    /\ shown' = FALSE /\ seen' = {} /\ spoiled' = {}
    /\ UNCHANGED <<vars, pc0, blinking>>

SetBlinking ==
    /\ starting
    /\ starting' = FALSE
    /\ blinking' = TRUE
    /\ UNCHANGED <<vars, led, pc0, blink_queue, blink, shown, seen, spoiled>>

LastFlash == blink.blinked + 1 >= blink.times

DarkPhase ==
    /\ Polls /\ blinking /\ ~blink.ending /\ blink.on_phase
    /\ led' = FALSE
    /\ blink' = [blink EXCEPT !.on_phase = FALSE, !.ending = LastFlash]
    /\ shown' = led
    /\ UNCHANGED <<vars, pc0, blink_queue, starting, blinking, seen, spoiled>>

\* The dark phase after a flash ends.
FlashOver == seen' = IF shown /\ ~led THEN seen \cup {blink.blinked} ELSE seen

LightPhase ==
    /\ Polls /\ blinking /\ ~blink.ending /\ ~blink.on_phase
    /\ led' = TRUE
    /\ blink' = [blink EXCEPT !.on_phase = TRUE, !.blinked = @ + 1]
    /\ FlashOver
    /\ UNCHANGED <<vars, pc0, blink_queue, starting, blinking, shown, spoiled>>

EndBlink ==
    /\ Polls /\ blinking /\ blink.ending
    /\ blink' = [blink EXCEPT !.ending = FALSE]
    /\ blinking' = FALSE
    /\ FlashOver
    /\ UNCHANGED <<vars, led, pc0, blink_queue, starting, shown, spoiled>>

PollLed == StartBlink \/ SetBlinking \/ DarkPhase \/ LightPhase \/ EndBlink

-----------------------------------------------------------------------------
(* Core 1: the USB task asks for blinks. *)

\* blink(): a request that finds the queue full is dropped, the queue deletes
\* its event.
Request(times) ==
    /\ blink_queue' = IF Len(blink_queue) < BlinkQueueLength
                      THEN Append(blink_queue, times) ELSE blink_queue
    /\ UNCHANGED <<led, pc0, starting, blinking, blink, shown, seen, spoiled>>

\* tuh_hid_mount_cb: no blink when the first report cannot be requested.
Mount ==
    /\ Polls
    /\ \/ Request(KeyboardBlinks)
       \/ Request(MouseBlinks)
       \/ UNCHANGED ledVars
    /\ UNCHANGED vars

\* tuh_hid_umount_cb.
Unmount ==
    /\ Polls
    /\ Request(1)
    /\ UNCHANGED vars

\* The combinations: a new divisor is blinked out, S and R blink after the
\* write, L does not blink.
Combination ==
    /\ ~starting
    /\ \/ (Faster \/ Slower) /\ Request(settings'.divisor)
       \/ Finish /\ Request(IF combo = "S" THEN SaveBlinks ELSE ClearBlinks)
       \/ (ToggleLed \/ SaveOrClear \/ Erase \/ Program) /\ UNCHANGED ledVars

NoBlink == [times |-> 1, on_phase |-> TRUE, blinked |-> 0, ending |-> FALSE]

LedInit ==
    /\ Init
    /\ led = FALSE
    /\ pc0 = "led_off"
    /\ blink_queue = <<1>>
    /\ starting = FALSE /\ blinking = FALSE /\ blink = NoBlink
    /\ shown = FALSE /\ seen = {} /\ spoiled = {}

LedPowerLoss ==
    /\ PowerLoss
    /\ led' = FALSE
    /\ pc0' = "led_off"
    /\ blink_queue' = <<>>
    /\ starting' = FALSE /\ blinking' = FALSE /\ blink' = NoBlink
    /\ shown' = FALSE /\ seen' = {} /\ spoiled' = {}

\* setup() asks for one blink before it reads the settings.
LedBoot == Boot /\ Request(1)

LedNext == Core0Led \/ PollLed \/ Mount \/ Unmount \/ Combination \/ LedPowerLoss \/ LedBoot

allVars == <<vars, ledVars>>

\* Both loops run for ever: core 1 finishes a write it has begun, and core 0
\* gets on although saves park it; poll() gets its turn between USB tasks.
LedSpec ==
    /\ LedInit /\ [][LedNext]_allVars
    /\ WF_allVars(Combination /\ pc # "ready")
    /\ SF_allVars(PollLed) /\ SF_allVars(Core0Led)

-----------------------------------------------------------------------------
LedTypeOK ==
    /\ led \in BOOLEAN
    /\ pc0 \in {"led_off", "dark", "receive", "led_on", "lit"}
    /\ blink_queue \in Seq(1..ErasedByte) /\ Len(blink_queue) <= BlinkQueueLength
    /\ starting \in BOOLEAN /\ blinking \in BOOLEAN
    /\ shown \in BOOLEAN /\ seen \subseteq 0..(blink.times - 1)

\* A blink shows as it should but for its first flash and one more phase:
\* core 0 may have tested blinking just before the blink began, and drives the
\* LED at most once afterwards; the next phase puts it right (blink.cpp:38-52).
FirstFlash == <<0, TRUE>>
BlinkShows ==
    /\ TypeOK /\ LedTypeOK
    /\ blinking /\ Phase \notin spoiled => led = blink.on_phase
    /\ Cardinality(spoiled \ {FirstFlash}) <= 1

\* A user who counts the flashes of a blink, the divisor say, misses its first
\* one and one more at the most, whatever core 0 does to the LED meanwhile.
FlashesSeen ==
    [][blinking /\ ~blinking' /\ pc' # "off" =>
          /\ blink.blinked + 1 = blink.times
          /\ \E i \in 0..blink.blinked : 0..blink.blinked \subseteq seen' \cup {0, i}]_allVars

\* A user who turns the LED off gets a dark LED, although a blink may be under
\* way and core 0 may have read the setting before.
LedStaysOff ==
    <>[](settings.led_on = 0 /\ blink_queue = <<>>) => <>[]~led
=============================================================================
