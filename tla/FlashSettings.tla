--------------------------- MODULE FlashSettings ---------------------------
(***************************************************************************)
(* The user's settings (lib/QuokkADB/src/flashsettings.cpp): a copy in RAM *)
(* that the special key combinations change (platformkbdparser.cpp,        *)
(* SpecialKeyCombo) and the last sector of the flash, which a boot reads.  *)
(* The power can go at any time, also between the erase and the program of *)
(* the sector or in the middle of either.                                  *)
(*                                                                         *)
(* The combinations run on core 1 in the USB task and a boot's init() on   *)
(* core 0 before the first keyboard is enumerated; core 0 is parked while  *)
(* the sector is written, so the steps of a write interleave only with     *)
(* the loss of power.                                                      *)
(***************************************************************************)
EXTENDS Naturals

CONSTANTS
    DefaultDivisor, \* DEFAULT_MOUSE_SENSITIVITY_DIVISOR
    MaxDivisor,     \* 16, the largest divisor the keys can set
    ErasedByte      \* 255, what an erased byte reads (and the largest)

ASSUME DivisorAssumption ==
    /\ MaxDivisor \in Nat
    /\ DefaultDivisor \in 1..MaxDivisor
    /\ ErasedByte \in Nat
    /\ ErasedByte > MaxDivisor

VARIABLES
    settings,   \* _settings: the copy in RAM
    flash,      \* the page at _last_sector
    pc,         \* where core 1 is in a combination, or "off"
    combo,      \* the combination being executed, "none" between them
    promised    \* what the next boot has to find (history)

vars == <<settings, flash, pc, combo, promised>>

\* The magic number is two bytes: "valid" only when both are right.
Magics == {"valid", "invalid"}
Divisors == 0..ErasedByte
Pages == [magic : Magics, led_on : {0, 1}, divisor : Divisors]

Erased == [magic |-> "invalid", led_on |-> 1, divisor |-> ErasedByte]
Zeros == [magic |-> "invalid", led_on |-> 0, divisor |-> 0]

Unpromised == [kind |-> "anything"]
Promise(s) == [kind |-> "settings", led_on |-> s.led_on, divisor |-> s.divisor]

\* reset(): the magic number stays.
Reset(s) == [s EXCEPT !.led_on = 1, !.divisor = DefaultDivisor]
Defaults == Reset([Erased EXCEPT !.magic = "valid"])

\* A page whose write from "old" to "new" was interrupted: every byte may or
\* may not have been reached, and two bytes of the magic number may disagree.
Torn(old, new) ==
    [magic : {old.magic, new.magic, "invalid"},
     led_on : {old.led_on, new.led_on},
     divisor : {old.divisor, new.divisor}]

-----------------------------------------------------------------------------
\* Faulty variant of Load: the magic number is not tested.
LoadUntested(page) == [page EXCEPT !.magic = "valid"]

\* What init() makes of the page it finds: it checks nothing but the magic
\* number.
Load(page) == IF page.magic = "valid" THEN page ELSE Defaults

\* A new device has an erased or otherwise unused last sector.
Init ==
    /\ flash = Erased
    /\ settings = Load(flash)
    /\ pc = "ready"
    /\ combo = "none"
    /\ promised = Promise(Defaults)

\* Faulty variant of Faster: off by one at the lower end.
FasterToZero ==
    /\ pc = "ready"
    /\ settings' = [settings EXCEPT !.divisor = IF @ < 1 THEN 1 ELSE @ - 1]
    /\ UNCHANGED <<flash, pc, combo, promised>>

\* CAPS + Ctrl + Shift + plus / minus / L.
Faster ==
    /\ pc = "ready"
    /\ settings' = [settings EXCEPT !.divisor = IF @ <= 1 THEN 1 ELSE @ - 1]
    /\ UNCHANGED <<flash, pc, combo, promised>>

Slower ==
    /\ pc = "ready"
    /\ settings' = [settings EXCEPT !.divisor = IF @ >= MaxDivisor THEN MaxDivisor
                                                                   ELSE @ + 1]
    /\ UNCHANGED <<flash, pc, combo, promised>>

Flip(s) == [s EXCEPT !.led_on = 1 - @]

ToggleLed ==
    /\ pc = "ready"
    /\ settings' = Flip(settings)
    /\ UNCHANGED <<flash, pc, combo, promised>>

\* S calls save(), R calls clear(): both write a page.
SaveOrClear ==
    /\ pc = "ready"
    /\ combo' \in {"S", "R"}
    /\ pc' = "erase"
    /\ promised' = Unpromised
    /\ UNCHANGED <<settings, flash>>

Buffer == IF combo = "S" THEN settings ELSE Zeros

\* write_settings_page(): flash_range_erase, then flash_range_program.
Erase ==
    /\ pc = "erase"
    /\ flash' = Erased
    /\ pc' = "program"
    /\ UNCHANGED <<settings, combo, promised>>

Program ==
    /\ pc = "program"
    /\ flash' = Buffer
    /\ pc' = "written"
    /\ promised' = Promise(IF combo = "S" THEN settings ELSE Defaults)
    /\ UNCHANGED <<settings, combo>>

\* The rest of a combination.  clear() resets the settings in RAM, and the
\* case of R falls through to the case of L.
Finish ==
    /\ pc = "written"
    /\ settings' = IF combo = "R" THEN Flip(Reset(settings)) ELSE settings
    /\ pc' = "ready"
    /\ combo' = "none"
    /\ UNCHANGED <<flash, promised>>

\* A write under way leaves a torn page.
PowerLoss ==
    /\ pc # "off"
    /\ flash' \in CASE pc = "erase" -> Torn(flash, Erased)
                    [] pc = "program" -> Torn(Erased, Buffer)
                    [] OTHER -> {flash}
    /\ pc' = "off"
    /\ combo' = "none"
    /\ UNCHANGED <<settings, promised>>

\* Core 0's setup() calls init().
Boot ==
    /\ pc = "off"
    /\ settings' = Load(flash)
    /\ pc' = "ready"
    /\ UNCHANGED <<flash, combo, promised>>

Next ==
    \/ Faster
    \/ Slower
    \/ ToggleLed
    \/ SaveOrClear
    \/ Erase
    \/ Program
    \/ Finish
    \/ PowerLoss
    \/ Boot

Spec == Init /\ [][Next]_vars

-----------------------------------------------------------------------------
TypeOK ==
    /\ settings \in Pages
    /\ flash \in Pages
    /\ pc \in {"ready", "erase", "program", "written", "off"}
    /\ combo \in {"none", "S", "R"}
    /\ promised \in {Unpromised} \cup
                    [kind : {"settings"}, led_on : {0, 1}, divisor : Divisors]

\* AdjustMovement divides by sensitivity_divisor: no sequence of keys, saves,
\* clears, torn writes and boots ever makes it zero, although init() does not
\* check the page it loads and clear() writes zeros.
DivisorNonZero == settings.divisor # 0

\* A boot gives the settings of the last completed save, whatever was changed
\* in RAM since, and the defaults after a completed clear; only an
\* interrupted write leaves it open.
BootKeepsPromise ==
    [][pc = "off" /\ pc' = "ready" /\ promised # Unpromised
         => promised = Promise(settings')]_vars

=============================================================================
