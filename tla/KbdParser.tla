----------------------------- MODULE KbdParser -----------------------------
(***************************************************************************)
(* Core 1's parser of USB keyboard reports: PlatformKbdParser::Parse turns *)
(* the difference between two reports into key events, SpecialKeyCombo     *)
(* catches the key combinations, and SendString types a text into the      *)
(* queue, busy-waiting for core 0 to empty it (platformkbdparser.cpp,      *)
(* usbkbdparser.cpp).  One prevState serves all keyboards, so a report may *)
(* come from any of them: reports are unrelated to each other.             *)
(*                                                                         *)
(* Every call of the queue is a step.  Core 0 takes events at any time;    *)
(* down is what the Macintosh makes of them, in ADB key codes.  Of the     *)
(* eight modifiers the model has the left Control and both Shift keys.     *)
(* Num and scroll lock are ordinary keys here: they only change LEDs       *)
(* (KbdLeds).  Of m_custom_mod_keys the model has the flag of Caps Lock.   *)
(* What the mouse parser adds to the queue is in MouseParser.              *)
(***************************************************************************)
EXTENDS Naturals, Sequences, SequencesExt

CONSTANTS
    Caps,           \* USB_KEY_CAPSLOCK
    PowerKeys,      \* SysRq and F13, which stand for the power key
    TwiceKeys,      \* Pause and F15, which are queued twice
    TextKeys,       \* special keys that type a text (V, P)
    SettingKeys,    \* special keys that change a setting (S, R, L, +, -)
    PlainKeys,      \* other keys
    TextChars,      \* the keys that type the characters of a text
    NoKey,          \* USB_KEY_NONE
    Overflow,       \* USB_KEY_ERR_OVF
    Slots,          \* key codes in a report
    Capacity,       \* KEYBOARD_QUEUE_CAPACITY
    TextLength,     \* bound: characters in a text
    Reports,        \* bound: the reports these keyboards send
    MaxReports      \* bound: reports in a behaviour

Modifiers == <<"leftCtrl", "leftShift", "rightShift">>
Mods == Range(Modifiers)
Shifts == {"leftShift", "rightShift"}
SpecialKeys == TextKeys \cup SettingKeys
Keys == {Caps} \cup PowerKeys \cup TwiceKeys \cup SpecialKeys \cup PlainKeys
SharedCodes == {"power", "f15"}     \* ADB codes of more than one key

ASSUME KeysAssumption ==
    /\ NoKey # Overflow
    /\ {NoKey, Overflow} \cap Keys = {}
    /\ Mods \cap (Keys \cup {NoKey, Overflow}) = {}
    /\ SharedCodes \cap Keys = {}
    /\ PowerKeys \cap TwiceKeys = {}
    /\ Caps \notin PowerKeys \cup TwiceKeys \cup SpecialKeys \cup PlainKeys
    /\ TextChars \subseteq Keys \ ({Caps} \cup PowerKeys \cup TwiceKeys)
ASSUME SizeAssumption ==
    /\ Slots \in Nat \ {0}
    /\ Capacity \in Nat /\ Capacity >= 4 /\ Capacity > Len(Modifiers)
    /\ TextLength \in Nat /\ MaxReports \in Nat

\* Key codes are in the order the keys were pressed, or all are ERR_OVF when
\* more keys are down than fit.
KeyLists == {s \in [1..Slots -> Keys \cup {NoKey}] :
                \A i, j \in 1..Slots : i < j =>
                    /\ s[i] = s[j] => s[i] = NoKey
                    /\ s[i] = NoKey => s[j] = NoKey}
            \cup {[i \in 1..Slots |-> Overflow]}
AllReports == [mods : SUBSET Mods, keys : KeyLists]
NoReport == [mods |-> {}, keys |-> [i \in 1..Slots |-> NoKey]]

ASSUME ReportsAssumption == Reports \subseteq AllReports

VARIABLES
    pc1,            \* where core 1 is
    prevState,      \* the last report parsed
    report,         \* the report being parsed
    todo,           \* the calls Parse or SendString is about to make
    typed,          \* characters of the text typed so far
    capsLed,        \* kbdLockingKeys.kbdLeds.bmCapsLock
    modifierKeys,   \* m_modifier_keys
    capsFlag,       \* CapsLockFlag of m_custom_mod_keys
    queue,          \* m_keyboard_events
    extended,       \* kbd_handler_id is that of the extended keyboard
    down,           \* the ADB codes the Macintosh holds to be down
    disturbed,      \* an event was dropped, or a flush or the host set the LEDs (history)
    recoded,        \* the handler id changed under a right Shift key (history)
    partial,        \* since all keys were up a text was typed, or two keys of
                    \* one ADB code were down in one report or two successive ones (history)
    reports         \* reports so far (bound)

registerVars == <<modifierKeys, capsFlag>>
hostVars == <<extended, down, recoded>>
vars == <<pc1, prevState, report, todo, typed, capsLed, registerVars, queue,
          hostVars, disturbed, partial, reports>>

KeysOf(r) == Range(r.keys) \ {NoKey, Overflow}
Pressed(r) == r.mods \cup KeysOf(r)

Event(key, do) == [key |-> key, do |-> do]
Events == [key : Keys \cup Mods, do : {"down", "up"}]

Call(do, key) == [do |-> do, key |-> key, second |-> FALSE]
Calls == [do : {"lock", "down", "up"}, key : Keys \cup Mods, second : BOOLEAN]

Init ==
    /\ pc1 = "usb"
    /\ prevState = NoReport /\ report = NoReport
    /\ todo = <<>> /\ typed = 0
    /\ capsLed = FALSE
    /\ modifierKeys = {} /\ capsFlag = FALSE
    /\ queue = <<>>
    /\ extended = FALSE /\ down = {}
    /\ disturbed = FALSE /\ recoded = FALSE /\ partial = FALSE
    /\ reports = 0

-----------------------------------------------------------------------------
(* Core 0 and the Macintosh: key codes and registers.                       *)

\* usb_keycode_to_adb_code: most keys have a code of their own.
AdbCode(key) ==
    CASE key = "rightShift" /\ ~extended -> "leftShift"
      [] key \in PowerKeys -> "power"
      [] key \in TwiceKeys -> "f15"
      [] OTHER -> key
AdbCodes == Keys \cup Mods \cup SharedCodes

\* What register 0 makes of the keys that are down.  The power key fills both
\* places, but the status bit of the second is never set: it always says down.
AfterEvent(keys, event) ==
    LET code == AdbCode(event.key)
        first == IF event.do = "down" THEN keys \cup {code} ELSE keys \ {code}
    IN  IF code = "power" THEN first \cup {code} ELSE first

\* The keys register 2 says are down.
Register2 ==
    (IF "leftCtrl" \in modifierKeys THEN {"leftCtrl"} ELSE {})
    \cup (IF modifierKeys \cap Shifts # {} THEN {"leftShift"} ELSE {})
    \cup (IF capsFlag THEN {Caps} ELSE {})

-----------------------------------------------------------------------------
(* Core 1: Parse.                                                           *)

\* Exactly one special key together with Caps Lock, Control and Shift.
SpecialKeyCombo(r) ==
    /\ \E k \in SpecialKeys : KeysOf(r) \cap SpecialKeys = {k}
    /\ Caps \in KeysOf(r)
    /\ "leftCtrl" \in r.mods
    /\ r.mods \cap Shifts # {}

\* OnControlKeysChanged: one call for each modifier that changed.
ModCalls(before, after) ==
    LET CallsOf(m) == IF m \in after \ before THEN <<Call("down", m)>>
                      ELSE IF m \in before \ after THEN <<Call("up", m)>>
                      ELSE <<>>
    IN  FlattenSeq([i \in 1..Len(Modifiers) |-> CallsOf(Modifiers[i])])

\* Faulty variant of KeyUps: a key that only moved to another slot is
\* released.
KeyUpsMoved(key, r, i) ==
    IF key \in Keys \ {Caps} /\ key # r.keys[i] THEN <<Call("up", key)>> ELSE <<>>

\* OnKeyUp of what was in slot i of prevState, which ignores no key, ERR_OVF
\* and Caps Lock.
KeyUps(key, r, i) ==
    IF key \in Keys \ ({Caps} \cup KeysOf(r)) THEN <<Call("up", key)>> ELSE <<>>

\* HandleLockingKeys and OnKeyDown of a key prevState does not have.
KeyDowns(key, before) ==
    IF key \notin Keys \ KeysOf(before) THEN <<>>
    ELSE IF key = Caps THEN <<Call("lock", key), Call("down", key)>>
    ELSE <<Call("down", key)>>

\* Slot by slot the new key code, then the old one.
ReportCalls(before, after) ==
    ModCalls(before.mods, after.mods)
    \o FlattenSeq([i \in 1..Slots |-> KeyDowns(after.keys[i], before)
                                      \o KeyUps(before.keys[i], after, i)])

\* The new key-down of one key is followed by the old key-up of another one that
\* the Macintosh cannot tell from it, or the two are down together.
SharedCode(r) ==
    \E j, k \in Pressed(prevState) \cup Pressed(r) : j # k /\ AdbCode(j) = AdbCode(k)

ParseCombo(r) ==
    /\ pc1 = "usb"
    /\ reports < MaxReports /\ reports' = reports + 1
    /\ SpecialKeyCombo(r)
    /\ KeysOf(r) \cap SettingKeys # {} => UNCHANGED <<pc1, typed, partial>>
    /\ KeysOf(r) \cap SettingKeys = {} =>
          pc1' = "waitText" /\ typed' = 0 /\ partial' = TRUE
    /\ UNCHANGED <<prevState, report, todo, capsLed, queue, registerVars, hostVars, disturbed>>

Parse(r) ==
    /\ pc1 = "usb"
    /\ reports < MaxReports /\ reports' = reports + 1
    /\ ~SpecialKeyCombo(r)
    /\ report' = r
    /\ todo' = ReportCalls(prevState, r)
    /\ modifierKeys' = IF r.mods # prevState.mods THEN r.mods ELSE modifierKeys
    /\ partial' = (partial \/ SharedCode(r))
    /\ pc1' = "parse"
    /\ UNCHANGED <<prevState, typed, capsLed, queue, capsFlag, hostVars, disturbed>>

\* tuh_hid_report_received_cb: the next report can only arrive after Parse,
\* when it has been asked for.
ReportReceived(r) == Parse(r) \/ ParseCombo(r)

ParseDone ==
    /\ pc1 = "parse"
    /\ todo = <<>>
    /\ prevState' = report
    /\ report' = NoReport
    /\ pc1' = "usb"
    /\ partial' = (partial /\ Pressed(report) # {})
    /\ UNCHANGED <<todo, typed, capsLed, queue, registerVars, hostVars, disturbed, reports>>

-----------------------------------------------------------------------------
(* Core 1: the calls of Parse and SendString.                               *)

\* enqueue(new KeyEvent(..)) deletes the event when the queue is full.
Enqueue(e) ==
    IF Len(queue) < Capacity
    THEN queue' = Append(queue, e) /\ UNCHANGED disturbed
    ELSE disturbed' = TRUE /\ UNCHANGED queue

HandleLockingKeys ==
    /\ todo # <<>> /\ Head(todo).do = "lock"
    /\ capsLed' = ~capsLed
    /\ todo' = Tail(todo)
    /\ UNCHANGED <<pc1, prevState, report, typed, queue, registerVars, hostVars, disturbed,
                   partial, reports>>

\* Caps Lock goes down for the Macintosh when its LED is lit, and up when not;
\* the flag of register 2 is set the other way round.
OnCapsLock ==
    /\ todo # <<>> /\ Head(todo) = Call("down", Caps)
    /\ Enqueue(Event(Caps, IF capsLed THEN "down" ELSE "up"))
    /\ capsFlag' = ~capsLed
    /\ todo' = Tail(todo)
    /\ UNCHANGED <<pc1, prevState, report, typed, capsLed, modifierKeys, hostVars,
                   partial, reports>>

\* OnKeyDown and OnKeyUp of any other key.  Pause and F15 are queued again, if
\* the first event found room.
OnKey ==
    /\ todo # <<>>
    /\ LET call == Head(todo)
           again == call.key \in TwiceKeys /\ ~call.second /\ Len(queue) < Capacity
       IN  /\ call.do \in {"down", "up"}
           /\ call.key # Caps
           /\ Enqueue(Event(call.key, call.do))
           /\ todo' = (IF again THEN <<[call EXCEPT !.second = TRUE]>> ELSE <<>>) \o Tail(todo)
    /\ UNCHANGED <<pc1, prevState, report, typed, capsLed, registerVars, hostVars, partial, reports>>

-----------------------------------------------------------------------------
(* Core 1: SendString.                                                      *)

ForcedUps == <<Call("up", "leftShift"), Call("up", "rightShift"), Call("up", "leftCtrl")>>

\* Faulty variant of StartText: Shift is not released.
StartTextShifted ==
    /\ pc1 = "waitText"
    /\ queue = <<>>
    /\ todo' = SelectSeq(ForcedUps, LAMBDA c : c.key \notin Shifts)
    /\ pc1' = "forceUp"
    /\ UNCHANGED <<prevState, report, typed, capsLed, queue, registerVars, hostVars, disturbed,
                   partial, reports>>

\* while (PendingKeyboardEvent()); then the modifiers are forced up.
StartText ==
    /\ pc1 = "waitText"
    /\ queue = <<>>
    /\ todo' = ForcedUps
    /\ pc1' = "forceUp"
    /\ UNCHANGED <<prevState, report, typed, capsLed, queue, registerVars, hostVars, disturbed,
                   partial, reports>>

\* Faulty variant of ForceCapsUp: the LED stays as it is.
ForceCapsUpKeepsLed ==
    /\ pc1 = "forceUp"
    /\ todo = <<>>
    /\ Enqueue(Event(Caps, "up"))
    /\ pc1' = "waitChar"
    /\ UNCHANGED <<prevState, report, todo, typed, capsLed, registerVars, hostVars, partial, reports>>

\* Caps Lock is released with an event of its own, because OnKeyUp ignores
\* it; the LED goes out if the event was queued.
ForceCapsUp ==
    /\ pc1 = "forceUp"
    /\ todo = <<>>
    /\ Enqueue(Event(Caps, "up"))
    /\ capsLed' = (capsLed /\ Len(queue) >= Capacity)
    /\ pc1' = "waitChar"
    /\ UNCHANGED <<prevState, report, todo, typed, registerVars, hostVars, partial, reports>>

\* char_to_usb_keycode: a key, alone or with the left Shift key (as for a line
\* feed too).  Every character of the texts has a key.
CharKeys == [key : TextChars, shift : BOOLEAN]

CharCalls(char) ==
    (IF char.shift THEN <<Call("down", "leftShift")>> ELSE <<>>)
    \o <<Call("down", char.key), Call("up", char.key)>>
    \o (IF char.shift THEN <<Call("up", "leftShift")>> ELSE <<>>)

\* Faulty variant of TypeChar: the text does not advance.
TypeCharAgain ==
    /\ pc1 = "waitChar"
    /\ queue = <<>> /\ typed < TextLength
    /\ \E char \in CharKeys : todo' = CharCalls(char)
    /\ pc1' = "type"
    /\ UNCHANGED <<prevState, report, typed, capsLed, queue, registerVars, hostVars, disturbed,
                   partial, reports>>

\* while (PendingKeyboardEvent()); before every character.
TypeChar ==
    /\ pc1 = "waitChar"
    /\ typed < TextLength
    /\ queue = <<>>
    /\ \E char \in CharKeys : todo' = CharCalls(char)
    /\ typed' = typed + 1
    /\ pc1' = "type"
    /\ UNCHANGED <<prevState, report, capsLed, queue, registerVars, hostVars, disturbed, partial, reports>>

TypeCharDone ==
    /\ pc1 = "type"
    /\ todo = <<>>
    /\ pc1' = "waitChar"
    /\ UNCHANGED <<prevState, report, todo, typed, capsLed, queue, registerVars, hostVars,
                   disturbed, partial, reports>>

\* Parse then returns without storing the report in prevState.
TextDone ==
    /\ pc1 = "waitChar"
    /\ typed = TextLength
    /\ typed' = 0
    /\ pc1' = "usb"
    /\ UNCHANGED <<prevState, report, todo, capsLed, queue, registerVars, hostVars, disturbed,
                   partial, reports>>

-----------------------------------------------------------------------------
(* Core 1: KbdRptParser::Reset, which loop1 calls between reports when a     *)
(* flush has set usb_kbd_reset (AdbDevice); any pass of the loop may see it. *)

StartReset ==
    /\ pc1 = "usb"
    /\ pc1' = "drain"
    /\ UNCHANGED <<prevState, report, todo, typed, capsLed, queue, registerVars, hostVars,
                   disturbed, partial, reports>>

Drain ==
    /\ pc1 = "drain"
    /\ queue # <<>>
    /\ queue' = Tail(queue)
    /\ disturbed' = TRUE
    /\ UNCHANGED <<pc1, prevState, report, todo, typed, capsLed, registerVars, hostVars, partial, reports>>

ResetDone ==
    /\ pc1 = "drain"
    /\ queue = <<>>
    /\ capsLed' = FALSE
    /\ disturbed' = (disturbed \/ capsLed)
    /\ pc1' = "usb"
    /\ UNCHANGED <<prevState, report, todo, typed, queue, registerVars, hostVars, partial, reports>>

-----------------------------------------------------------------------------
(* Core 0.                                                                  *)

\* GetAdbRegister0 takes an event, and the Macintosh gets it (AdbDevice).
TakeEvent ==
    /\ queue # <<>>
    /\ queue' = Tail(queue)
    /\ down' = AfterEvent(down, Head(queue))
    /\ UNCHANGED <<pc1, prevState, report, todo, typed, capsLed, registerVars, extended,
                   recoded, disturbed, partial, reports>>

\* adb_set_leds after a Listen of register 2, of the extended keyboard only.
SetLeds ==
    /\ extended
    /\ capsLed' = ~capsLed
    /\ disturbed' = TRUE
    /\ UNCHANGED <<pc1, prevState, report, todo, typed, queue, registerVars, hostVars,
                   partial, reports>>

\* A right Shift key is down, for core 1 or for the Macintosh, or its release is
\* still queued.
RightShiftUnderWay ==
    \/ "rightShift" \in down
    \/ "rightShift" \in prevState.mods \cup report.mods
    \/ \E i \in DOMAIN queue : queue[i].key = "rightShift"

\* A Listen of register 3 sets the handler id, and SendReset sets it back.
SetHandler ==
    /\ extended' = ~extended
    /\ recoded' = (recoded \/ RightShiftUnderWay)
    /\ UNCHANGED <<pc1, prevState, report, todo, typed, capsLed, registerVars, queue,
                   down, disturbed, partial, reports>>

-----------------------------------------------------------------------------
\* Core 1 inside Parse; everything else waits until it returns.
Parsing ==
    \/ HandleLockingKeys
    \/ OnCapsLock
    \/ OnKey
    \/ ParseDone
    \/ StartText
    \/ ForceCapsUp
    \/ TypeChar
    \/ TypeCharDone
    \/ TextDone

Next ==
    \/ \E r \in Reports : ReportReceived(r)
    \/ Parsing
    \/ StartReset
    \/ Drain
    \/ ResetDone
    \/ TakeEvent
    \/ SetLeds
    \/ SetHandler

Spec == Init /\ [][Next]_vars

\* Core 1 runs on inside Parse, and the Macintosh polls the keyboard.
FairSpec == Spec /\ WF_vars(Parsing) /\ WF_vars(TakeEvent)

-----------------------------------------------------------------------------
TypeOK ==
    /\ pc1 \in {"usb", "parse", "waitText", "forceUp", "waitChar", "type", "drain"}
    /\ prevState \in AllReports /\ report \in AllReports
    /\ todo \in Seq(Calls)
    /\ typed \in 0..TextLength
    /\ capsLed \in BOOLEAN
    /\ modifierKeys \subseteq Mods /\ capsFlag \in BOOLEAN
    /\ queue \in Seq(Events) /\ Len(queue) <= Capacity
    /\ extended \in BOOLEAN /\ recoded \in BOOLEAN
    /\ down \subseteq AdbCodes
    /\ disturbed \in BOOLEAN /\ partial \in BOOLEAN
    /\ reports \in 0..MaxReports

\* What these events make of the keys that are down: the last event about a key
\* counts, and the power key is never up again.
After(keys, events) ==
    LET About(code) == {i \in DOMAIN events : AdbCode(events[i].key) = code}
        Down(i, code) == events[i].do = "down" \/ code = "power"
    IN  {code \in AdbCodes :
            \/ About(code) = {} /\ code \in keys
            \/ \E i \in About(code) : Down(i, code) /\ \A j \in About(code) : j <= i}

\* The keys the Macintosh will hold to be down when it has taken the queue.
Believed == After(down, queue)

AdbCodesOf(keys) == {AdbCode(k) : k \in keys}

\* Between reports the Macintosh never holds a key down that the last report
\* did not have, and no key of it is missing unless a text was typed in the
\* middle or one of two keys with the same ADB code was released: one
\* prevState for all keyboards, ERR_OVF reports, keys that change slots and
\* the early return of SpecialKeyCombo leave no key stuck.  Caps Lock, which is
\* down as long as its LED is lit, and the power key are exceptions.  Once
\* the events are taken, register 2 agrees about the modifiers.
HostFollowsReports ==
    pc1 = "usb" /\ ~disturbed /\ ~recoded =>
        LET pressed == AdbCodesOf(Pressed(prevState)) \ {Caps, "power"}
            whole == partial \/ pressed \subseteq Believed
        IN  /\ Believed \ {Caps, "power"} \subseteq pressed
            /\ whole
            /\ queue = <<>> /\ ~partial /\ ~extended =>
                  Register2 \ {Caps} = down \cap {"leftCtrl", "leftShift"}

\* Caps Lock is down for the Macintosh exactly when the LED is lit.
CapsFollowsLed == pc1 = "usb" /\ ~disturbed => (Caps \in Believed <=> capsLed)

\* SendString finds room for everything it queues: it waits for an empty
\* queue, and what it queues between two waits fits.
TextFits ==
    pc1 \in {"forceUp", "type"} =>
        Len(queue) + Len(todo) + (IF pc1 = "forceUp" THEN 1 ELSE 0) <= Capacity

\* "force key up on modifier keys": whatever was held before, and whatever
\* events had been dropped, a text is typed without modifiers.
TextUnmodified ==
    pc1 = "waitChar" /\ ~recoded => Believed \cap (Mods \cup {Caps}) = {}

\* Typing a text never fills the queue and is never modified by what the user
\* still holds down.
TextInv ==
    /\ TypeOK
    /\ TextFits
    /\ TextUnmodified

\* SendString's busy waits come to an end, as long as the Macintosh polls: a
\* flush cannot drain the queue meanwhile, because core 1 would have to.
TextEnds == pc1 = "waitText" ~> pc1 = "usb"

-----------------------------------------------------------------------------
(* What the documents say and the code does not do.                         *)

\* adbregisters.h:32 says of bit 7 of register 0 "Key status for second key; 0 =
\* down", and adbkbdparser.cpp:81-82 that "the power key will be packed as both
\* the first and second key": a released power key is up.  Violated because
\* the release sets the status bit of the first place twice.
PowerKeyReleased ==
    pc1 = "usb" /\ ~disturbed /\ Pressed(prevState) \cap PowerKeys = {} =>
        "power" \notin Believed
=============================================================================
