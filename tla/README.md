# QuokkADB in TLA+

QuokkADB (`src/src/firmware`) lets USB keyboards and mice talk to an old
Macintosh: it is a USB host on one side and pretends to be an Apple Desktop Bus
(ADB) keyboard and mouse on the other. The modelled build is the RP2040 one,
which runs on two cores without an operating system:

* **core 0** (`loop`, quokkadb.cpp) is the ADB side. It packs waiting input into
  ADB registers, waits for a command of the Macintosh, answers it, and raises
  flags for core 1;
* **core 1** (`loop1`) is the USB side. It runs TinyUSB, whose callbacks parse HID
  reports into events, obeys the flags of core 0 and sends keyboard LEDs.

The cores share heap objects through mutex-protected queues (`SCQueue`) and,
without any lock, a number of flags and counters. Most of what can go wrong is
in that sharing, in what the Macintosh may send at an awkward time, and in the
flash sector that survives a power cut.

Source paths below are relative to `src/src/firmware/lib/`.

## 1. Inventory

| Component | State | Operations | Hard because |
|---|---|---|---|
| **Event queue** `usb/include/scqueue.{h,tpp}` | ring, `first_`, `last_`, `is_empty_`, mutex | `enqueue` (owns the item; deletes it when full), `dequeue`, `peek`, `isEmpty` | called by both cores; full and empty have the same indices up to `is_empty_`; ownership of heap objects |
| **ADB devices** `adb/src/adb.cpp`, `adb/include/adb.h` | pending and service-request flags, two addresses, collision memory, handler id, register 0 | `ReceiveCommand`, `ProcessCommand` (Talk, Listen, Flush, SendReset), `Reset` | the host can send anything, address both devices alike, lose interest; flags outlive their data |
| **Main loops** `QuokkADB/src/quokkadb.cpp` | `adb_reset`, `usb_mouse_reset`, `usb_kbd_reset`, flush flags | `loop`, `loop1` | flags set by one core and cleared by the other |
| **Register packing** `adb/src/adbkbdparser.cpp`, `adbmouseparser.cpp` | register 0 | `GetAdbRegister0` | several queue calls that are not atomic together; core 1 drains the same queue |
| **Keyboard LEDs** `QuokkADB/src/platformkbdparser.cpp`, `usbhost.cpp`, `adb_platform.cpp` | `kbdLockingKeys`, `usb_set_leds`, `set_hid_report_ready`, `keyboards_list`, static buffer and index | `SetUSBkeyboardLEDs`, `ChangeUSBKeyboardLEDs`, `AddKeyboard`, `RemoveKeyboard`, completion callback | requests from both cores without a lock, one report at a time, failing reports and transfers, keyboards coming and going |
| **Settings** `QuokkADB/src/flashsettings.cpp` | RAM copy, last flash sector | `init`, `save`, `clear`, `reset`, key combinations | power loss between and within erase and program |
| **USB keyboard parser** `usb/src/usbkbdparser.cpp`, `platformkbdparser.cpp` | `prevState`, `kbdLockingKeys` | `Parse`, `OnKeyDown/Up`, `SpecialKeyCombo`, `SendString` | one `prevState` for all keyboards, early returns, busy waits for the host |
| **USB mouse parser** `platformmouseparser.cpp`, `usbmouseparser.cpp` | movement counters, `m_ready`, `m_processed`, click queue | `Parse`, `MouseReady`, `Reset` | unlocked counters of two cores, busy waits |
| **Blink** `QuokkADB/src/blink.cpp` | queue of blink requests, `blinking`, phase, LED pin | `blink`, `led_on`, `led_off`, `poll` | both cores drive the LED and only test a flag first; the queue can be full; a save parks core 0 |
| **Log cache** `QuokkADB/src/log_cache.cpp`, `platform_logmsg.h` | character ring, write position, mutex, `log_poll`'s position | `log_raw`, `log_get_buffer`, `log_poll` | the ring is read outside its mutex; 32 bit positions wrap; the reader can fall behind by more than the ring |
| **Bus timing** `adb/include/adb.h`, `adb_platform.cpp` | GPIO, `adb_collision`, its interrupt | `SendTalkRegister3`, delays with collision detection, bit transfer | several devices at one address, all random, each seeing only its own pin and an edge interrupt |

What makes each correct:

* queue: an atomic bounded FIFO; no event lost, doubled, overwritten, leaked or
  freed twice; the mutex always released;
* devices: keys reach the host once and in order; a service request is raised for
  the other device's data and for nothing else; a device with data is polled in
  the end; a collision makes exactly the device that lost stay where it is;
* loops: after a flush no older key is sent from the queue, although flags are lost;
* packing: only live events are read, and the power key never shares a register,
  as long as no reset drains the queue meanwhile;
* LEDs: one report at a time, a scan serves every keyboard whose LEDs are read after the
  last store to them, every request ends;
* parsers: no key or button stays down for the host, a movement is neither lost nor
  counted into the next one, and no busy wait lasts for ever while the host polls;
* settings: never a zero divisor, and a boot restores the last completed save;
* LED: a user can count the flashes that were asked for, but for two at the most, and
  a LED the user turned off goes dark and stays dark;
* log: characters come out once and in order, and are dropped only when overrun;
* bus: a Talk of register 3 is always answered, only devices that began together
  can answer together, and the host ends up with an address for each.

How they interact: USB report → parser → `SCQueue` → `GetAdbRegister0` → `adb.cpp`
→ host; host Listen register 2 → `adb_set_leds` → `SetUSBkeyboardLEDs` →
`ChangeUSBKeyboardLEDs` → USB; host Flush → flush flag (core 0) → reset flag →
`Reset` (core 1) → drain of the queues and LEDs off; key combination → settings →
flash → next boot.

## 2. Modules

| Module | Models |
|---|---|
| `BoundedFifo` | what `SCQueue` promises: an atomic FIFO that owns what is in it, with the value every call returns |
| `SCQueue` | the ring buffer, one action per group of statements between which the other core can run; `Fifo` is its refinement mapping to `BoundedFifo` |
| `AdbDevice` | core 0's loop with both devices and a free host, and core 1's answer to the reset flags |
| `AdbPolling` | `AdbDevice` with a host that polls and follows service requests (composition, liveness) |
| `KeyEventPath` | `BoundedFifo` with `GetAdbRegister0` on core 0 and `OnKeyDown`, `Reset` on core 1, pointer by pointer |
| `KbdLeds` | requests, list, scan and completion of the LED reports |
| `FlashSettings` | RAM copy, flash page, key combinations, power loss and boot |
| `StatusLed` | extends `FlashSettings` by the status LED: core 0's `led_on` and `led_off`, core 1's `poll`, the requests for blinks (composition; the run `flash` checks both) |
| `KbdParser`, `MCKbdParser` | reports to key events on core 1, key combinations, typing a text; ADB codes, registers 0 and 2, and the keys the Macintosh believes in |
| `MouseParser`, `MCMouseParser` | reports to movements and clicks on core 1, `MouseReady` and `GetAdbRegister0` on core 0; the two right button modes |
| `LogCache` | the log's ring, printed to by both cores and emptied by core 1 |
| `Collision` | several devices at one address answering Talk register 3 in real time, and a host that gives them addresses |
| `BoundedFifoProofs`, `SCQueueProofs`, `KeyEventPathProofs`, `AdbDeviceProofs`, `PlatformProofs`, `KeyboardProofs`, `MouseParserProofs`, `CollisionProofs` | the theorems of section 5 |

`KeyEventPath` uses the queue as an atomic object, which is justified by
`SCQueue`'s refinement; `AdbDevice` in turn shortens the packing to two steps
whose details `KeyEventPath` has. A definition named *Faulty variant of X* is a
plausible bug; it is used by no specification and serves to show that
a property notices that bug.

### Correspondence to the code

*SCQueue.* `pc[c]` is where core `c` is inside a method; "idle" is outside.
`EnqueueTest` is the computation of `new_last` and the full test with its
`delete item`; `EnqueueStore` both branches of the store; `DequeueAdvance` and
`DequeueFetch` are separate because the code moves `first_` before it reads the
slot it left. `Lock` and `Unlock` are the mutex. `item[c]` is the pointer a
core owns, `live` the allocated addresses, so that a leak and a double delete are
visible; `answer[c]` is what the call returned, so that telling a caller "full" too
early is visible. Items come from `New`, and a core that holds one must enqueue
or delete it, as the parsers do.

*AdbDevice.* `pc0` walks through `loop`: test the keyboard queue, pack the first
and the second key (the queue can change in between), sample the mouse, wait for a
command, process it, `adb.Reset()`, hand the flush flags to core 1. `Receive(c)` is
`ReceiveCommand`: a command is an operation and an address, or a failure; `srq`
is whether the bus was held low after it. `ProcessCommand` runs the mouse block and
then the keyboard block, as the code does; if both have the address of a Listen
the data is received once. Its error result, the collision result of
`SendTalkRegister3` and the 90 ms rule are choices, because bit timing is not
modelled. `pc1` walks through the reset part of `loop1`. Key events are numbers, so
that order and loss can be stated; `fate` and `beforeFlush` are history.

*KeyEventPath.* Each call of the queue is a step. `ReadThrough` gives what a pointer
reads: the event while it is live, anything when it is NULL or freed. The heap
reuses addresses, which is what makes a stale pointer dangerous.

*KbdLeds.* `SetUSBkeyboardLEDs` writes bits of one byte with plain loads and stores
on either core, which is a data race when both do; `Mix` gives the values it can
leave. A call of `ChangeUSBKeyboardLEDs` is several steps, since core 0 can store LEDs and
raise the flag anywhere in it: it reads the LEDs into the static buffer (`ReadLeds`,
`ReadRest`, lines 305-307), then skips the slot, sends, fails to send or waits
(309-332), and after the last slot lowers the flag (`ScanEnd`, 335), also if core 0 has
just raised it. What only core 1 uses (the list, the slot, TinyUSB) changes between calls or in
one of those steps. `Transfer` and `TransferFails` are TinyUSB sending the byte, `ReportComplete` its
callback, which is the same for both because the code ignores `len`. `lit` is what
the keyboards show. `servedFrom` is history: from this slot on, the current or last scan
has read the LEDs after the last store to them; a store puts it behind the last slot.
`unserved` is history too: the keyboards whose last report failed.

*FlashSettings.* A write is `Erase` then `Program`; `PowerLoss` can hit before,
between, after, or inside either, and then each byte is old or new, or the magic
number has a half of each. `promised` is history: what the next boot has to find.

*KbdParser.* `Parse` computes the calls of one report from `prevState` and
leaves them in `todo`; every call (`HandleLockingKeys`, `OnCapsLock`, `OnKey`) is a
step, between which core 0 takes events (`TakeEvent`) or sets the LEDs (`SetLeds`).
`ParseCombo` is the early return of `SpecialKeyCombo`; for a text it goes on with
`SendString`: `StartText` and `TypeChar` are the ends of its busy waits, `ForceCapsUp` its
own event for Caps Lock. Of the modifiers the left Control and both Shift keys
are modelled, which is what the combinations, `SendString` and the handler id need:
`AdbCode` gives the code a key has for the Macintosh, where the right Shift is the left one
unless the handler is that of an extended keyboard (`extended`), `PowerKeys` (SysRq, F13)
share the power key's code, and `TwiceKeys` (Pause, F15) are queued twice.
`AfterEvent` is register 0's effect with its two status bits, `Register2` the modifiers
of register 2, whose Caps Lock bit has the opposite sense (`capsFlag`).
`down` is what the Macintosh makes of the events it took, and `Believed` what it will
make of those still queued: the last event about a code counts (`After`). `disturbed`, `recoded` and `partial` are history: an event was
dropped or the LEDs set by others; the handler id changed under a right Shift key; a
text or keys that share a code came in between.

*StatusLed.* `LedOffTest`, `LedOff`, `LedOnTest` and `LedOn` are the test of `blinking` and the
write to the pin, since core 1 can start a blink between them (`StartBlink` lights the
LED before `SetBlinking` sets the flag). `DarkPhase`, `LightPhase` and `EndBlink` are the
branches of `poll`; a phase lasts for any number of polls. A blink is 1 to `ErasedByte`
flashes, as `times` is a `uint8_t` and every call in the code asks for a positive number. `shown`, `seen` and
`spoiled` are history: whether the LED was lit at the end of the current flash, the flashes one
could see (the LED was lit when `poll` ended the flash and dark when it ended the dark phase), and
the phases core 0 drove the LED in.

*LogCache.* A character is its number in the log and whether it breaks the line.
`StartPrint` picks a call of `Logmsg` as the pieces it prints, one `log_raw` each: `Enter`
takes the mutex, `CopyChar` stores a character, `Terminate` stores the NUL and leaves.
`GetBuffer` is `log_get_buffer`, with the skip to a line break after an overrun and the wrap
of the positions at `Width`; `SendChar` and `WriteReturns` are the serial port's write,
which may refuse the rest. `raced` names the slots printed over after the mutex was
given back.

*Collision.* `pc[d]` is where device `d` is in `SendTalkRegister3`, `timer[d]` the ticks its
current delay still lasts. A low output raises the interrupt flag `adb_collision` of
every device that detects collisions and whose own output is high (`Interrupted`);
devices that go low in the same tick may or may not see each other. The delays test the
flag, the sending of bits only shortens its high part, as in the code. `addr`, `skip` and
`answered` are what the host's commands work with. Time passes (`Tick`) only when no
device has anything to do in the current tick.

*MouseParser.* Every report brings at most one movement, and a movement is a
number of its own, so that the counters are the set `coarse` of the movements added
up in them; `sent` is history. `ParseStart`, `ClearProcessed` and `AddMovement` are the test of
`m_processed`, the assignment to it and the addition, since core 0 can do
something between them; `ReadReady` and `ClearReady` are the two statements of
`MouseChanged`; `Talk`, `TakeClick`, `ReadMovement` and `MarkProcessed` those of
`GetAdbRegister0`. The left press that queues two clicks, one with a right button
bit nobody wrote, is in `ButtonCalls`. `raced`, `missed`, `dropped` and `mixed` name, as
history, the windows in which the code gives no guarantee.

## 3. What is checked

Each run takes TLC a little over a minute at most; the proofs, of which `KeyboardProofs` are the longest, take a few minutes a module.

| Run | Question | Bounds |
|---|---|---|
| `scqueue` | Does the ring, with both cores inside it at any statement, implement the FIFO, and is the mutex released on every path? | 2 cores, 3 addresses, 2 slots: full, empty, wrapped, and an item refused all happen |
| `adb_service` | Do keys arrive in order, each accounted for, are service requests raised for the other device's data only, and does a flush empty the queue although its flag can be lost? | 3 keys, queue of 2 (so one can be refused and two be packed), 1 click, hosts that send Talk 0, Listen 2, Flush, SendReset, garbage or nothing |
| `adb_polling` | Is every key and every movement fetched in the end by a host that polls one device only, while it also moves the devices, onto one address too, and resets them? Are skipped changes of address right? | 3 device addresses, every register 3 handler value and collision, 1 key |
| `key_path` | Are only live events read and is nothing leaked while core 1 drains and refills the queue? Does the drain end? | 3 addresses, 2 slots |
| `kbd_parser` | Does the Macintosh end up with the keys of the last report, whatever was reported, and does typing a text end? | 2 slots, queue of 4 (20 in the code; a report can overfill it, a text cannot), 3 reports of 10 kinds, texts of 1 character |
| `mouse_parser` | Are movements lost, announced and cleared as intended, buttons released and right clicks whole, and do the busy waits end? | 3 reports of 8 kinds, 1 movement, queue of 2 clicks (so a click can be refused) |
| `kbd_leds` | Whom does a scan serve while core 0 stores LEDs and raises the flag between any two of its steps, and does every request come to an end? | 2 keyboards, 3 slots (one always free), 3 requests, failing reports and transfers, unplugging |
| `flash` | Is the divisor never zero and every completed save honoured? Do blinks show, can their flashes be counted, and does the LED stay off when it should? | `StatusLed`: divisors 1 and 2 with 3 in place of the erased byte 255 (only that it is above the largest matters), a queue of 1 blink (2 requests overfill it), 2 or 3 flashes a blink |
| `log_cache` | Do the characters come out in order over overruns, partial writes and the wrap of the positions? | ring of 4 with a skip of 2, positions modulo 8, texts of up to 2 characters and a line break, 10 characters: the ring wraps twice and the positions once |
| `collision` | Is a Talk of register 3 answered, by whom, who moves together, and does the host separate the devices? | 3 devices, 3 addresses, delays of 0 to 2 ticks, 1 data bit, 1 command missed by a device |

Two runs end in a counterexample and are the project's findings:

| Run | What a comment says | What the code does |
|---|---|---|
| `led_errors` | adb.h:57 "returns less than zero on a failed receive" | the error code goes to `adb_set_leds` as LED data |
| `power_release` | adbregisters.h:32: bit 7 is the second key's status, 0 = down; adbkbdparser.cpp:81-82: the power key is packed as both keys | the release sets the first key's status bit twice, so register 0 is 0xFF7F and the second key says down |

Other behaviour a maintainer may want to know, seen in the models but checked by no run of its
own:

* a key in the first 90 ms after boot is dropped with its service request left up (the fate
  "skipped" of `AdbDevice`);
* if core 1 drains and refills the queue between `peek` and `dequeue`, another event is taken
  than the one checked, and the power key can share a register (adbkbdparser.cpp:81-85; `overlap`
  of `KeyEventPath`);
* the combination R, documented as a reset to defaults, falls through to L and toggles the
  status LED as well (platformkbdparser.cpp:217; `FlashSettings`);
* an LED change stored during a scan is forgotten for the keyboards whose slot was read before: it
  goes out with the old LEDs if core 0 stores between lines 305 and 313, and a flag raised just
  before line 335 is erased there (`servedFrom` of `KbdLeds`);
* a keyboard whose report failed, or whose transfer failed (the callback ignores `len`,
  usbhost.cpp:149-152), is not tried again before the next change (`unserved` of `KbdLeds`);
* the Caps Lock flag of register 2 is set the other way round from those of Num and Scroll Lock
  (usbkbdparser.cpp:105-117, 139-164), and register 2 is only refreshed together with register 0;
* keys that share an ADB code release each other (`partial` of `KbdParser`), and a change of the
  handler id while the right Shift key is down leaves its old code down (`recoded`);
* Pause and F15 are queued twice, although the power key is on SysRq and F13;
* a movement is sent again with every further register before the next report, so a click that
  follows it may double it; Control stays down when the middle button is pressed during a right
  click (`mixed`; both `MouseParser`);
* a blink asked for while the queue is full is dropped (blink.cpp:37; the queue deletes its event),
  and core 0 can spoil the first flash of a blink and one more phase, so that a user who counts
  the divisor may count up to two flashes too few (`spoiled` of `StatusLed`);
* an overrun just when the log's positions wrap drops every character printed so far, and the
  pieces of two cores' messages interleave (`LogCache`);
* flashsettings.h says that settings are saved from core 0; `save` and `clear` run on core 1.

### Bounds

The bounds are `MaxKeys` and `HostOps` (`AdbDevice`), `MaxRequests` (`KbdLeds`),
`Reports`, `MaxReports`, `TextLength` (`KbdParser`), `Reports`, `MaxReports`, `MaxMoves`
(`MouseParser`), `MaxText`, `MaxChars` (`LogCache`), `NumBits`, `MaxMissed` (`Collision`), and
the sizes of the sets. Three reports suffice for a press, a combination or change of mode,
and a release; the MC modules choose reports that hold every kind of key or button, alone
and together. One movement suffices because each movement's fate depends only on what the
cores do around its own addition (and is proved for any number). In `StartPrint` the reader
is never a whole range of the positions, 4 GB in the code, behind. One data bit stands for
sixteen since a collision in the data changes nothing but its timing. None of the bounds
restricts the order of events: the host sends commands without limit, cores and power fail
at any step. `HostOps` splits the commands over two runs because service requests and
addresses do not interact with the order of the key queue. `KbdLeds.cfg` and its variant turn
off deadlock checking because their requests are bounded, so the LEDs come to rest; in every
other run something is always possible.

### Fairness

* `SCQueue`: a core inside a method runs on (`WF(Inside(c))`); nothing in a method
  blocks. Nothing is assumed of a core that waits for the mutex.
* `AdbPolling`: core 0 runs its loop (weak fairness of each pass), and the host's
  other traffic does not keep it from polling for ever (strong fairness of `Poll`),
  as Apple's ADB manager polls periodically. The two properties assume that the host does
  not reset the bus for ever (`ResetsEnd`), since a reset clears the service requests.
  Nothing is assumed of the USB side: core 1 may move the mouse for ever or do nothing.
* `KeyEventPath`: a packing that has begun goes on, an event being queued is queued,
  core 1's loop comes back to its reset flag (strong fairness: the flag is tested
  once per pass, between USB tasks), and the drain loop runs.
* `KbdParser`: core 1 runs on inside `Parse`, and the Macintosh takes events. No
  report and no reset is assumed.
* `MouseParser`: core 1 runs on inside `Parse`, core 0 runs its loop and the Macintosh
  polls the mouse; it also takes the keyboard's register (strong fairness of
  `TakeKey`: the loop passes it once per command, between mouse registers).
* `KbdLeds`: core 1 keeps calling `ChangeUSBKeyboardLEDs`, and between the calls TinyUSB gets on
  with the report of a keyboard that stays plugged in (strong fairness of `UsbStack`: it
  cannot run inside a call). Nothing is assumed of core 0.
* `StatusLed`: a write that has begun ends; `poll` gets its turn between USB tasks and core 0
  gets on although saves park it (strong fairness of `PollLed` and `Core0Led`).
* `LogCache`: a core inside `log_raw` goes on; the mutex is granted in the end, and core 1 polls
  and the serial port takes characters again and again (strong fairness of `Enter`,
  `GetBuffer`, `SendChar`).
* `Collision`: the devices' code and time go on; the host moves who answered, in the end
  with a command everybody hears (`Listen3({})`); and `rand()` does not give the devices at
  one address the same delay for ever (strong fairness of `UntiedTalk3`).

## 4. Properties

Safety: `MutexInv`, `FifoOwnership` (SCQueue); `KeyAccounting`, `KeysInOrder`,
`FlushDrainsQueue`, `MouseSrqHasData`, `SrqOnlyForOthers`, `SkippedMoveIgnored`
(AdbDevice); `Ownership`, `PathInv` (KeyEventPath); `OneReportAtATime`,
`ScanServes` (KbdLeds); `DivisorNonZero`, `BootKeepsPromise` (FlashSettings);
`BlinkShows`, `FlashesSeen` (StatusLed); `HostFollowsReports`, `CapsFollowsLed`, `TextInv`
(KbdParser); `MovementInv`, `ButtonsReleased`, `RightClickWhole` (MouseParser);
`PositionInStep`, `StreamIntact`, `DropsOnlyOverrun` (LogCache); `SomeoneAnswers`,
`OnlyTiedAnswer`, `MoveTogetherOnlyTied` (Collision). Refinement: `ImplementsFifo`.
Liveness: `MutexReleased`, `EveryKeyReported`, `MouseReported`, `ResetEnds`,
`RequestServed`, `TextEnds`, `ParseEnds`, `LedStaysOff`, `LogEmptied`, `Separated`.

Some of them hold for a reason that is not written in the code:

* `ScanServes`: a report waits in flight while later calls refill the one static buffer it is
  sent from, and a flag raised just before line 335 is lost. Neither harms a keyboard whose LEDs
  were read after the last store: each later call reads the same LEDs again.
* `FlushDrainsQueue`: core 1 clears `usb_kbd_reset` after its drain, so a flush
  that arrives during the drain loses its flag. It does no harm because core 1 is
  also the only producer: nothing can be queued until the drain is over.
* `PathInv`: `isEmpty`, `peek`, `dequeue` are separate calls, but core 0 is
  the only consumer unless a `Reset` overlaps.
* `HostFollowsReports`: the early return of a key combination leaves `prevState` as it was,
  and one `prevState` serves all keyboards, but every report is compared with what was
  last turned into events, so no key stays down. The price is that a key held on one
  keyboard is released by a report of another.
* `ButtonsReleased`: the first of the two clicks of a left press has an indeterminate right
  button, but the second one corrects it.
* `DivisorNonZero`: `init` does not validate what it loads and `clear` writes zeros.
  Zeros carry no valid magic number, and whichever bytes an interrupted write leaves,
  a valid magic number goes with a divisor that was saved or with an erased byte.
* `BlinkShows`: core 0 drives the LED at most once after its test of `blinking`, so one phase
  of a blink is spoiled at the most besides the first flash, and the next one puts it right.
* `StreamIntact`: the ring is read without the mutex, but a slot differs from what
  `log_get_buffer` saw only if it was printed over since.
* `MoveTogetherOnlyTied`: of two devices that answer Talk register 3 one sees the other's
  first edge, unless both begin within one tick; the data bits are no help.

## 5. What is proved

All theorems are for every value of the constants that satisfies the named
assumptions (capacities positive, `NULL` no item, distinct default addresses and so on).

* **`BoundedFifoProofs`**: `TypeCorrect`, `OwnershipTheorem`. `TypeOK /\ Ownership` is
  inductive: distinct queued and held items are what make a delete safe.
* **`SCQueueProofs`**: `MutualExclusion`, `IndicesConsistent`, `Refinement`,
  `OwnershipTransfers`. The inductive invariant is `TypeOK /\ MutexInv /\ IndexInv`.
  `MutexInv` is needed so that a step of one core leaves the other's local
  conditions (`InsideInv`) alone; `IndexInv` says that an empty ring has equal
  indices, which `enqueue` relies on, and that a fetch reads the slot `first_`
  just left. For the refinement `Contents` reads the ring from `first_`;
  `StoreAppends` and `DequeueTakesHead` do the index arithmetic across the wrap,
  and each action is one abstract call or a stutter. A dequeue takes effect where
  `first_` moves (or where the last item is read); an enqueue at its store, or at its
  test if the ring is full. `OwnershipTransfers` carries the abstract theorem
  over the mapping.
* **`KeyEventPathProofs`**: `PathIsFifo` (the packing and the parser use the queue as
  `BoundedFifo` allows), which carries `Ownership` over (`PathOwnership`), and
  `PathInvTheorem`. Its invariant adds where core 0 may hold an event (`PlaceInv`),
  that as long as no reset overlaps a queue core 0 found nonempty stays so and the event
  it looked at stays its head (`KnownInv`), and that the second place is empty until it is
  packed (`EmptyPlaces`).
* **`AdbDeviceProofs`**: `TypeCorrect`, `KeyAccountingTheorem`, `KeyOrderTheorem`,
  `FlushTheorem`, `MouseSrqTheorem`, `SrqTheorem`, `SkippedMoveTheorem`, for any host.
  `RoomForSecond` strengthens the types; `OrderInv` adds to the two key properties
  that the queue is increasing (so its head is the oldest key and occurs once),
  that earlier keys are born earlier, and that packing starts only on an empty
  register; `FlushInv` adds that core 1 leaves its drain with an empty queue.
  `PollingImplementsDevices` shows that `AdbPolling` implements `AdbDevice`, if the host sends
  what it polls with (`PollAssumption`); `PollingKeepsPromises` carries the properties over.
* **`PlatformProofs`**, the log: `PositionTheorem`, `StreamTheorem`, `DropsTheorem`, for any ring,
  skip and width with `LogAssumption` (the width is a multiple of the ring's size, as 2^32 is of
  the code's). `LogInv` says that the positions are the counts of characters, wrapped (`CountsInv`),
  that slot `n % LOGBUFSIZE` holds character `n` unless it has been overwritten (`RingInv`; the
  character in the terminator's slot is given up, which is why the ring holds one less), and that
  what is being sent is still in place or was printed over since (`SendInv`). `ModUnique`, `ModAdd`,
  `ModMod` are the arithmetic of the wrap.
* **`PlatformProofs`**, settings and LED: `TypeCorrect`, `DivisorTheorem`, `PromiseTheorem`: a page
  with a valid magic number has a nonzero divisor, in flash, torn, in the buffer and in RAM.
  `LedImplementsSettings` shows step by step that `StatusLed` implements `FlashSettings` (each step
  is one of its steps or a stutter), so the theorems hold while both cores drive the LED and ask for
  blinks (`LedKeepsSettings`). `BlinkShowsTheorem` and `FlashesSeenTheorem` rest on `LedInv`:
  `CountInv` says when the counter of `poll` ends a blink; `SpoilInv` that a test of `blinking`
  made before a blink can spoil only one phase after the first flash; `ShowInv` that the LED is as
  the phase wants it unless the phase is spoiled; `LostInv` that core 0 drove the LED in every
  flash, or the darkness after it, that one could not see.
* **`KeyboardProofs`**, the parser: `HostFollowsTheorem`, `CapsTheorem`, `TextTheorem`, for any keys,
  reports, sizes and texts. `ParserInv` adds to the properties, which speak of core 1 between two
  reports, what holds inside one. `TodoInv` says which calls are still to be made and that
  every Caps Lock press is paired with its `HandleLockingKeys`. `FollowInv` takes the queued events
  and those calls as one sequence (`Outlook`): the keys it leaves down are those of the report being
  parsed, before each of its calls. `CapsInv` is one call behind the LED, `UnmodifiedInv` says that
  the modifiers forced up stay up while a text is typed, and `RegisterInv` that register 2 is about
  the report being parsed and that the original keyboard's codes have no right Shift.
  The lemmas `After*` say what a call more or less makes of the keys; `FlattenIn` and `FlattenHas`
  say that the calls of a report are those of its parts and nothing else.
* **`KeyboardProofs`**, the LEDs: `OneReportTheorem`, `ScanServesTheorem`, for any number of keyboards,
  slots and requests. `ServedInv` says of the slots a scan has passed (`Passed`) what `ScanServes` says
  of a finished one; `BufferInv` that the buffer holds the LEDs asked for from the first slot read
  after the last store on, so that what is in flight will show them although the buffer is
  refilled; `WalkInv` that a scan under way has its flag up. A store by either core
  takes all of it back (`StoreKeeps`), in the middle of a call too.
* **`MouseParserProofs`**: `MovementTheorem`. `ReportInv` says that a movement is reported
  before it is counted and that the counters are clear before `m_processed` is;
  `RegisterInv` that once core 0 has read the counters it has everything not sent yet;
  `AnnounceInv` follows the announcement from `m_ready` into core 0's locals.
  `ButtonsReleasedTheorem` and `RightClickTheorem` rest on `ClickInv`, which lists the calls a
  report has yet to make, each with what the two queues may hold then: while a right click is
  pressed (`PressStage`), while it is released (`ReleaseStage`), or in any other report
  (`PlainStage`). It needs `CtrlInv`, that Control is down for every right click core 0 has or will have.
* **`CollisionProofs`**: `OnlyTiedTheorem`, `MoveTogetherTheorem`, `SomeoneAnswersTheorem`.
  `WhoBegan` says that once a device has begun, whoever still waits has seen it and whoever is about
  to begin does so in the same tick; `DoneOrSkips` that a device that was asked has answered or
  ignores the move. `WinnerInv` says that until a device is past its start bit, the first to begin
  has seen nobody, which needs that in the tick of the first everybody who has begun still pulls the
  bus low (`TickInv`).

Only model-checked: the liveness properties `MutexReleased`, `EveryKeyReported`, `MouseReported`,
`ResetEnds`, `RequestServed`, `TextEnds`, `ParseEnds`, `LedStaysOff`, `LogEmptied` and `Separated`
(fairness and ENABLED are outside the prover), and the two counterexamples. Every safety property and every action property of the runs has a theorem.

The library's induction theorems cannot be used, as they take an operator. Where a proof about sequences
needs induction, it takes the least counterexample from a set of numbers instead (`Least`); and the
modules have no recursive definitions that the proofs would have to unfold: `After` says of a
sequence of events directly, by its last event about a code, what folding them one by one would give.

## 6. Not modelled

* The decoding of received bits and the GPIO: microsecond busy waits; only their
  results are visible to the models.
* Of the parsers: the scaling of movements by the sensitivity divisor and the limits of
  register 0 (the source stores the quotient of the slow movements in an `int8_t` before it
  limits it, platformmouseparser.cpp:46), the waits of 100 and 200 ms, the other modifiers and the other flags of
  register 2, unplugging while keys are held, and a keyboard's left Control used together
  with the mouse's.
* Of the log: `log_raw(bytearray)` and the `logmsg` templates, which only call `log_raw`, and
  the look of numbers.
* `KeyEvent` and `MouseReport` of `AdbDevice` stand for what the parsers do to the queues, and
  its liveness assumes that the parsers return, which `TextEnds` and `ParseEnds` show for
  a host that polls.
* What happens before `setup()` is over, when core 1 already runs: the log's mutex and the
  settings may be used before they are initialised.
* Key codes that a key has alone (constant data); `kbdskip`, which has no writer in this build.
* The ADBuino (AVR) target: it shares `adb.cpp`, but its own files do not match the
  shared headers at this commit. `adbmon` is a stand-alone bus monitor, pure output.

## 7. Plan

What would come next, in order of importance:

1. A composition of parser, queue and devices, to replace `KeyEvent`, and a refinement
   of `AdbDevice`'s packing by `KeyEventPath`'s.
2. Proofs of the bounds the busy waits rest on: what core 1 waits for can only get closer.
3. `MouseScaling`: `AdjustMovement` and the fine counters against exact division, with
   their widths.
4. `BusTiming`: decoding of a command from bit results, with its error codes.
