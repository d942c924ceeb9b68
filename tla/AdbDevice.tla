----------------------------- MODULE AdbDevice -----------------------------
(***************************************************************************)
(* The two virtual ADB devices of QuokkADB as the bus sees them: the main  *)
(* loop of core 0 (lib/QuokkADB/src/quokkadb.cpp, loop) around             *)
(* ReceiveCommand, ProcessCommand and Reset (lib/adb/src/adb.cpp), and the *)
(* part of core 1's loop that answers its reset flags (loop1).             *)
(*                                                                         *)
(* The host is free: it sends any command at any time.  Bits and timing    *)
(* are abstracted to the value ReceiveCommand returns.  The USB side is    *)
(* abstracted to key events, numbered in the order they occur, mouse       *)
(* reports and clicks.  Not modelled because nothing reads them:           *)
(* usb_reset, mouse_handler_id (constant); kbdreg2 is data only.           *)
(***************************************************************************)
EXTENDS Naturals, Sequences

CONSTANTS
    Addrs,              \* device addresses, 0 is the host's
    MouseDefault,       \* MOUSE_DEFAULT_ADDR
    KbdDefault,         \* KBD_DEFAULT_ADDR
    KeyCapacity,        \* size of m_keyboard_events
    ClickCapacity,      \* size of m_click_events
    HostOps,            \* bound: the commands this host sends
    MaxKeys             \* bound: key events in a behaviour

ASSUME AddrAssumption ==
    /\ 0 \in Addrs
    /\ MouseDefault \in Addrs \ {0}
    /\ KbdDefault \in Addrs \ {0}
    /\ MouseDefault # KbdDefault
ASSUME BoundAssumption ==
    /\ KeyCapacity \in Nat \ {0}
    /\ ClickCapacity \in Nat \ {0}
    /\ MaxKeys \in Nat

NoCommand == [op |-> "none", addr |-> 0]

VARIABLES
    pc0,            \* where core 0 is in loop()
    cmd,            \* the value ReceiveCommand returned
    srq,            \* ReceiveCommand held the bus low after the command
    mousepending, mousesrq, mouse_addr, mouse_skip, mouse_flush,
    kbdpending, kbdsrq, kbd_addr, kbd_skip, kbd_flush, kbd_handler_id,
    kbdreg0,        \* the keys packed in register 0
    adb_reset, g_global_reset,
    pc1,            \* where core 1 is in loop1()
    usb_mouse_reset, usb_kbd_reset,
    m_ready,        \* MouseRptParser::m_ready
    clicks,         \* number of events in m_click_events
    keyq,           \* m_keyboard_events
    fate,           \* fate[k]: what became of key event k (history)
    beforeFlush     \* the keys that preceded the last flush (history)

mouseVars == <<mousepending, mousesrq, mouse_addr, mouse_skip, mouse_flush, clicks>>
kbdVars == <<kbdpending, kbdsrq, kbd_addr, kbd_skip, kbd_flush, kbd_handler_id,
             kbdreg0, fate, beforeFlush>>
resetVars == <<adb_reset, g_global_reset>>
usbVars == <<pc1, usb_mouse_reset, usb_kbd_reset, m_ready>>
vars == <<pc0, cmd, srq, mouseVars, kbdVars, resetVars, usbVars, keyq>>

Keys == 1..MaxKeys
Fates == {"unborn", "queued", "packed", "sent", "skipped", "lost"}
KeysWith(f) == {k \in Keys : fate[k] = f}
Born == Keys \ KeysWith("unborn")

\* What ReceiveCommand can return.  "idle": no attention (-1); "garbled": a
\* malformed command (-1, -4); "global": a low of 3 ms (-100).
NoAddrOps == {"idle", "garbled", "global"}
AddrOps == {"SendReset", "Flush", "Listen2", "Listen3", "Talk0", "Talk3", "Other"}
Commands == [op : NoAddrOps \cap HostOps, addr : {0}] \cup [op : AddrOps \cap HostOps, addr : Addrs]

\* What Receive16bitRegister can return for register 3: the new address and
\* the handler field.
Handlers == {"default", "extended", "change", "selftest", "unknown"}
ListenError == [ok |-> FALSE, addr |-> 0, handler |-> "unknown"]
ListenResults == [ok : {TRUE}, addr : Addrs, handler : Handlers] \cup {ListenError}

Init ==
    /\ pc0 = "keyboard" /\ cmd = NoCommand /\ srq = FALSE
    /\ mousepending = FALSE /\ mousesrq = FALSE /\ mouse_addr = MouseDefault
    /\ mouse_skip = FALSE /\ mouse_flush = FALSE
    /\ kbdpending = FALSE /\ kbdsrq = FALSE /\ kbd_addr = KbdDefault
    /\ kbd_skip = FALSE /\ kbd_flush = FALSE /\ kbd_handler_id = "default"
    /\ kbdreg0 = <<>>
    /\ adb_reset = FALSE /\ g_global_reset = FALSE
    /\ pc1 = "usb" /\ usb_mouse_reset = FALSE /\ usb_kbd_reset = FALSE
    /\ m_ready = FALSE /\ clicks = 0
    /\ keyq = <<>>
    /\ fate = [k \in Keys |-> "unborn"]
    /\ beforeFlush = {}

\* The keys of s meet fate f.
Become(s, f) == [k \in Keys |-> IF \E i \in 1..Len(s) : s[i] = k THEN f ELSE fate[k]]

-----------------------------------------------------------------------------
(* Core 0: sampling the keyboard and the mouse. *)

\* Faulty variant of TestKeyboard: keys still pending are packed over.
TestKeyboardUnguarded ==
    /\ pc0 = "keyboard"
    /\ pc0' = IF keyq # <<>> THEN "pack1" ELSE "mouse"
    /\ UNCHANGED <<cmd, srq, mouseVars, kbdVars, resetVars, usbVars, keyq>>

\* PendingKeyboardEvent() and the packing are separate calls of the queue:
\* core 1 can add events or drain the queue in between.
TestKeyboard ==
    /\ pc0 = "keyboard"
    /\ pc0' = IF ~kbdpending /\ keyq # <<>> THEN "pack1" ELSE "mouse"
    /\ UNCHANGED <<cmd, srq, mouseVars, kbdVars, resetVars, usbVars, keyq>>

FirstOf(s) == IF s = <<>> THEN <<>> ELSE <<Head(s)>>

Pack(s) ==
    /\ keyq' = IF s = <<>> THEN keyq ELSE Tail(keyq)
    /\ fate' = Become(s, "packed")

\* GetAdbRegister0 packs the head of the queue, or "no key" if core 1 drained
\* it.  (The drain that hits between isEmpty() and dequeue(): KeyEventPath.)
PackFirst ==
    /\ pc0 = "pack1"
    /\ kbdreg0' = FirstOf(keyq)
    /\ Pack(kbdreg0')
    /\ pc0' = "pack2"
    /\ UNCHANGED <<cmd, srq, mouseVars, kbdpending, kbdsrq, kbd_addr, kbd_skip, kbd_flush,
                   kbd_handler_id, beforeFlush, resetVars, usbVars>>

\* Faulty variant of PackSecond: every waiting event is appended, not one.
PackSecondPeeks ==
    /\ pc0 = "pack2"
    /\ kbdreg0' = kbdreg0 \o SubSeq(keyq, 1, Len(keyq))
    /\ kbdpending' = TRUE
    /\ pc0' = "mouse"
    /\ UNCHANGED <<cmd, srq, mouseVars, kbdsrq, kbd_addr, kbd_skip, kbd_flush,
                   kbd_handler_id, beforeFlush, fate, resetVars, usbVars, keyq>>

\* It packs the event behind it too, unless a power key is involved.
PackSecond ==
    /\ pc0 = "pack2"
    /\ \E second \in {<<>>, FirstOf(keyq)} :
          /\ kbdreg0' = kbdreg0 \o second
          /\ Pack(second)
    /\ kbdpending' = TRUE
    /\ pc0' = "mouse"
    /\ UNCHANGED <<cmd, srq, mouseVars, kbdsrq, kbd_addr, kbd_skip, kbd_flush,
                   kbd_handler_id, beforeFlush, resetVars, usbVars>>

\* MouseReady() clears m_ready whatever it answers.
SampleMouse ==
    /\ pc0 = "mouse"
    /\ IF mousepending
       THEN UNCHANGED <<mousepending, m_ready>>
       ELSE /\ mousepending' = (m_ready \/ clicks > 0)
            /\ m_ready' = FALSE
    /\ pc0' = "receive"
    /\ UNCHANGED <<cmd, srq, mousesrq, mouse_addr, mouse_skip, mouse_flush, clicks,
                   kbdVars, resetVars, pc1, usb_mouse_reset, usb_kbd_reset, keyq>>

-----------------------------------------------------------------------------
(* Core 0: ReceiveCommand(mousesrq | kbdsrq). *)

\* Faulty variant of AssertSrq: the keyboard's own address is not excepted.
AssertSrqAtKeyboard(addr) ==
    /\ mousesrq \/ kbdsrq
    /\ ~(mouse_addr = addr /\ mousesrq /\ ~kbdsrq)

\* "Don't SRQ if we are at the correct address".
AssertSrq(addr) ==
    /\ mousesrq \/ kbdsrq
    /\ ~(mouse_addr = addr /\ mousesrq /\ ~kbdsrq)
    /\ ~(kbd_addr = addr /\ kbdsrq /\ ~mousesrq)

\* After a reset the device waits for the bus to go low without a limit, so
\* an idle bus does not end ReceiveCommand.
Receive(c) ==
    /\ pc0 = "receive"
    /\ c.op = "idle" => ~g_global_reset
    /\ g_global_reset' = FALSE
    /\ cmd' = c
    /\ srq' = (c.op \in AddrOps /\ AssertSrq(c.addr))
    /\ pc0' = "process"
    /\ UNCHANGED <<mouseVars, kbdVars, adb_reset, usbVars, keyq>>

-----------------------------------------------------------------------------
(* Core 0: ProcessCommand(cmd), first for the mouse, then for the keyboard. *)

\* Error codes other than a reset.
ProcessError ==
    /\ pc0 = "process"
    /\ cmd.op \in {"idle", "garbled"}
    /\ cmd' = NoCommand /\ srq' = FALSE
    /\ pc0' = "post"
    /\ UNCHANGED <<mouseVars, kbdVars, resetVars, usbVars, keyq>>

\* A 3 ms low, or a command whose low nibble is 0 (at any address).
ProcessReset ==
    /\ pc0 = "process"
    /\ cmd.op \in {"global", "SendReset"}
    /\ adb_reset' = TRUE
    /\ g_global_reset' = TRUE
    /\ cmd' = NoCommand /\ srq' = FALSE
    /\ pc0' = "post"
    /\ UNCHANGED <<mouseVars, kbdVars, usbVars, keyq>>

\* Faulty variant of MouseNotAddressed: pending data raises no request.
MouseNeverAsks == UNCHANGED mouseVars

MouseNotAddressed ==
    /\ mousesrq' = (mousesrq \/ mousepending)
    /\ UNCHANGED <<mousepending, mouse_addr, mouse_skip, mouse_flush, clicks>>

MouseFlush ==
    /\ cmd.op = "Flush"
    /\ mousesrq' = FALSE
    /\ mouse_flush' = TRUE
    /\ UNCHANGED <<mousepending, mouse_addr, mouse_skip, clicks>>

\* Faulty variant of MouseListen3: a collision is forgotten.
MouseListen3Moves(r) ==
    /\ cmd.op = "Listen3"
    /\ mouse_addr' = IF r.ok /\ r.handler = "change" /\ r.addr # 0 THEN r.addr ELSE mouse_addr
    /\ UNCHANGED <<mousepending, mousesrq, mouse_skip, mouse_flush, clicks>>

\* Register 3: only the handler value "change" moves the mouse, and a
\* collision in its last Talk of register 3 makes it ignore one such command.
MouseListen3(r) ==
    /\ cmd.op = "Listen3"
    /\ IF r.ok /\ r.handler = "change"
       THEN /\ mouse_skip' = FALSE
            /\ mouse_addr' = IF mouse_skip \/ r.addr = 0 THEN mouse_addr ELSE r.addr
       ELSE UNCHANGED <<mouse_skip, mouse_addr>>
    /\ UNCHANGED <<mousepending, mousesrq, mouse_flush, clicks>>

\* Faulty variant of MouseTalk0: the service request stays up.
MouseTalk0KeepsSrq ==
    /\ cmd.op = "Talk0"
    /\ mousepending' = FALSE
    /\ clicks' = IF mousepending /\ clicks > 0 THEN clicks - 1 ELSE clicks
    /\ UNCHANGED <<mousesrq, mouse_addr, mouse_skip, mouse_flush>>

\* MousePrs.GetAdbRegister0() takes at most one click.
MouseTalk0 ==
    /\ cmd.op = "Talk0"
    /\ IF mousepending
       THEN /\ clicks' = IF clicks > 0 THEN clicks - 1 ELSE 0
            /\ mousepending' = FALSE
            /\ mousesrq' = FALSE
       ELSE UNCHANGED <<clicks, mousepending, mousesrq>>
    /\ UNCHANGED <<mouse_addr, mouse_skip, mouse_flush>>

\* SendTalkRegister3 may report a collision.
MouseTalk3 ==
    /\ cmd.op = "Talk3"
    /\ \/ mouse_skip' = TRUE
       \/ UNCHANGED mouse_skip
    /\ UNCHANGED <<mousepending, mousesrq, mouse_addr, mouse_flush, clicks>>

MouseOther ==
    /\ cmd.op \in {"Listen2", "Other"}
    /\ UNCHANGED mouseVars

MouseBlock(r) ==
    IF cmd.addr = mouse_addr
    THEN \/ MouseFlush
         \/ MouseListen3(r)
         \/ MouseTalk0
         \/ MouseTalk3
         \/ MouseOther
    ELSE MouseNotAddressed

\* Faulty variant of KbdNotAddressed: pending keys raise no request.
KbdNeverAsks == UNCHANGED kbdVars

KbdNotAddressed ==
    /\ kbdsrq' = (kbdsrq \/ kbdpending)
    /\ UNCHANGED <<kbdpending, kbd_addr, kbd_skip, kbd_flush, kbd_handler_id,
                   kbdreg0, fate, beforeFlush>>

KbdFlush ==
    /\ cmd.op = "Flush"
    /\ kbdsrq' = FALSE
    /\ kbd_flush' = TRUE
    /\ beforeFlush' = Born
    /\ UNCHANGED <<kbdpending, kbd_addr, kbd_skip, kbd_handler_id, kbdreg0, fate>>

KbdListen3(r) ==
    /\ cmd.op = "Listen3"
    /\ IF r.ok /\ r.handler = "change"
       THEN /\ kbd_skip' = FALSE
            /\ kbd_addr' = IF kbd_skip \/ r.addr = 0 THEN kbd_addr ELSE r.addr
       ELSE UNCHANGED <<kbd_skip, kbd_addr>>
    /\ kbd_handler_id' = IF r.ok /\ r.handler \in {"default", "extended"}
                         THEN r.handler ELSE kbd_handler_id
    /\ UNCHANGED <<kbdpending, kbdsrq, kbd_flush, kbdreg0, fate, beforeFlush>>

\* An event sent less than 90 ms after kbskiptimer is forgotten, and the
\* service request it raised is not.  kbskiptimer is 0 and millis() wraps, so
\* that is the case after boot and again every 2^32 ms.
KbdTalk0 ==
    /\ cmd.op = "Talk0"
    /\ IF ~kbdpending THEN UNCHANGED <<kbdpending, kbdsrq, fate>>
       ELSE \E early \in BOOLEAN :
              /\ kbdpending' = FALSE
              /\ kbdsrq' = (early /\ kbdsrq)
              /\ fate' = Become(kbdreg0, IF early THEN "skipped" ELSE "sent")
    /\ UNCHANGED <<kbd_addr, kbd_skip, kbd_flush, kbd_handler_id, kbdreg0, beforeFlush>>

KbdTalk3 ==
    /\ cmd.op = "Talk3"
    /\ \/ kbd_skip' = TRUE
       \/ UNCHANGED kbd_skip
    /\ UNCHANGED <<kbdpending, kbdsrq, kbd_addr, kbd_flush, kbd_handler_id, kbdreg0,
                   fate, beforeFlush>>

KbdOther ==
    /\ cmd.op \in {"Listen2", "Other"}
    /\ UNCHANGED kbdVars

KbdBlock(r) ==
    IF cmd.addr = kbd_addr
    THEN \/ KbdFlush
         \/ KbdListen3(r)
         \/ KbdTalk0
         \/ KbdTalk3
         \/ KbdOther
    ELSE KbdNotAddressed

\* A Listen's data is on the bus once: when both devices are addressed the
\* mouse receives it and the keyboard's receive fails.
ProcessCommand ==
    /\ pc0 = "process"
    /\ cmd.op \in AddrOps \ {"SendReset"}
    /\ \E r \in ListenResults :
          /\ MouseBlock(r)
          /\ KbdBlock(IF cmd.addr = mouse_addr /\ cmd.op = "Listen3" THEN ListenError ELSE r)
    /\ cmd' = NoCommand /\ srq' = FALSE
    /\ pc0' = "post"
    /\ UNCHANGED <<resetVars, usbVars, keyq>>

-----------------------------------------------------------------------------
(* Core 0: the end of loop(): adb.Reset() and the flags for core 1. *)

PostReset ==
    /\ pc0 = "post"
    /\ IF adb_reset
       THEN /\ mousesrq' = FALSE /\ kbdsrq' = FALSE
            /\ mouse_skip' = FALSE /\ kbd_skip' = FALSE
            /\ mouse_addr' = MouseDefault /\ kbd_addr' = KbdDefault
            /\ kbd_handler_id' = "default"
            /\ adb_reset' = FALSE
       ELSE UNCHANGED <<mousesrq, kbdsrq, mouse_skip, kbd_skip, mouse_addr, kbd_addr,
                        kbd_handler_id, adb_reset>>
    /\ pc0' = "flush"
    /\ UNCHANGED <<cmd, srq, mousepending, mouse_flush, clicks, kbdpending, kbd_flush,
                   kbdreg0, fate, beforeFlush, g_global_reset, usbVars, keyq>>

PostFlush ==
    /\ pc0 = "flush"
    /\ usb_mouse_reset' = (usb_mouse_reset \/ mouse_flush)
    /\ usb_kbd_reset' = (usb_kbd_reset \/ kbd_flush)
    /\ mouse_flush' = FALSE
    /\ kbd_flush' = FALSE
    /\ pc0' = "keyboard"
    /\ UNCHANGED <<cmd, srq, mousepending, mousesrq, mouse_addr, mouse_skip, clicks,
                   kbdpending, kbdsrq, kbd_addr, kbd_skip, kbd_handler_id, kbdreg0,
                   fate, beforeFlush, resetVars, pc1, m_ready, keyq>>

-----------------------------------------------------------------------------
(* Core 1: tuh_task() and the reset flags. *)

core0Vars == <<pc0, cmd, srq, mousepending, mousesrq, mouse_addr, mouse_skip,
               mouse_flush, kbdpending, kbdsrq, kbd_addr, kbd_skip, kbd_flush,
               kbd_handler_id, kbdreg0, beforeFlush, resetVars>>

\* A key event is queued; a full queue drops it.
KeyEvent ==
    /\ pc1 = "usb"
    /\ \E k \in KeysWith("unborn") :
          /\ \A j \in Keys : j < k => j \in Born
          /\ IF Len(keyq) < KeyCapacity
             THEN /\ keyq' = Append(keyq, k)
                  /\ fate' = [fate EXCEPT ![k] = "queued"]
             ELSE /\ fate' = [fate EXCEPT ![k] = "lost"]
                  /\ UNCHANGED keyq
    /\ UNCHANGED <<core0Vars, usbVars, clicks>>

MouseReport ==
    /\ pc1 = "usb"
    /\ m_ready' = TRUE
    /\ clicks' \in {clicks, IF clicks < ClickCapacity THEN clicks + 1 ELSE clicks}
    /\ UNCHANGED <<core0Vars, pc1, usb_mouse_reset, usb_kbd_reset, fate, keyq>>

UsbTaskDone ==
    /\ pc1 = "usb"
    /\ pc1' = "adbReset"
    /\ UNCHANGED <<core0Vars, usb_mouse_reset, usb_kbd_reset, m_ready, clicks,
                   fate, keyq>>

\* MousePrs.Reset() drops the queued clicks.
AdbResetSeen ==
    /\ pc1 = "adbReset"
    /\ clicks' = IF adb_reset THEN 0 ELSE clicks
    /\ pc1' = "mouseReset"
    /\ UNCHANGED <<core0Vars, usb_mouse_reset, usb_kbd_reset, m_ready, fate, keyq>>

MouseReset ==
    /\ pc1 = "mouseReset"
    /\ IF usb_mouse_reset THEN clicks' = 0 /\ pc1' = "mouseClear"
                          ELSE UNCHANGED clicks /\ pc1' = "kbdReset"
    /\ UNCHANGED <<core0Vars, usb_mouse_reset, usb_kbd_reset, m_ready, fate, keyq>>

MouseClear ==
    /\ pc1 = "mouseClear"
    /\ usb_mouse_reset' = FALSE
    /\ pc1' = "kbdReset"
    /\ UNCHANGED <<core0Vars, usb_kbd_reset, m_ready, clicks, fate, keyq>>

\* KeyboardPrs.Reset() starts.
KbdReset ==
    /\ pc1 = "kbdReset"
    /\ pc1' = IF usb_kbd_reset THEN "kbdDrain" ELSE "usb"
    /\ UNCHANGED <<core0Vars, usb_mouse_reset, usb_kbd_reset, m_ready, clicks,
                   fate, keyq>>

\* Faulty variant of KbdDrain: one event is taken for the whole queue.
KbdDrainOne ==
    /\ pc1 = "kbdDrain"
    /\ IF keyq # <<>>
       THEN /\ fate' = [fate EXCEPT ![Head(keyq)] = "lost"]
            /\ keyq' = Tail(keyq)
       ELSE UNCHANGED <<fate, keyq>>
    /\ pc1' = "kbdClear"
    /\ UNCHANGED <<core0Vars, usb_mouse_reset, usb_kbd_reset, m_ready, clicks>>

\* One event dequeued and deleted at a time; then the LEDs (module KbdLeds).
KbdDrain ==
    /\ pc1 = "kbdDrain"
    /\ IF keyq # <<>>
       THEN /\ fate' = [fate EXCEPT ![Head(keyq)] = "lost"]
            /\ keyq' = Tail(keyq)
            /\ UNCHANGED <<pc1>>
       ELSE /\ pc1' = "kbdClear"
            /\ UNCHANGED <<fate, keyq>>
    /\ UNCHANGED <<core0Vars, usb_mouse_reset, usb_kbd_reset, m_ready, clicks>>

KbdClear ==
    /\ pc1 = "kbdClear"
    /\ usb_kbd_reset' = FALSE
    /\ pc1' = "usb"
    /\ UNCHANGED <<core0Vars, usb_mouse_reset, m_ready, clicks, fate, keyq>>

-----------------------------------------------------------------------------
Core0 ==
    \/ TestKeyboard
    \/ PackFirst
    \/ PackSecond
    \/ SampleMouse
    \/ ProcessError
    \/ ProcessReset
    \/ ProcessCommand
    \/ PostReset
    \/ PostFlush

Core1 ==
    \/ UsbTaskDone
    \/ AdbResetSeen
    \/ MouseReset
    \/ MouseClear
    \/ KbdReset
    \/ KbdDrain
    \/ KbdClear

Next ==
    \/ Core0
    \/ \E c \in Commands : Receive(c)
    \/ Core1
    \/ KeyEvent
    \/ MouseReport

Spec == Init /\ [][Next]_vars

-----------------------------------------------------------------------------
LoopTypes ==
    /\ pc0 \in {"keyboard", "pack1", "pack2", "mouse", "receive", "process", "post", "flush"}
    /\ cmd \in Commands \cup {NoCommand}
    /\ srq \in BOOLEAN /\ adb_reset \in BOOLEAN /\ g_global_reset \in BOOLEAN

MouseTypes ==
    /\ mousepending \in BOOLEAN /\ mousesrq \in BOOLEAN
    /\ mouse_skip \in BOOLEAN /\ mouse_flush \in BOOLEAN
    /\ mouse_addr \in Addrs \ {0}
    /\ clicks \in 0..ClickCapacity

KbdTypes ==
    /\ kbdpending \in BOOLEAN /\ kbdsrq \in BOOLEAN
    /\ kbd_skip \in BOOLEAN /\ kbd_flush \in BOOLEAN
    /\ kbd_addr \in Addrs \ {0}
    /\ kbd_handler_id \in {"default", "extended"}
    /\ kbdreg0 \in Seq(Keys) /\ Len(kbdreg0) <= 2
    /\ fate \in [Keys -> Fates]
    /\ beforeFlush \subseteq Keys

UsbTypes ==
    /\ pc1 \in {"usb", "adbReset", "mouseReset", "mouseClear", "kbdReset", "kbdDrain",
                "kbdClear"}
    /\ usb_mouse_reset \in BOOLEAN /\ usb_kbd_reset \in BOOLEAN /\ m_ready \in BOOLEAN
    /\ keyq \in Seq(Keys) /\ Len(keyq) <= KeyCapacity

TypeOK == LoopTypes /\ MouseTypes /\ KbdTypes /\ UsbTypes

KeysIn(s) == {s[i] : i \in 1..Len(s)}

\* Every key event is in exactly one place: the queue, register 0 while it is
\* pending, or gone; none is overwritten in register 0 before it was sent.
KeyAccounting ==
    /\ KeysWith("queued") = KeysIn(keyq)
    /\ KeysWith("packed") = IF kbdpending \/ pc0 = "pack2" THEN KeysIn(kbdreg0) ELSE {}

\* The host sees the key events in the order they happened: a key leaves the
\* queue only behind the earlier ones, and is sent only when no earlier one
\* still waits in register 0.
KeysInOrder ==
    \A j, k \in Keys : j < k =>
        /\ fate[k] \in {"packed", "sent", "skipped"} => fate[j] \notin {"unborn", "queued"}
        /\ fate[k] = "sent" => fate[j] # "packed"

\* Core 1 clears usb_kbd_reset after its drain, so a flush that arrives during
\* the drain can lose its flag: no key from before the flush survives in the
\* queue all the same, because core 1 is also the only producer.
FlushDrainsQueue ==
    (/\ ~kbd_flush /\ ~usb_kbd_reset
     /\ pc1 \notin {"kbdDrain", "kbdClear"})
    => KeysIn(keyq) \cap beforeFlush = {}

\* The service request flag of the mouse is never left behind without data.
MouseSrqHasData == mousesrq => mousepending

\* "Don't SRQ if we are at the correct address": the bus is held low after a
\* command only on behalf of a device the command does not address.
SrqOnlyForOthers ==
    srq /\ mouse_addr # kbd_addr =>
        \/ mousesrq /\ cmd.addr # mouse_addr
        \/ kbdsrq /\ cmd.addr # kbd_addr

\* A device whose Talk of register 3 collided does not follow the next change
\* of address; while it has to skip one, only a reset moves it.
SkippedMoveIgnored ==
    [][ /\ mouse_skip /\ mouse_addr' # mouse_addr => adb_reset
        /\ kbd_skip /\ kbd_addr' # kbd_addr => adb_reset ]_vars
=============================================================================
