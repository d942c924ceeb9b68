----------------------------- MODULE AdbPolling ----------------------------
(***************************************************************************)
(* The devices of AdbDevice on a bus whose host polls the way Apple's ADB  *)
(* manager does: it sends Talk register 0 to the device that was active    *)
(* last, and a service request makes it turn to another device.  This is   *)
(* the environment the service requests of adb.cpp are written for         *)
(* (lib/adb/src/adb.cpp, ReceiveCommand and ProcessCommand).               *)
(***************************************************************************)
EXTENDS AdbDevice

\* The host does send what it polls with.
ASSUME PollAssumption == "Talk0" \in HostOps

VARIABLE active     \* the device the host polls

Devices == {"mouse", "keyboard"}

pollVars == <<vars, active>>

PollInit == Init /\ active \in Devices

\* The host keeps track of the addresses it gave.
ActiveAddr == IF active = "mouse" THEN mouse_addr ELSE kbd_addr

\* The host turns to the other device when the bus was held low.
Poll ==
    /\ Receive([op |-> "Talk0", addr |-> ActiveAddr])
    /\ active' = IF srq' THEN CHOOSE d \in Devices : d # active ELSE active

\* Between its polls the host sends what it likes: it enumerates the bus with
\* register 3, moves devices, also to one address, talks to others, resets.
OtherTraffic ==
    /\ \E c \in Commands : Receive(c)
    /\ UNCHANGED active

DeviceStep ==
    /\ Core0 \/ Core1 \/ KeyEvent \/ MouseReport
    /\ UNCHANGED active

PollNext == Poll \/ OtherTraffic \/ DeviceStep

\* Core 0 runs its loop for ever, and the host keeps polling: its other
\* traffic never keeps it from a poll for ever.  Nothing is assumed of the USB
\* side, which may move the mouse for ever.
PollSpec ==
    /\ PollInit /\ [][PollNext]_pollVars
    /\ WF_pollVars(Core0 /\ UNCHANGED active)
    /\ SF_pollVars(Poll)

\* A reset clears the service requests: a host that resets the bus between any
\* two polls never hears of the data.
ResetsEnd == <>[]~adb_reset

\* Every queued key event reaches the host (or is skipped by the 90 ms rule),
\* although the host may be polling the mouse, move the devices about and
\* reset them, and the mouse never rests.
EveryKeyReported ==
    ResetsEnd =>
        \A k \in Keys : fate[k] = "queued" ~> fate[k] \in {"sent", "skipped"}

\* Mouse data reaches the host although the host may be polling the keyboard.
MouseReported == ResetsEnd => (mousepending ~> ~mousepending)
=============================================================================
