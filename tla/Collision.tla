------------------------------ MODULE Collision ------------------------------
(***************************************************************************)
(* How devices that share an address are told apart.  The host sends Talk  *)
(* register 3; every device at the address waits a random time and sends,  *)
(* unless it sees the bus go low while its own output is high              *)
(* (lib/adb/include/adb.h, SendTalkRegister3; the interrupt of             *)
(* lib/QuokkADB/src/adb_platform.cpp).  One that gave way ignores the      *)
(* host's next change of address (adb.cpp, mouse_ and                      *)
(* kbd_skip_next_listen_reg3), so that only the others move.               *)
(*                                                                         *)
(* All devices run this code, each in its own adapter.  Time goes in ticks *)
(* of about 33 us; what devices do within one tick interleaves.            *)
(***************************************************************************)
EXTENDS Naturals, FiniteSets

CONSTANTS
    Devices,
    Addrs,          \* device addresses
    SharedAddr,     \* the address the devices have after a reset
    MaxDelay,       \* the random part of the delay, 80 us, in ticks
    Short, Long,    \* 35 us and 65 us in ticks
    NumBits,        \* bound: data bits sent, 16 in the code
    MaxMissed       \* bound: commands lost on the way to a device

ASSUME CollisionAssumption ==
    /\ SharedAddr \in Addrs /\ Addrs \subseteq 1..15
    /\ MaxDelay \in Nat /\ NumBits \in Nat /\ MaxMissed \in Nat
    /\ Short \in Nat \ {0} /\ Long \in Nat /\ Short < Long

VARIABLES
    addr, skip,         \* per device: its address; skip_next_listen_reg3
    pc, timer,          \* where it is in SendTalkRegister3; ticks it has to wait
    bits, bit,          \* data bits to go; the one being sent
    adb_collision,
    answered,           \* the devices whose last Talk register 3 was sent
    asked,              \* the address the host waits for, 0 between its commands
    tied,               \* devices that began in the tick of the first (history)
    sameTick,           \* that tick is not over (history)
    missed              \* lost commands so far

sendVars == <<pc, timer, bits, bit, adb_collision>>
busVars == <<addr, skip, answered, asked, missed>>
vars == <<sendVars, busVars, tied, sameTick>>

LowPhases == {"startLow", "low", "stop"}

\* Faulty variant of Detecting: DetectCollision() after the delay.
DetectingLate(d) == pc[d] \notin {"idle", "delay", "stopGo", "stop"}

Detecting(d) == pc[d] \notin {"idle", "stopGo", "stop"}
OutLow(d) == pc[d] \in LowPhases
Idle == \A d \in Devices : pc[d] = "idle"

-----------------------------------------------------------------------------
(* The bus: a device that pulls it low interrupts the others. *)

\* adb_in_irq_callback.
Interrupted(d, e) == e # d /\ Detecting(e) /\ ~OutLow(e)

\* A falling edge needs a bus that was high.  A device that is about to pull
\* the bus low itself may do it at the very same time and see no edge.
PullLow(d) ==
    LET high == \A e \in Devices \ {d} : ~OutLow(e)
        seen == {e \in Devices : high /\ Interrupted(d, e)}
        inStep == {e \in seen : pc[e] \in {"startGo", "bitGo"}}
    IN  \E unseen \in SUBSET inStep :
          adb_collision' = [e \in Devices |->
              adb_collision[e] \/ e \in seen \ unseen]

\* A step of d that leaves the bus high.
Quiet == UNCHANGED adb_collision

\* Faulty variant of ResetCollision: the flag stays set.
ResetCollisionKeeps(d) == UNCHANGED adb_collision

ResetCollision(d) == adb_collision' = [adb_collision EXCEPT ![d] = FALSE]

GoTo(d, label, ticks) ==
    /\ pc' = [pc EXCEPT ![d] = label]
    /\ timer' = [timer EXCEPT ![d] = ticks]

-----------------------------------------------------------------------------
(* SendTalkRegister3 *)

\* Faulty variant of GiveWay: ProcessCommand does not learn of it.
GiveWayForgets(d) ==
    /\ pc[d] \in {"delay", "startHigh"} /\ adb_collision[d]
    /\ GoTo(d, "idle", 0)
    /\ ResetCollision(d)
    /\ UNCHANGED <<busVars, bits, bit, tied, sameTick>>

\* The collision ends the delay or the start bit, and ProcessCommand sets the
\* skip flag.
GiveWay(d) ==
    /\ pc[d] \in {"delay", "startHigh"} /\ adb_collision[d]
    /\ GoTo(d, "idle", 0)
    /\ ResetCollision(d)
    /\ skip' = [skip EXCEPT ![d] = TRUE]
    /\ UNCHANGED <<addr, answered, asked, missed, bits, bit, tied, sameTick>>

\* adb_delay_with_detect_us is over: from here on a collision goes unnoticed
\* until the next delay.
DelayOver(d) ==
    /\ pc[d] = "delay" /\ ~adb_collision[d] /\ timer[d] = 0
    /\ GoTo(d, "startGo", 0)
    /\ Quiet
    /\ UNCHANGED <<busVars, bits, bit, tied, sameTick>>

StartLow(d) ==
    /\ pc[d] = "startGo"
    /\ GoTo(d, "startLow", Short)
    /\ PullLow(d)
    /\ IF tied = {} THEN tied' = {d} /\ sameTick' = TRUE
       ELSE /\ tied' = IF sameTick THEN tied \cup {d} ELSE tied
            /\ UNCHANGED sameTick
    /\ UNCHANGED <<busVars, bits, bit>>

StartHigh(d) ==
    /\ pc[d] = "startLow" /\ timer[d] = 0
    /\ GoTo(d, "startHigh", Long)
    /\ Quiet
    /\ UNCHANGED <<busVars, bits, bit, tied, sameTick>>

StartSent(d) ==
    /\ pc[d] = "startHigh" /\ ~adb_collision[d] /\ timer[d] = 0
    /\ GoTo(d, "bitGo", 0)
    /\ Quiet
    /\ UNCHANGED <<busVars, bits, bit, tied, sameTick>>

\* The data is random: the address field and the handler.
BitLow(d) ==
    /\ pc[d] = "bitGo" /\ bits[d] > 0
    /\ \E b \in {0, 1} :
          /\ bit' = [bit EXCEPT ![d] = b]
          /\ GoTo(d, "low", IF b = 1 THEN Short ELSE Long)
    /\ PullLow(d)
    /\ UNCHANGED <<busVars, bits, tied, sameTick>>

BitHigh(d) ==
    /\ pc[d] = "low" /\ timer[d] = 0
    /\ GoTo(d, "high", IF bit[d] = 1 THEN Long ELSE Short)
    /\ Quiet
    /\ UNCHANGED <<busVars, bits, bit, tied, sameTick>>

\* A collision ends the high part of a bit, here and in all later bits, and
\* send_byte_with_detect returns true all the same.
BitSent(d) ==
    /\ pc[d] = "high" /\ (adb_collision[d] \/ timer[d] = 0)
    /\ bits' = [bits EXCEPT ![d] = @ - 1]
    /\ GoTo(d, "bitGo", 0)
    /\ Quiet
    /\ UNCHANGED <<busVars, bit, tied, sameTick>>

EndData(d) ==
    /\ pc[d] = "bitGo" /\ bits[d] = 0
    /\ ResetCollision(d)
    /\ GoTo(d, "stopGo", 0)
    /\ UNCHANGED <<busVars, bits, bit, tied, sameTick>>

StopBit(d) ==
    /\ pc[d] = "stopGo"
    /\ GoTo(d, "stop", Long)
    /\ PullLow(d)
    /\ UNCHANGED <<busVars, bits, bit, tied, sameTick>>

Sent(d) ==
    /\ pc[d] = "stop" /\ timer[d] = 0
    /\ GoTo(d, "idle", 0)
    /\ answered' = answered \cup {d}
    /\ Quiet
    /\ UNCHANGED <<addr, skip, asked, missed, bits, bit, tied, sameTick>>

DeviceStep(d) ==
    \/ GiveWay(d) \/ DelayOver(d) \/ StartLow(d) \/ StartHigh(d) \/ StartSent(d)
    \/ BitLow(d) \/ BitHigh(d) \/ BitSent(d) \/ EndData(d) \/ StopBit(d) \/ Sent(d)

\* Time passes when nobody has anything to do in this tick.
Tick ==
    /\ ~Idle
    /\ \A d \in Devices : pc[d] # "idle" =>
          /\ timer[d] > 0
          /\ ~(pc[d] \in {"delay", "startHigh", "high"} /\ adb_collision[d])
    /\ timer' = [d \in Devices |-> IF timer[d] > 0 THEN timer[d] - 1 ELSE 0]
    /\ sameTick' = FALSE
    /\ UNCHANGED <<busVars, pc, bits, bit, adb_collision, tied>>

-----------------------------------------------------------------------------
(* The host enumerates the bus (not part of the repository). *)

At(a) == {d \in Devices : addr[d] = a}

Free == {a \in Addrs : At(a) = {}}

\* Talk register 3: everybody at the address takes part, DetectCollision().
Talk3(a, delay) ==
    /\ Idle /\ asked = 0 /\ At(a) # {}
    /\ asked' = a
    /\ pc' = [d \in Devices |-> IF d \in At(a) THEN "delay" ELSE "idle"]
    /\ timer' = [d \in Devices |-> IF d \in At(a) THEN delay[d] ELSE 0]
    /\ bits' = [d \in Devices |-> NumBits]
    /\ answered' = {} /\ tied' = {} /\ sameTick' = FALSE
    /\ UNCHANGED <<addr, skip, missed, bit, adb_collision>>

\* Faulty variant of Moves: a collision is forgotten.
MovesAlways(d) == TRUE

Moves(d) == ~skip[d]

\* Listen register 3 with handler 0xFE moves the device that answered to an
\* address where the host knows nobody.  Some devices may miss it.
Listen3(deaf) ==
    /\ Idle /\ asked # 0 /\ answered # {}
    /\ \E b \in Free :
          addr' = [d \in Devices |->
              IF d \in At(asked) \ deaf /\ Moves(d) THEN b ELSE addr[d]]
    /\ skip' = [d \in Devices |-> skip[d] /\ d \notin At(asked) \ deaf]
    /\ asked' = 0
    /\ missed' = missed + Cardinality(deaf)
    /\ UNCHANGED <<sendVars, answered, tied, sameTick>>

\* Nobody answered, or there is no address left to move to.
NoMove ==
    /\ Idle /\ asked # 0 /\ (answered = {} \/ Free = {})
    /\ asked' = 0
    /\ UNCHANGED <<sendVars, addr, skip, answered, missed, tied, sameTick>>

Init ==
    /\ addr = [d \in Devices |-> SharedAddr]
    /\ skip = [d \in Devices |-> FALSE]
    /\ pc = [d \in Devices |-> "idle"] /\ timer = [d \in Devices |-> 0]
    /\ bits = [d \in Devices |-> NumBits] /\ bit = [d \in Devices |-> 0]
    /\ adb_collision = [d \in Devices |-> FALSE]
    /\ answered = {} /\ asked = 0
    /\ tied = {} /\ sameTick = FALSE /\ missed = 0

Delays == [Devices -> 0..MaxDelay]

\* Talk register 3 to devices whose delays all differ.
UntiedTalk3 ==
    \E a \in Addrs, delay \in Delays :
        /\ Cardinality(At(a)) > 1
        /\ \A d, e \in At(a) : d # e => delay[d] # delay[e]
        /\ Talk3(a, delay)

Next ==
    \/ \E d \in Devices : DeviceStep(d)
    \/ Tick
    \/ \E a \in Addrs, delay \in Delays : Talk3(a, delay)
    \/ \E deaf \in SUBSET Devices : missed + Cardinality(deaf) <= MaxMissed /\ Listen3(deaf)
    \/ NoMove

\* The host keeps asking the addresses it finds shared and moves who answers;
\* rand() does not give the devices there the same delay for ever.
Fairness ==
    /\ \A d \in Devices : WF_vars(DeviceStep(d))
    /\ WF_vars(Tick)
    /\ WF_vars(Listen3({})) /\ WF_vars(NoMove)
    /\ SF_vars(UntiedTalk3)

Spec == Init /\ [][Next]_vars /\ Fairness

-----------------------------------------------------------------------------
\* A Talk of register 3 is answered: the devices never all give way to each
\* other.
SomeoneAnswers == Idle /\ asked # 0 => answered # {}

\* Whoever answers began in the tick of the first to begin: a device whose
\* delay was longer by a tick has given way, in its delay or its start bit.
OnlyTiedAnswer == answered \subseteq tied

\* Two devices move together only after they began in the same tick, which
\* neither can detect; otherwise one of them ignores the command.
MoveTogetherOnlyTied ==
    [][\A d, e \in Devices :
         d # e /\ addr'[d] # addr[d] /\ addr'[e] # addr[e] => {d, e} \subseteq tied]_vars

\* The host succeeds in giving every device an address of its own.
Separated == <>[](\A d, e \in Devices : d # e => addr[d] # addr[e])
=============================================================================
