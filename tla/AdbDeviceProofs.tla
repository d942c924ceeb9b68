-------------------------- MODULE AdbDeviceProofs --------------------------
(***************************************************************************)
(* The two devices on the bus, for any addresses, any host, any capacity   *)
(* of the queues and any number of key events (AdbDevice); and for the     *)
(* host of AdbPolling in particular.                                       *)
(***************************************************************************)
EXTENDS AdbPolling, SequenceTheorems, TLAPS

-----------------------------------------------------------------------------
(* Types.  Register 0 has room for the second key when it is packed. *)

RoomForSecond == pc0 = "pack2" => Len(kbdreg0) <= 1

TInv == TypeOK /\ RoomForSecond

\* The head of the queue as a register: one key or none.
LEMMA FirstOfFacts ==
  ASSUME NEW s \in Seq(Keys)
  PROVE  /\ FirstOf(s) \in Seq(Keys)
         /\ Len(FirstOf(s)) \in Nat /\ Len(FirstOf(s)) <= 1
         /\ s = <<>> => FirstOf(s) = <<>>
         /\ s # <<>> => /\ Len(FirstOf(s)) = 1
                        /\ FirstOf(s)[1] = s[1]
                        /\ FirstOf(s) # <<>>
<1>1. CASE s = <<>>
  BY <1>1 DEF FirstOf
<1>2. CASE s # <<>>
  <2>1. Head(s) \in Keys /\ Head(s) = s[1]
    BY <1>2, HeadTailProperties
  <2> QED
    BY <1>2, <2>1 DEF FirstOf
<1> QED
  BY <1>1, <1>2

LEMMA BecomeType ==
  ASSUME NEW s, NEW f \in Fates, fate \in [Keys -> Fates]
  PROVE  Become(s, f) \in [Keys -> Fates]
  BY DEF Become

\* Taking the head off the queue.
LEMMA PackFacts ==
  ASSUME NEW s \in {<<>>, FirstOf(keyq)}, Pack(s), KbdTypes, UsbTypes
  PROVE  /\ fate' \in [Keys -> Fates]
         /\ keyq' \in Seq(Keys)
         /\ Len(keyq') <= KeyCapacity
         /\ keyq' = keyq \/ (keyq # <<>> /\ keyq' = Tail(keyq))
<1>1. keyq \in Seq(Keys) /\ Len(keyq) <= KeyCapacity
  BY DEF UsbTypes
<1>2. keyq' = keyq \/ (keyq # <<>> /\ keyq' = Tail(keyq))
  BY <1>1, FirstOfFacts DEF Pack
<1>3. keyq' \in Seq(Keys) /\ Len(keyq') <= KeyCapacity
  BY <1>1, <1>2, HeadTailProperties, LenProperties, BoundAssumption
<1>4. fate' \in [Keys -> Fates]
  BY BecomeType DEF Pack, KbdTypes, Fates
<1> QED
  BY <1>2, <1>3, <1>4

LEMMA InitTInv == Init => TInv
<1> SUFFICES ASSUME Init PROVE TInv
  OBVIOUS
<1> USE DEF Init
<1>1. <<>> \in Seq(Keys) /\ Len(<<>>) = 0
  BY EmptySeq
<1>2. LoopTypes
  BY DEF LoopTypes
<1>5. MouseTypes
  <2>1. clicks \in 0..ClickCapacity
    BY BoundAssumption
  <2> QED
    BY <2>1, AddrAssumption DEF MouseTypes
<1>3. KbdTypes
  <2>1. kbdreg0 \in Seq(Keys) /\ Len(kbdreg0) <= 2
    BY <1>1
  <2>2. fate \in [Keys -> Fates] /\ beforeFlush \subseteq Keys
    BY DEF Fates
  <2>3. kbd_addr \in Addrs \ {0} /\ kbd_handler_id \in {"default", "extended"}
    BY AddrAssumption
  <2> QED
    BY <2>1, <2>2, <2>3 DEF KbdTypes
<1>4. UsbTypes /\ RoomForSecond
  <2>1. keyq \in Seq(Keys) /\ Len(keyq) <= KeyCapacity
    BY <1>1, BoundAssumption
  <2>2. RoomForSecond
    BY DEF RoomForSecond
  <2> QED
    BY <2>1, <2>2 DEF UsbTypes
<1> QED
  BY <1>2, <1>3, <1>4, <1>5 DEF TInv, TypeOK

LEMMA ListenAddr ==
  ASSUME NEW r \in ListenResults
  PROVE  r.addr \in Addrs
<1>1. CASE r = ListenError
  BY <1>1, AddrAssumption DEF ListenError
<1>2. CASE r \in [ok : {TRUE}, addr : Addrs, handler : Handlers]
  BY <1>2
<1> QED
  BY <1>1, <1>2 DEF ListenResults

\* What either device does with a command keeps its own variables well typed.
LEMMA MouseBlockType ==
  ASSUME MouseTypes, NEW r \in ListenResults, MouseBlock(r)
  PROVE  MouseTypes'
<1> USE DEF MouseTypes
<1>1. r.addr \in Addrs
  BY ListenAddr
<1>2. CASE MouseNotAddressed
  BY <1>2 DEF MouseNotAddressed
<1>3. CASE MouseFlush
  BY <1>3 DEF MouseFlush
<1>4. CASE MouseListen3(r)
  BY <1>1, <1>4 DEF MouseListen3
<1>5. CASE MouseTalk0
  <2>1. clicks' \in 0..ClickCapacity
    BY <1>5, BoundAssumption DEF MouseTalk0
  <2> QED
    BY <1>5, <2>1 DEF MouseTalk0
<1>6. CASE MouseTalk3
  BY <1>6 DEF MouseTalk3
<1>7. CASE MouseOther
  BY <1>7 DEF MouseOther, mouseVars
<1> QED
  BY <1>2, <1>3, <1>4, <1>5, <1>6, <1>7 DEF MouseBlock

LEMMA KbdBlockType ==
  ASSUME KbdTypes, NEW r \in ListenResults, KbdBlock(r)
  PROVE  KbdTypes'
<1> USE DEF KbdTypes
<1>1. r.addr \in Addrs
  BY ListenAddr
<1>2. CASE KbdNotAddressed
  BY <1>2 DEF KbdNotAddressed
<1>3. CASE KbdFlush
  BY <1>3 DEF KbdFlush, Born
<1>4. CASE KbdListen3(r)
  BY <1>1, <1>4 DEF KbdListen3
<1>5. CASE KbdTalk0
  <2>1. fate' \in [Keys -> Fates]
    BY <1>5, BecomeType DEF KbdTalk0, Fates
  <2> QED
    BY <1>5, <2>1 DEF KbdTalk0
<1>6. CASE KbdTalk3
  BY <1>6 DEF KbdTalk3
<1>7. CASE KbdOther
  BY <1>7 DEF KbdOther, kbdVars
<1> QED
  BY <1>2, <1>3, <1>4, <1>5, <1>6, <1>7 DEF KbdBlock

LEMMA TypeStep == TInv /\ [Next]_vars => TInv'
<1> SUFFICES ASSUME TInv, [Next]_vars PROVE TInv'
  OBVIOUS
<1> USE DEF TInv, TypeOK, RoomForSecond
<1>v. CASE UNCHANGED vars
  BY <1>v DEF vars, mouseVars, kbdVars, resetVars, usbVars,
              LoopTypes, MouseTypes, KbdTypes, UsbTypes
<1>1. CASE TestKeyboard
  BY <1>1 DEF TestKeyboard, mouseVars, kbdVars, resetVars, usbVars,
              LoopTypes, MouseTypes, KbdTypes, UsbTypes
<1>2. CASE PackFirst
  <2>1. kbdreg0' = FirstOf(keyq) /\ Pack(FirstOf(keyq)) /\ pc0' = "pack2"
    BY <1>2 DEF PackFirst
  <2>2. kbdreg0' \in Seq(Keys) /\ Len(kbdreg0') <= 1
    <3>1. keyq \in Seq(Keys)
      BY DEF UsbTypes
    <3> QED
      BY <2>1, <3>1, FirstOfFacts
  <2>3. fate' \in [Keys -> Fates] /\ keyq' \in Seq(Keys) /\ Len(keyq') <= KeyCapacity
    BY <2>1, PackFacts
  <2>4. KbdTypes'
    BY <1>2, <2>2, <2>3 DEF PackFirst, KbdTypes
  <2>5. LoopTypes' /\ MouseTypes' /\ UsbTypes'
    BY <1>2, <2>3
       DEF PackFirst, mouseVars, resetVars, usbVars, LoopTypes, MouseTypes, UsbTypes
  <2> QED
    BY <2>2, <2>4, <2>5
<1>3. CASE PackSecond
  <2>1. PICK second \in {<<>>, FirstOf(keyq)} : /\ kbdreg0' = kbdreg0 \o second
                                                /\ Pack(second)
    BY <1>3 DEF PackSecond
  <2>2. second \in Seq(Keys) /\ Len(second) <= 1
    BY <2>1, FirstOfFacts, EmptySeq DEF UsbTypes
  <2>3. kbdreg0' \in Seq(Keys) /\ Len(kbdreg0') <= 2
    <3>1. kbdreg0 \in Seq(Keys) /\ Len(kbdreg0) <= 1
      BY <1>3 DEF PackSecond, KbdTypes
    <3> QED
      BY <2>1, <2>2, <3>1, ConcatProperties, LenProperties
  <2>4. fate' \in [Keys -> Fates] /\ keyq' \in Seq(Keys) /\ Len(keyq') <= KeyCapacity
    BY <2>1, PackFacts
  <2>5. KbdTypes'
    BY <1>3, <2>3, <2>4 DEF PackSecond, KbdTypes
  <2>6. LoopTypes' /\ MouseTypes' /\ UsbTypes'
    BY <1>3, <2>4
       DEF PackSecond, mouseVars, resetVars, usbVars, LoopTypes, MouseTypes, UsbTypes
  <2> QED
    BY <1>3, <2>5, <2>6 DEF PackSecond
<1>4. CASE SampleMouse
  <2>1. MouseTypes'
    <3>1. (m_ready \/ clicks > 0) \in BOOLEAN
      OBVIOUS
    <3>2. mousepending' \in BOOLEAN
      BY <1>4, <3>1 DEF SampleMouse, MouseTypes
    <3> QED
      BY <1>4, <3>2 DEF SampleMouse, MouseTypes
  <2>2. LoopTypes' /\ UsbTypes'
    BY <1>4 DEF SampleMouse, resetVars, LoopTypes, UsbTypes
  <2>3. KbdTypes'
    BY <1>4 DEF SampleMouse, kbdVars, KbdTypes
  <2> QED
    BY <1>4, <2>1, <2>2, <2>3 DEF SampleMouse
<1>5. ASSUME NEW c \in Commands, Receive(c) PROVE TInv'
  <2>1. LoopTypes'
    <3>1. srq' \in BOOLEAN
      BY <1>5 DEF Receive
    <3> QED
      BY <1>5, <3>1 DEF Receive, LoopTypes
  <2>2. MouseTypes'
    BY <1>5 DEF Receive, mouseVars, MouseTypes
  <2>3. KbdTypes'
    BY <1>5 DEF Receive, kbdVars, KbdTypes
  <2>4. UsbTypes'
    BY <1>5 DEF Receive, usbVars, UsbTypes
  <2> QED
    BY <1>5, <2>1, <2>2, <2>3, <2>4 DEF Receive
<1>6. CASE ProcessError \/ ProcessReset
  <2>1. LoopTypes' /\ pc0' = "post"
    BY <1>6 DEF ProcessError, ProcessReset, resetVars, LoopTypes
  <2>2. MouseTypes'
    BY <1>6 DEF ProcessError, ProcessReset, mouseVars, MouseTypes
  <2>3. KbdTypes'
    BY <1>6 DEF ProcessError, ProcessReset, kbdVars, KbdTypes
  <2>4. UsbTypes'
    BY <1>6 DEF ProcessError, ProcessReset, usbVars, UsbTypes
  <2> QED
    BY <2>1, <2>2, <2>3, <2>4
<1>7. CASE ProcessCommand
  <2>1. PICK r \in ListenResults : /\ MouseBlock(r)
                                   /\ \E q \in ListenResults : KbdBlock(q)
    BY <1>7 DEF ProcessCommand, ListenResults
  <2>2. MouseTypes' /\ KbdTypes'
    BY <2>1, MouseBlockType, KbdBlockType
  <2> QED
    BY <1>7, <2>2 DEF ProcessCommand, resetVars, usbVars, LoopTypes, UsbTypes
<1>8. CASE PostReset
  <2>1. LoopTypes' /\ UsbTypes' /\ pc0' = "flush"
    BY <1>8 DEF PostReset, usbVars, LoopTypes, UsbTypes
  <2>2. MouseTypes'
    BY <1>8, AddrAssumption DEF PostReset, MouseTypes
  <2>3. KbdTypes'
    BY <1>8, AddrAssumption DEF PostReset, KbdTypes
  <2> QED
    BY <2>1, <2>2, <2>3
<1>9. CASE PostFlush
  <2>1. LoopTypes' /\ pc0' = "keyboard"
    BY <1>9 DEF PostFlush, resetVars, LoopTypes
  <2>2. UsbTypes'
    <3>1. usb_mouse_reset' \in BOOLEAN /\ usb_kbd_reset' \in BOOLEAN
      BY <1>9 DEF PostFlush
    <3> QED
      BY <1>9, <3>1 DEF PostFlush, UsbTypes
  <2>3. MouseTypes' /\ KbdTypes'
    BY <1>9 DEF PostFlush, MouseTypes, KbdTypes
  <2> QED
    BY <2>1, <2>2, <2>3
<1>10. CASE KeyEvent
  <2>1. keyq' \in Seq(Keys) /\ Len(keyq') <= KeyCapacity /\ fate' \in [Keys -> Fates]
    <3>1. PICK k \in Keys :
             \/ /\ Len(keyq) < KeyCapacity
                /\ keyq' = Append(keyq, k)
                /\ fate' = [fate EXCEPT ![k] = "queued"]
             \/ fate' = [fate EXCEPT ![k] = "lost"] /\ UNCHANGED keyq
      BY <1>10 DEF KeyEvent, KeysWith
    <3>2. keyq \in Seq(Keys) /\ Len(keyq) <= KeyCapacity /\ Len(keyq) \in Nat
      BY LenProperties DEF UsbTypes
    <3>3. keyq' \in Seq(Keys) /\ Len(keyq') <= KeyCapacity
      BY <3>1, <3>2, AppendProperties, BoundAssumption
    <3> QED
      BY <3>1, <3>3 DEF KbdTypes, Fates
  <2> QED
    BY <1>10, <2>1 DEF KeyEvent, core0Vars, resetVars, usbVars,
                       LoopTypes, MouseTypes, KbdTypes, UsbTypes
<1>11. CASE MouseReport
  BY <1>11, BoundAssumption
     DEF MouseReport, core0Vars, resetVars, LoopTypes, MouseTypes, KbdTypes, UsbTypes
<1>12. CASE UsbTaskDone \/ AdbResetSeen \/ MouseReset \/ MouseClear \/ KbdReset \/ KbdClear
  <2> USE DEF UsbTaskDone, AdbResetSeen, MouseReset, MouseClear, KbdReset, KbdClear,
              core0Vars, resetVars
  <2>1. LoopTypes' /\ UNCHANGED <<pc0, kbdreg0>>
    BY <1>12 DEF LoopTypes
  <2>2. MouseTypes'
    <3>1. clicks' \in {0, clicks}
      BY <1>12
    <3> QED
      BY <1>12, <3>1, BoundAssumption DEF MouseTypes
  <2>3. KbdTypes'
    BY <1>12 DEF KbdTypes
  <2>4. UsbTypes'
    BY <1>12 DEF UsbTypes
  <2> QED
    BY <2>1, <2>2, <2>3, <2>4
<1>13. CASE KbdDrain
  <2>1. keyq' \in Seq(Keys) /\ Len(keyq') <= KeyCapacity /\ fate' \in [Keys -> Fates]
    <3>1. keyq \in Seq(Keys) /\ Len(keyq) <= KeyCapacity /\ fate \in [Keys -> Fates]
      BY DEF UsbTypes, KbdTypes
    <3>2. CASE keyq = <<>>
      BY <1>13, <3>1, <3>2 DEF KbdDrain
    <3>3. CASE keyq # <<>>
      <4>1. /\ fate' = [fate EXCEPT ![Head(keyq)] = "lost"] /\ keyq' = Tail(keyq)
            /\ Head(keyq) \in Keys /\ Tail(keyq) \in Seq(Keys)
            /\ Len(Tail(keyq)) = Len(keyq) - 1 /\ Len(keyq) \in Nat
        BY <1>13, <3>1, <3>3, HeadTailProperties, LenProperties DEF KbdDrain
      <4> QED
        BY <3>1, <4>1, BoundAssumption DEF Fates
    <3> QED
      BY <3>2, <3>3
  <2>2. pc1' \in {"kbdDrain", "kbdClear"}
    BY <1>13 DEF KbdDrain
  <2> QED
    BY <1>13, <2>1, <2>2 DEF KbdDrain, core0Vars, resetVars,
                       LoopTypes, MouseTypes, KbdTypes, UsbTypes
<1> QED
  BY <1>v, <1>1, <1>2, <1>3, <1>4, <1>5, <1>6, <1>7, <1>8, <1>9, <1>10, <1>11, <1>12, <1>13
     DEF Next, Core0, Core1

\* The variables of the devices and of both loops keep their types: no
\* sequence of commands gives a device the host's address, and register 0
\* never holds more than two keys.
THEOREM TypeCorrect == Spec => []TypeOK
  BY InitTInv, TypeStep, PTL DEF Spec, TInv

-----------------------------------------------------------------------------
(* Service requests and changes of address. *)

\* The bus is held low only while the command that found it so is processed.
SrqInv ==
  /\ MouseSrqHasData
  /\ SrqOnlyForOthers
  /\ srq => pc0 = "process"

LEMMA SrqStep == TInv /\ SrqInv /\ [Next]_vars => SrqInv'
<1> SUFFICES ASSUME TInv, SrqInv, [Next]_vars PROVE SrqInv'
  OBVIOUS
<1> USE DEF SrqInv, MouseSrqHasData, SrqOnlyForOthers
<1>v. CASE UNCHANGED vars
  BY <1>v DEF vars, mouseVars, kbdVars
<1>1. CASE TestKeyboard \/ PackFirst \/ PackSecond
  BY <1>1 DEF TestKeyboard, PackFirst, PackSecond, mouseVars, kbdVars
<1>2. CASE SampleMouse
  BY <1>2 DEF SampleMouse, kbdVars
<1>3. ASSUME NEW c \in Commands, Receive(c) PROVE SrqInv'
  BY <1>3 DEF Receive, AssertSrq, mouseVars, kbdVars
<1>4. CASE ProcessError \/ ProcessReset
  BY <1>4 DEF ProcessError, ProcessReset, mouseVars, kbdVars
<1>5. CASE ProcessCommand
  <2>1. ~srq'
    BY <1>5 DEF ProcessCommand
  <2>2. PICK r \in ListenResults : MouseBlock(r)
    BY <1>5 DEF ProcessCommand
  <2>3. MouseSrqHasData'
    BY <2>2 DEF MouseBlock, MouseNotAddressed, MouseFlush, MouseListen3, MouseTalk0,
                MouseTalk3, MouseOther, mouseVars
  <2> QED
    BY <2>1, <2>3
<1>6. CASE PostReset \/ PostFlush
  BY <1>6 DEF PostReset, PostFlush
<1>7. CASE Core1 \/ KeyEvent \/ MouseReport
  BY <1>7 DEF Core1, UsbTaskDone, AdbResetSeen, MouseReset, MouseClear, KbdReset,
              KbdDrain, KbdClear, KeyEvent, MouseReport, core0Vars
<1> QED
  BY <1>v, <1>1, <1>2, <1>3, <1>4, <1>5, <1>6, <1>7 DEF Next, Core0

LEMMA InitSrqInv == Init => SrqInv
  BY DEF Init, SrqInv, MouseSrqHasData, SrqOnlyForOthers

\* The mouse never asks for service without data to deliver.
THEOREM MouseSrqTheorem == Spec => []MouseSrqHasData
  BY InitTInv, TypeStep, InitSrqInv, SrqStep, PTL DEF Spec, SrqInv

\* The bus is held low only on behalf of a device that was not addressed.
THEOREM SrqTheorem == Spec => []SrqOnlyForOthers
  BY InitTInv, TypeStep, InitSrqInv, SrqStep, PTL DEF Spec, SrqInv

\* Only a Listen of register 3 and a reset write the addresses.
LEMMA AddressStep ==
  [Next]_vars => [ /\ mouse_skip /\ mouse_addr' # mouse_addr => adb_reset
                   /\ kbd_skip /\ kbd_addr' # kbd_addr => adb_reset ]_vars
<1> SUFFICES ASSUME Next
             PROVE  /\ mouse_skip /\ mouse_addr' # mouse_addr => adb_reset
                    /\ kbd_skip /\ kbd_addr' # kbd_addr => adb_reset
  OBVIOUS
<1>1. CASE ProcessCommand
  <2>1. PICK r \in ListenResults, q \in ListenResults : MouseBlock(r) /\ KbdBlock(q)
    BY <1>1 DEF ProcessCommand, ListenResults
  <2>2. mouse_skip => mouse_addr' = mouse_addr
    BY <2>1 DEF MouseBlock, MouseNotAddressed, MouseFlush, MouseListen3, MouseTalk0,
                MouseTalk3, MouseOther, mouseVars
  <2>3. kbd_skip => kbd_addr' = kbd_addr
    BY <2>1 DEF KbdBlock, KbdNotAddressed, KbdFlush, KbdListen3, KbdTalk0,
                KbdTalk3, KbdOther, kbdVars
  <2> QED
    BY <2>2, <2>3
<1>2. CASE PostReset
  BY <1>2 DEF PostReset
<1>3. CASE TestKeyboard \/ PackFirst \/ PackSecond \/ SampleMouse \/ ProcessError
           \/ ProcessReset \/ PostFlush
  BY <1>3 DEF TestKeyboard, PackFirst, PackSecond, SampleMouse, ProcessError,
              ProcessReset, PostFlush, mouseVars, kbdVars
<1>4. ASSUME NEW c \in Commands, Receive(c) PROVE UNCHANGED <<mouse_addr, kbd_addr>>
  BY <1>4 DEF Receive, mouseVars, kbdVars
<1>5. CASE Core1 \/ KeyEvent \/ MouseReport
  BY <1>5 DEF Core1, UsbTaskDone, AdbResetSeen, MouseReset, MouseClear, KbdReset,
              KbdDrain, KbdClear, KeyEvent, MouseReport, core0Vars
<1> QED
  BY <1>1, <1>2, <1>3, <1>4, <1>5 DEF Next, Core0

\* A device that lost a collision stays where it is until it has ignored one
\* change of address or was reset.
THEOREM SkippedMoveTheorem == Spec => SkippedMoveIgnored
  BY AddressStep, PTL DEF Spec, SkippedMoveIgnored

-----------------------------------------------------------------------------
(* The way of the key events: queue, register 0, host. *)

\* A sequence that grows from its head on.
Increasing(s) == \A i, j \in 1..Len(s) : i < j => s[i] < s[j]

OrderInv ==
  /\ Increasing(keyq)
  /\ \A j, k \in Keys : j < k /\ k \in Born => j \in Born
  /\ pc0 \in {"pack1", "pack2"} => ~kbdpending
  /\ KeyAccounting
  /\ KeysInOrder

FlushInv ==
  /\ FlushDrainsQueue
  /\ pc1 = "kbdClear" => keyq = <<>>
  /\ beforeFlush \subseteq Born

LEMMA InitFlow == Init => OrderInv /\ FlushInv
<1> SUFFICES ASSUME Init PROVE OrderInv /\ FlushInv
  OBVIOUS
<1>1. Len(keyq) = 0 /\ KeysIn(keyq) = {} /\ Increasing(keyq)
  BY EmptySeq DEF Init, KeysIn, Increasing
<1>2. \A k \in Keys : fate[k] = "unborn"
  BY DEF Init
<1>3. KeyAccounting /\ KeysInOrder
  BY <1>1, <1>2 DEF Init, KeyAccounting, KeysInOrder, KeysWith
<1>4. Born = {}
  BY <1>2 DEF Born, KeysWith
<1> QED
  BY <1>1, <1>3, <1>4 DEF Init, OrderInv, FlushInv, FlushDrainsQueue

\* What dequeue() does to the keys in the queue.
LEMMA TailKeys ==
  ASSUME NEW s \in Seq(Keys), s # <<>>, Increasing(s)
  PROVE  /\ Head(s) \in KeysIn(s)
         /\ Head(s) \in Keys
         /\ \A k \in KeysIn(s) : k # Head(s) => Head(s) < k
         /\ KeysIn(Tail(s)) = KeysIn(s) \ {Head(s)}
         /\ Increasing(Tail(s))
<1>1. /\ Len(s) \in Nat \ {0}
      /\ Tail(s) \in Seq(Keys)
      /\ Len(Tail(s)) = Len(s) - 1
      /\ \A i \in 1..(Len(s) - 1) : Tail(s)[i] = s[i + 1]
      /\ Head(s) = s[1]
      /\ Head(s) \in Keys
  BY HeadTailProperties, EmptySeq
<1>2. 1 \in 1..Len(s)
  BY <1>1
<1>3. Head(s) \in KeysIn(s)
  BY <1>1, <1>2 DEF KeysIn
<1>4. \A i \in 1..Len(s) : s[i] \in Int /\ (i # 1 => s[1] < s[i])
  <2>1. ASSUME NEW i \in 1..Len(s) PROVE s[i] \in Keys
    BY ElementOfSeq
  <2> QED
    BY <1>1, <1>2, <2>1, BoundAssumption DEF Increasing, Keys
<1>5. \A k \in KeysIn(s) : k # Head(s) => Head(s) < k
  BY <1>1, <1>4 DEF KeysIn
<1>6. KeysIn(Tail(s)) = KeysIn(s) \ {Head(s)}
  <2>1. KeysIn(Tail(s)) = {s[i + 1] : i \in 1..(Len(s) - 1)}
    BY <1>1 DEF KeysIn
  <2>2. ASSUME NEW k \in KeysIn(Tail(s)) PROVE k \in KeysIn(s) \ {Head(s)}
    <3>1. PICK i \in 1..(Len(s) - 1) : k = s[i + 1]
      BY <2>1
    <3>2. i + 1 \in 1..Len(s) /\ i + 1 # 1
      BY <1>1
    <3>3. s[1] < s[i + 1] /\ s[1] \in Int
      BY <1>2, <1>4, <3>2
    <3> QED
      BY <1>1, <3>1, <3>2, <3>3 DEF KeysIn
  <2>3. ASSUME NEW k \in KeysIn(s), k # Head(s) PROVE k \in KeysIn(Tail(s))
    <3>1. PICK i \in 1..Len(s) : k = s[i]
      BY DEF KeysIn
    <3>2. i - 1 \in 1..(Len(s) - 1) /\ (i - 1) + 1 = i
      BY <1>1, <2>3, <3>1
    <3> QED
      BY <2>1, <3>1, <3>2
  <2> QED
    BY <2>2, <2>3
<1>7. Increasing(Tail(s))
  BY <1>1 DEF Increasing
<1> QED
  BY <1>1, <1>3, <1>5, <1>6, <1>7

\* The fate of the head of the queue when it is taken, and of the others.
LEMMA TakeHead ==
  ASSUME TInv, OrderInv, NEW f \in {"packed", "lost"}, keyq # <<>>,
         keyq' = Tail(keyq), fate' = [fate EXCEPT ![Head(keyq)] = f]
  PROVE  /\ Increasing(keyq)'
         /\ KeysWith("queued")' = KeysIn(keyq)'
         /\ Born' = Born
         /\ KeysWith("packed")' = IF f = "packed" THEN KeysWith("packed") \cup {Head(keyq)}
                                  ELSE KeysWith("packed")
         /\ \A j, k \in Keys : j < k /\ fate'[k] \in {"packed", "sent", "skipped"}
                 => fate'[j] \notin {"unborn", "queued"}
         /\ \A k \in Keys : fate'[k] = "sent" <=> fate[k] = "sent"
         /\ \A k \in Keys : fate[k] = "sent" => k < Head(keyq)
<1>1. keyq \in Seq(Keys) /\ fate \in [Keys -> Fates] /\ Increasing(keyq)
  BY DEF TInv, TypeOK, UsbTypes, KbdTypes, OrderInv
<1> DEFINE h == Head(keyq)
<1>2. /\ h \in KeysIn(keyq) /\ h \in Keys
      /\ \A k \in KeysIn(keyq) : k # h => h < k
      /\ KeysIn(keyq') = KeysIn(keyq) \ {h}
      /\ Increasing(keyq')
  BY <1>1, TailKeys
<1>3. \A k \in Keys : k \in KeysIn(keyq) <=> fate[k] = "queued"
  BY DEF OrderInv, KeyAccounting, KeysWith
<1>4. fate[h] = "queued"
  BY <1>2, <1>3
<1>5. \A k \in Keys : fate'[k] = IF k = h THEN f ELSE fate[k]
  BY <1>1, <1>2
<1>6. KeysWith("queued")' = KeysIn(keyq')
  BY <1>2, <1>3, <1>5 DEF KeysWith, OrderInv, KeyAccounting
<1>7. Born' = Born
  BY <1>4, <1>5 DEF Born, KeysWith
<1>8. KeysWith("packed")' = IF f = "packed" THEN KeysWith("packed") \cup {h}
                           ELSE KeysWith("packed")
  BY <1>2, <1>4, <1>5 DEF KeysWith
<1>9. ASSUME NEW j \in Keys, j < h PROVE fate[j] \notin {"unborn", "queued"}
  <2>1. j \in Born
    BY <1>2, <1>4, <1>9 DEF OrderInv, Born, KeysWith
  <2>2. j \notin KeysIn(keyq)
    BY <1>2, <1>9, BoundAssumption DEF Keys
  <2> QED
    BY <1>3, <2>1, <2>2 DEF Born, KeysWith
<1>10. ASSUME NEW j \in Keys, NEW k \in Keys, j < k,
              fate'[k] \in {"packed", "sent", "skipped"}
       PROVE  fate'[j] \notin {"unborn", "queued"}
  BY <1>5, <1>9, <1>10 DEF OrderInv, KeysInOrder
<1>11. \A k \in Keys : fate'[k] = "sent" <=> fate[k] = "sent"
  BY <1>4, <1>5
<1>12. ASSUME NEW k \in Keys, fate[k] = "sent" PROVE k < h
  BY <1>2, <1>4, <1>12, BoundAssumption DEF OrderInv, KeysInOrder, Keys
<1> QED
  BY <1>2, <1>6, <1>7, <1>8, <1>10, <1>11, <1>12

\* What Pack does with what FirstOf hands it.
LEMMA PackCases ==
  ASSUME TInv, NEW s \in {<<>>, FirstOf(keyq)}, Pack(s)
  PROVE  \/ s = <<>> /\ UNCHANGED <<keyq, fate>>
         \/ /\ keyq # <<>>
            /\ s = <<Head(keyq)>>
            /\ keyq' = Tail(keyq)
            /\ fate' = [fate EXCEPT ![Head(keyq)] = "packed"]
<1>1. fate \in [Keys -> Fates]
  BY DEF TInv, TypeOK, KbdTypes
<1>2. CASE s = <<>>
  <2>1. fate' = [k \in Keys |-> fate[k]]
    BY <1>2 DEF Pack, Become
  <2> QED
    BY <1>1, <1>2, <2>1 DEF Pack
<1>3. CASE s # <<>>
  <2>1. keyq # <<>> /\ s = <<Head(keyq)>>
    BY <1>3 DEF FirstOf
  <2>2. fate' = [k \in Keys |-> IF Head(keyq) = k THEN "packed" ELSE fate[k]]
    BY <2>1 DEF Pack, Become
  <2>3. fate' = [fate EXCEPT ![Head(keyq)] = "packed"]
    BY <1>1, <2>2
  <2> QED
    BY <1>3, <2>1, <2>3 DEF Pack
<1> QED
  BY <1>2, <1>3

\* A step that moves no key and does not touch register 0.
LEMMA OrderUntouched ==
  ASSUME OrderInv, UNCHANGED <<keyq, fate, kbdreg0, kbdpending>>,
         pc0' = "pack2" <=> pc0 = "pack2",
         pc0' \in {"pack1", "pack2"} => ~kbdpending
  PROVE  OrderInv'
<1>1. KeyAccounting'
  BY DEF OrderInv, KeyAccounting, KeysWith
<1>2. KeysInOrder'
  BY DEF OrderInv, KeysInOrder
<1>3. Born' = Born
  BY DEF Born, KeysWith
<1> QED
  BY <1>1, <1>2, <1>3 DEF OrderInv

LEMMA OrderStep == TInv /\ OrderInv /\ [Next]_vars => OrderInv'
<1> SUFFICES ASSUME TInv, OrderInv, [Next]_vars PROVE OrderInv'
  OBVIOUS
<1>v. CASE UNCHANGED vars
  <2>1. UNCHANGED <<keyq, fate, kbdreg0, kbdpending, pc0>>
    BY <1>v DEF vars, kbdVars
  <2>2. pc0' \in {"pack1", "pack2"} => ~kbdpending
    BY <2>1 DEF OrderInv
  <2> QED
    BY <2>1, <2>2, OrderUntouched
<1>1. CASE TestKeyboard
  <2>1. /\ UNCHANGED <<keyq, fate, kbdreg0, kbdpending>>
        /\ pc0' # "pack2" /\ pc0 # "pack2"
        /\ pc0' = "pack1" => ~kbdpending
    BY <1>1 DEF TestKeyboard, kbdVars
  <2> QED
    BY <2>1, OrderUntouched
<1>2. CASE PackFirst
  <2>1. /\ kbdreg0' = FirstOf(keyq) /\ Pack(FirstOf(keyq))
        /\ pc0 = "pack1" /\ pc0' = "pack2" /\ UNCHANGED kbdpending
    BY <1>2 DEF PackFirst
  <2>2. ~kbdpending /\ KeysWith("packed") = {}
    BY <2>1 DEF OrderInv, KeyAccounting
  <2>3. CASE FirstOf(keyq) = <<>> /\ UNCHANGED <<keyq, fate>>
    <3>1. KeysIn(kbdreg0') = {}
      BY <2>1, <2>3, EmptySeq DEF KeysIn
    <3>2. KeyAccounting'
      BY <2>1, <2>2, <2>3, <3>1 DEF OrderInv, KeyAccounting, KeysWith
    <3>3. KeysInOrder'
      BY <2>3 DEF OrderInv, KeysInOrder
    <3>4. Born' = Born
      BY <2>3 DEF Born, KeysWith
    <3> QED
      BY <2>1, <2>2, <2>3, <3>2, <3>3, <3>4 DEF OrderInv
  <2>4. CASE /\ keyq # <<>>
             /\ FirstOf(keyq) = <<Head(keyq)>>
             /\ keyq' = Tail(keyq)
             /\ fate' = [fate EXCEPT ![Head(keyq)] = "packed"]
    <3>1. /\ Increasing(keyq)'
          /\ KeysWith("queued")' = KeysIn(keyq)'
          /\ Born' = Born
          /\ KeysWith("packed")' = KeysWith("packed") \cup {Head(keyq)}
          /\ \A j, k \in Keys : j < k /\ fate'[k] \in {"packed", "sent", "skipped"}
                  => fate'[j] \notin {"unborn", "queued"}
          /\ \A k \in Keys : fate'[k] = "sent" <=> fate[k] = "sent"
          /\ \A k \in Keys : fate[k] = "sent" => k < Head(keyq)
      BY <2>4, TakeHead
    <3>2. KeysIn(kbdreg0') = {Head(keyq)}
      BY <2>1, <2>4 DEF KeysIn
    <3>3. KeyAccounting'
      BY <2>1, <2>2, <3>1, <3>2 DEF KeyAccounting
    <3>4. ASSUME NEW j \in Keys, NEW k \in Keys, j < k, fate'[k] = "sent"
          PROVE  fate'[j] # "packed"
      <4>1. k < Head(keyq) /\ Head(keyq) \in Keys
        BY <3>1, <3>4, <2>4, HeadTailProperties DEF TInv, TypeOK, UsbTypes
      <4>2. j # Head(keyq)
        BY <3>4, <4>1, BoundAssumption DEF Keys
      <4>3. fate'[j] = fate[j]
        BY <2>4, <4>2 DEF TInv, TypeOK, KbdTypes
      <4> QED
        BY <2>2, <4>3 DEF KeysWith
    <3>5. KeysInOrder'
      BY <3>1, <3>4 DEF KeysInOrder
    <3> QED
      BY <2>1, <2>2, <3>1, <3>3, <3>5 DEF OrderInv
  <2> QED
    BY <2>1, <2>3, <2>4, PackCases
<1>3. CASE PackSecond
  <2>1. PICK second \in {<<>>, FirstOf(keyq)} : /\ kbdreg0' = kbdreg0 \o second
                                                /\ Pack(second)
    BY <1>3 DEF PackSecond
  <2>2. pc0 = "pack2" /\ pc0' = "mouse" /\ kbdpending' = TRUE
    BY <1>3 DEF PackSecond
  <2>3. KeysWith("packed") = KeysIn(kbdreg0) /\ kbdreg0 \in Seq(Keys)
    BY <2>2 DEF OrderInv, KeyAccounting, TInv, TypeOK, KbdTypes
  <2>4. CASE second = <<>> /\ UNCHANGED <<keyq, fate>>
    <3>1. kbdreg0' = kbdreg0
      BY <2>1, <2>3, <2>4, ConcatEmptySeq
    <3>2. KeyAccounting'
      BY <2>2, <2>3, <2>4, <3>1 DEF OrderInv, KeyAccounting, KeysWith
    <3>3. KeysInOrder'
      BY <2>4 DEF OrderInv, KeysInOrder
    <3>4. Born' = Born
      BY <2>4 DEF Born, KeysWith
    <3> QED
      BY <2>2, <2>4, <3>2, <3>3, <3>4 DEF OrderInv
  <2>5. CASE /\ keyq # <<>>
             /\ second = <<Head(keyq)>>
             /\ keyq' = Tail(keyq)
             /\ fate' = [fate EXCEPT ![Head(keyq)] = "packed"]
    <3>1. /\ Increasing(keyq)'
          /\ KeysWith("queued")' = KeysIn(keyq)'
          /\ Born' = Born
          /\ KeysWith("packed")' = KeysWith("packed") \cup {Head(keyq)}
          /\ \A j, k \in Keys : j < k /\ fate'[k] \in {"packed", "sent", "skipped"}
                  => fate'[j] \notin {"unborn", "queued"}
          /\ \A k \in Keys : fate'[k] = "sent" <=> fate[k] = "sent"
          /\ \A k \in Keys : fate[k] = "sent" => k < Head(keyq)
      BY <2>5, TakeHead
    <3>2. Head(keyq) \in Keys
      BY <2>5, HeadTailProperties DEF TInv, TypeOK, UsbTypes
    <3>3. KeysIn(kbdreg0') = KeysIn(kbdreg0) \cup {Head(keyq)}
      <4>1. kbdreg0' = Append(kbdreg0, Head(keyq))
        BY <2>1, <2>3, <2>5, <3>2
      <4>2. /\ Len(kbdreg0') = Len(kbdreg0) + 1
            /\ \A i \in 1..Len(kbdreg0) : kbdreg0'[i] = kbdreg0[i]
            /\ kbdreg0'[Len(kbdreg0) + 1] = Head(keyq)
            /\ Len(kbdreg0) \in Nat
        BY <2>3, <3>2, <4>1, AppendProperties, LenProperties
      <4>3. ASSUME NEW i \in 1..(Len(kbdreg0) + 1), i # Len(kbdreg0) + 1
            PROVE  i \in 1..Len(kbdreg0)
        BY <4>2, <4>3
      <4>4. /\ 1..Len(kbdreg0) \subseteq 1..(Len(kbdreg0) + 1)
            /\ Len(kbdreg0) + 1 \in 1..(Len(kbdreg0) + 1)
        BY <4>2
      <4> QED
        BY <4>2, <4>3, <4>4 DEF KeysIn
    <3>4. KeyAccounting'
      BY <2>2, <2>3, <3>1, <3>3 DEF KeyAccounting
    <3>5. ASSUME NEW j \in Keys, NEW k \in Keys, j < k, fate'[k] = "sent"
          PROVE  fate'[j] # "packed"
      <4>1. k < Head(keyq) /\ fate[k] = "sent"
        BY <3>1, <3>5
      <4>2. j # Head(keyq)
        BY <3>2, <3>5, <4>1, BoundAssumption DEF Keys
      <4>3. fate'[j] = fate[j]
        BY <2>5, <4>2 DEF TInv, TypeOK, KbdTypes
      <4> QED
        BY <3>5, <4>1, <4>3 DEF OrderInv, KeysInOrder
    <3>6. KeysInOrder'
      BY <3>1, <3>5 DEF KeysInOrder
    <3> QED
      BY <2>2, <3>1, <3>4, <3>6 DEF OrderInv
  <2> QED
    BY <2>1, <2>4, <2>5, PackCases
<1>4. CASE \/ SampleMouse \/ ProcessError \/ ProcessReset \/ PostReset \/ PostFlush
           \/ \E c \in Commands : Receive(c)
  <2>1. UNCHANGED <<keyq, fate, kbdreg0, kbdpending>>
    BY <1>4 DEF SampleMouse, ProcessError, ProcessReset, PostReset, PostFlush, Receive, kbdVars
  <2>2. pc0 \notin {"pack1", "pack2"} /\ pc0' \notin {"pack1", "pack2"}
    BY <1>4 DEF SampleMouse, ProcessError, ProcessReset, PostReset, PostFlush, Receive
  <2> QED
    BY <2>1, <2>2, OrderUntouched
<1>5. CASE ProcessCommand
  <2>1. PICK q \in ListenResults : KbdBlock(q)
    BY <1>5 DEF ProcessCommand, ListenResults
  <2>2. pc0 = "process" /\ pc0' = "post" /\ UNCHANGED keyq
    BY <1>5 DEF ProcessCommand
  <2>3. CASE KbdTalk0 /\ kbdpending
    <3>1. PICK f \in {"skipped", "sent"} : fate' = Become(kbdreg0, f)
      BY <2>3 DEF KbdTalk0
    <3>2. kbdpending' = FALSE /\ UNCHANGED kbdreg0
      BY <2>3 DEF KbdTalk0
    <3>3. KeysWith("packed") = KeysIn(kbdreg0)
      BY <2>3 DEF OrderInv, KeyAccounting
    <3>4. \A k \in Keys : fate'[k] = IF fate[k] = "packed" THEN f ELSE fate[k]
      BY <3>1, <3>3 DEF Become, KeysIn, KeysWith
    <3>5. /\ KeysWith("packed")' = {}
          /\ KeysWith("queued")' = KeysWith("queued")
          /\ Born' = Born
      BY <3>4 DEF KeysWith, Born
    <3>6. KeyAccounting'
      BY <2>2, <3>2, <3>5 DEF OrderInv, KeyAccounting
    <3>7. KeysInOrder'
      BY <3>4 DEF OrderInv, KeysInOrder
    <3> QED
      BY <2>2, <3>5, <3>6, <3>7 DEF OrderInv
  <2>4. CASE ~(KbdTalk0 /\ kbdpending)
    <3>1. UNCHANGED <<fate, kbdreg0, kbdpending>>
      BY <2>1, <2>4 DEF KbdBlock, KbdNotAddressed, KbdFlush, KbdListen3, KbdTalk0, KbdTalk3,
                        KbdOther, kbdVars
    <3> QED
      BY <2>2, <3>1, OrderUntouched
  <2> QED
    BY <2>3, <2>4
<1>6. CASE KeyEvent
  <2>1. PICK k \in KeysWith("unborn") :
           /\ \A j \in Keys : j < k => j \in Born
           /\ \/ keyq' = Append(keyq, k) /\ fate' = [fate EXCEPT ![k] = "queued"]
              \/ fate' = [fate EXCEPT ![k] = "lost"] /\ UNCHANGED keyq
    BY <1>6 DEF KeyEvent
  <2>2. /\ k \in Keys /\ fate[k] = "unborn" /\ fate \in [Keys -> Fates]
        /\ keyq \in Seq(Keys) /\ UNCHANGED <<pc0, kbdreg0, kbdpending>>
    BY <1>6, <2>1 DEF KeyEvent, core0Vars, KeysWith, TInv, TypeOK, KbdTypes, UsbTypes
  <2>3. PICK f \in {"queued", "lost"} :
           /\ \A j \in Keys : fate'[j] = IF j = k THEN f ELSE fate[j]
           /\ f = "queued" => keyq' = Append(keyq, k)
           /\ f = "lost" => keyq' = keyq
    BY <2>1, <2>2
  <2>4. /\ KeysWith("packed")' = KeysWith("packed")
        /\ Born' = Born \cup {k}
        /\ KeysWith("queued")' = IF f = "queued" THEN KeysWith("queued") \cup {k}
                                 ELSE KeysWith("queued")
    BY <2>2, <2>3 DEF KeysWith, Born
  <2>5. \A j \in KeysIn(keyq) : j < k
    <3>1. ASSUME NEW j \in KeysIn(keyq) PROVE j \in Born /\ j \in Keys
      BY <3>1 DEF OrderInv, KeyAccounting, KeysWith, Born
    <3>2. ASSUME NEW j \in Born, j > k, j \in Keys PROVE FALSE
      BY <2>2, <3>2, BoundAssumption DEF OrderInv, Born, KeysWith, Keys
    <3>3. k \notin Born
      BY <2>2 DEF Born, KeysWith
    <3> QED
      BY <2>2, <3>1, <3>2, <3>3, BoundAssumption DEF Keys
  <2>6. Increasing(keyq)' /\ KeysIn(keyq)' = IF f = "queued" THEN KeysIn(keyq) \cup {k}
                                             ELSE KeysIn(keyq)
    <3>1. CASE f = "lost"
      BY <2>3, <3>1 DEF OrderInv
    <3>2. CASE f = "queued"
      <4>1. /\ Len(keyq') = Len(keyq) + 1
            /\ \A i \in 1..Len(keyq) : keyq'[i] = keyq[i]
            /\ keyq'[Len(keyq) + 1] = k
            /\ Len(keyq) \in Nat
        BY <2>2, <2>3, <3>2, AppendProperties, LenProperties
      <4>2. ASSUME NEW i \in 1..(Len(keyq) + 1), i # Len(keyq) + 1
            PROVE  i \in 1..Len(keyq)
        BY <4>1, <4>2
      <4>3. /\ 1..Len(keyq) \subseteq 1..(Len(keyq) + 1)
            /\ Len(keyq) + 1 \in 1..(Len(keyq) + 1)
        BY <4>1
      <4>4. KeysIn(keyq') = KeysIn(keyq) \cup {k}
        BY <4>1, <4>2, <4>3 DEF KeysIn
      <4>5. \A i \in 1..Len(keyq) : keyq[i] < k
        BY <2>5 DEF KeysIn
      <4>6. Increasing(keyq')
        <5> SUFFICES ASSUME NEW i \in 1..(Len(keyq) + 1), NEW m \in 1..(Len(keyq) + 1), i < m
                     PROVE  keyq'[i] < keyq'[m]
          BY <4>1 DEF Increasing
        <5>1. i \in 1..Len(keyq)
          BY <4>1
        <5>2. CASE m = Len(keyq) + 1
          BY <4>1, <4>5, <5>1, <5>2
        <5>3. CASE m # Len(keyq) + 1
          <6>1. m \in 1..Len(keyq)
            BY <4>2, <5>3
          <6> QED
            BY <4>1, <5>1, <6>1 DEF OrderInv, Increasing
        <5> QED
          BY <5>2, <5>3
      <4> QED
        BY <3>2, <4>4, <4>6
    <3> QED
      BY <3>1, <3>2
  <2>7. KeyAccounting'
    BY <2>2, <2>4, <2>6 DEF OrderInv, KeyAccounting
  <2>8. ASSUME NEW i \in Keys, NEW j \in Keys, i < j
        PROVE  /\ fate'[j] \in {"packed", "sent", "skipped"} => fate'[i] \notin {"unborn", "queued"}
               /\ fate'[j] = "sent" => fate'[i] # "packed"
    <3>1. fate'[j] \in {"packed", "sent", "skipped"} => i # k /\ j # k
      BY <2>2, <2>3, <2>8 DEF OrderInv, KeysInOrder
    <3> QED
      BY <2>3, <2>8, <3>1 DEF OrderInv, KeysInOrder
  <2>9. KeysInOrder'
    BY <2>8 DEF KeysInOrder
  <2>10. \A i, j \in Keys : i < j /\ j \in Born' => i \in Born'
    BY <2>1, <2>4 DEF OrderInv
  <2> QED
    BY <2>2, <2>6, <2>7, <2>9, <2>10 DEF OrderInv
<1>7. CASE KbdDrain
  <2>1. UNCHANGED <<pc0, kbdreg0, kbdpending>>
    BY <1>7 DEF KbdDrain, core0Vars
  <2>2. CASE keyq = <<>>
    <3>1. UNCHANGED <<keyq, fate>>
      BY <1>7, <2>2 DEF KbdDrain
    <3>2. pc0' \in {"pack1", "pack2"} => ~kbdpending
      BY <2>1 DEF OrderInv
    <3> QED
      BY <2>1, <3>1, <3>2, OrderUntouched
  <2>3. CASE keyq # <<>>
    <3>1. keyq' = Tail(keyq) /\ fate' = [fate EXCEPT ![Head(keyq)] = "lost"]
      BY <1>7, <2>3 DEF KbdDrain
    <3>2. /\ Increasing(keyq)'
          /\ KeysWith("queued")' = KeysIn(keyq)'
          /\ Born' = Born
          /\ KeysWith("packed")' = KeysWith("packed")
          /\ \A j, k \in Keys : j < k /\ fate'[k] \in {"packed", "sent", "skipped"}
                  => fate'[j] \notin {"unborn", "queued"}
          /\ \A k \in Keys : fate'[k] = "sent" <=> fate[k] = "sent"
      BY <2>3, <3>1, TakeHead
    <3>3. KeyAccounting'
      BY <2>1, <3>2 DEF OrderInv, KeyAccounting
    <3>4. \A j \in Keys : fate'[j] = "packed" <=> fate[j] = "packed"
      BY <3>2 DEF KeysWith
    <3>5. KeysInOrder'
      BY <3>2, <3>4 DEF OrderInv, KeysInOrder
    <3> QED
      BY <2>1, <3>2, <3>3, <3>5 DEF OrderInv
  <2> QED
    BY <2>2, <2>3
<1>8. CASE \/ UsbTaskDone \/ AdbResetSeen \/ MouseReset \/ MouseClear \/ KbdReset
           \/ KbdClear \/ MouseReport
  <2>1. UNCHANGED <<pc0, keyq, fate, kbdreg0, kbdpending>>
    BY <1>8 DEF UsbTaskDone, AdbResetSeen, MouseReset, MouseClear, KbdReset, KbdClear,
                MouseReport, core0Vars
  <2>2. pc0' \in {"pack1", "pack2"} => ~kbdpending
    BY <2>1 DEF OrderInv
  <2> QED
    BY <2>1, <2>2, OrderUntouched
<1> QED
  BY <1>v, <1>1, <1>2, <1>3, <1>4, <1>5, <1>6, <1>7, <1>8 DEF Next, Core0, Core1

\* No key event is lost from register 0, doubled or forgotten by the books.
THEOREM KeyAccountingTheorem == Spec => []KeyAccounting
  BY InitTInv, TypeStep, InitFlow, OrderStep, PTL DEF Spec, OrderInv

\* The host receives the key events in the order they happened.
THEOREM KeyOrderTheorem == Spec => []KeysInOrder
  BY InitTInv, TypeStep, InitFlow, OrderStep, PTL DEF Spec, OrderInv

\* A born key stays born, and the queue gains only new keys.
LEMMA FlowFacts ==
  TInv /\ OrderInv /\ [Next]_vars =>
    /\ Born \subseteq Born'
    /\ KeysIn(keyq)' \subseteq KeysIn(keyq) \/ KeyEvent
<1> SUFFICES ASSUME TInv, OrderInv, [Next]_vars
             PROVE  /\ Born \subseteq Born'
                    /\ KeysIn(keyq)' \subseteq KeysIn(keyq) \/ KeyEvent
  OBVIOUS
<1>0. keyq \in Seq(Keys) /\ fate \in [Keys -> Fates] /\ Increasing(keyq)
  BY DEF TInv, TypeOK, UsbTypes, KbdTypes, OrderInv
<1>1. CASE UNCHANGED <<keyq, fate>>
  BY <1>1 DEF Born, KeysWith
<1>2. ASSUME NEW f \in {"packed", "lost"}, keyq # <<>>,
             keyq' = Tail(keyq), fate' = [fate EXCEPT ![Head(keyq)] = f]
      PROVE  Born' = Born /\ KeysIn(keyq)' \subseteq KeysIn(keyq)
  BY <1>0, <1>2, TakeHead, TailKeys
<1>3. CASE PackFirst \/ PackSecond
  <2>1. PICK s \in {<<>>, FirstOf(keyq)} : Pack(s)
    BY <1>3 DEF PackFirst, PackSecond
  <2> QED
    BY <1>1, <1>2, <2>1, PackCases
<1>4. CASE ProcessCommand
  <2>1. PICK q \in ListenResults : KbdBlock(q)
    BY <1>4 DEF ProcessCommand, ListenResults
  <2>2. UNCHANGED keyq
    BY <1>4 DEF ProcessCommand
  <2>3. \A k \in Keys : fate'[k] \in {"skipped", "sent"} \/ fate'[k] = fate[k]
    BY <1>0, <2>1 DEF KbdBlock, KbdNotAddressed, KbdFlush, KbdListen3, KbdTalk0, KbdTalk3,
                      KbdOther, kbdVars, Become
  <2> QED
    BY <2>2, <2>3 DEF Born, KeysWith
<1>5. CASE KeyEvent
  <2>1. \A k \in Keys : fate'[k] \in {"queued", "lost"} \/ fate'[k] = fate[k]
    BY <1>0, <1>5 DEF KeyEvent, KeysWith
  <2> QED
    BY <1>5, <2>1 DEF Born, KeysWith
<1>6. CASE KbdDrain
  BY <1>1, <1>2, <1>6 DEF KbdDrain
<1>7. CASE \/ UNCHANGED vars \/ TestKeyboard \/ SampleMouse \/ ProcessError \/ ProcessReset
           \/ PostReset \/ PostFlush \/ \E c \in Commands : Receive(c)
  BY <1>1, <1>7 DEF vars, TestKeyboard, SampleMouse, ProcessError, ProcessReset, PostReset,
                    PostFlush, Receive, kbdVars
<1>8. CASE \/ UsbTaskDone \/ AdbResetSeen \/ MouseReset \/ MouseClear \/ KbdReset
           \/ KbdClear \/ MouseReport
  BY <1>1, <1>8 DEF UsbTaskDone, AdbResetSeen, MouseReset, MouseClear, KbdReset, KbdClear,
                    MouseReport
<1> QED
  BY <1>3, <1>4, <1>5, <1>6, <1>7, <1>8 DEF Next, Core0, Core1

\* A flush is recorded in kbd_flush, then in usb_kbd_reset, and core 1 leaves
\* its drain only with an empty queue: whichever flag is lost, the drain that
\* lost it has done the work.
LEMMA FlushStep == TInv /\ OrderInv /\ FlushInv /\ [Next]_vars => FlushInv'
<1> SUFFICES ASSUME TInv, OrderInv, FlushInv, [Next]_vars PROVE FlushInv'
  OBVIOUS
<1>1. /\ Born \subseteq Born'
      /\ KeysIn(keyq)' \subseteq KeysIn(keyq) \/ KeyEvent
  BY FlowFacts
<1>e. KeysIn(<<>>) = {}
  BY EmptySeq DEF KeysIn
<1>2. CASE KeyEvent
  <2>1. pc1 = "usb" /\ UNCHANGED <<pc1, kbd_flush, usb_kbd_reset, beforeFlush>>
    BY <1>2 DEF KeyEvent, core0Vars, usbVars
  <2>2. KeysIn(keyq)' \cap Born \subseteq KeysIn(keyq)
    <3>1. PICK k \in KeysWith("unborn") : keyq' = Append(keyq, k) \/ UNCHANGED keyq
      BY <1>2 DEF KeyEvent
    <3>2. CASE keyq' = Append(keyq, k)
      <4>1. keyq \in Seq(Keys) /\ k \in Keys /\ k \notin Born
        BY <3>1 DEF TInv, TypeOK, UsbTypes, KeysWith, Born
      <4>2. /\ Len(keyq') = Len(keyq) + 1
            /\ \A i \in 1..Len(keyq) : keyq'[i] = keyq[i]
            /\ keyq'[Len(keyq) + 1] = k
            /\ Len(keyq) \in Nat
        BY <3>2, <4>1, AppendProperties, LenProperties
      <4>3. ASSUME NEW i \in 1..(Len(keyq) + 1), i # Len(keyq) + 1
            PROVE  i \in 1..Len(keyq)
        BY <4>2, <4>3
      <4> QED
        BY <4>1, <4>2, <4>3 DEF KeysIn
    <3> QED
      BY <3>1, <3>2
  <2> QED
    BY <1>1, <2>1, <2>2 DEF FlushInv, FlushDrainsQueue
<1>3. CASE ProcessCommand
  <2>1. PICK q \in ListenResults : KbdBlock(q)
    BY <1>3 DEF ProcessCommand, ListenResults
  <2>2. UNCHANGED <<keyq, pc1, usb_kbd_reset>>
    BY <1>3 DEF ProcessCommand, usbVars
  <2>3. \/ kbd_flush' = TRUE /\ beforeFlush' = Born
        \/ UNCHANGED <<kbd_flush, beforeFlush>>
    BY <2>1 DEF KbdBlock, KbdNotAddressed, KbdFlush, KbdListen3, KbdTalk0, KbdTalk3,
                KbdOther, kbdVars
  <2> QED
    BY <1>1, <2>2, <2>3 DEF FlushInv, FlushDrainsQueue
<1>4. CASE PostFlush
  <2>1. UNCHANGED <<keyq, pc1, beforeFlush>> /\ (usb_kbd_reset' <=> usb_kbd_reset \/ kbd_flush)
    BY <1>4 DEF PostFlush
  <2> QED
    BY <1>1, <2>1 DEF FlushInv, FlushDrainsQueue
<1>5. CASE \/ UNCHANGED vars \/ TestKeyboard \/ PackFirst \/ PackSecond \/ SampleMouse
           \/ ProcessError \/ ProcessReset \/ PostReset \/ MouseReport
           \/ \E c \in Commands : Receive(c)
  <2>1. UNCHANGED <<pc1, kbd_flush, usb_kbd_reset, beforeFlush>>
    BY <1>5 DEF vars, TestKeyboard, PackFirst, PackSecond, SampleMouse, ProcessError,
                ProcessReset, PostReset, MouseReport, Receive, kbdVars, usbVars, core0Vars
  <2>2. KeysIn(keyq)' \subseteq KeysIn(keyq)
    <3>1. CASE PackFirst \/ PackSecond
      <4>1. PICK s \in {<<>>, FirstOf(keyq)} : Pack(s)
        BY <3>1 DEF PackFirst, PackSecond
      <4>2. keyq \in Seq(Keys) /\ Increasing(keyq)
        BY DEF TInv, TypeOK, UsbTypes, OrderInv
      <4> QED
        BY <4>1, <4>2, PackCases, TailKeys
    <3>2. CASE ~(PackFirst \/ PackSecond)
      BY <1>5, <3>2 DEF vars, TestKeyboard, SampleMouse, ProcessError, ProcessReset, PostReset,
                        MouseReport, Receive
    <3> QED
      BY <3>1, <3>2
  <2>3. keyq = <<>> => keyq' = <<>>
    <3>1. CASE PackFirst \/ PackSecond
      BY <3>1, PackCases DEF PackFirst, PackSecond
    <3>2. CASE ~(PackFirst \/ PackSecond)
      BY <1>5, <3>2 DEF vars, TestKeyboard, SampleMouse, ProcessError, ProcessReset, PostReset,
                        MouseReport, Receive
    <3> QED
      BY <3>1, <3>2
  <2> QED
    BY <1>1, <2>1, <2>2, <2>3 DEF FlushInv, FlushDrainsQueue
<1>6. CASE KbdDrain
  <2>1. /\ pc1' = "kbdDrain" \/ (pc1' = "kbdClear" /\ keyq = <<>> /\ keyq' = <<>>)
        /\ UNCHANGED beforeFlush
    BY <1>6 DEF KbdDrain, core0Vars
  <2> QED
    BY <1>1, <2>1 DEF FlushInv, FlushDrainsQueue
<1>7. CASE KbdClear
  <2>1. keyq = <<>> /\ UNCHANGED <<keyq, beforeFlush>> /\ pc1' = "usb"
    BY <1>7 DEF KbdClear, FlushInv, core0Vars
  <2> QED
    BY <1>1, <1>e, <2>1 DEF FlushInv, FlushDrainsQueue
<1>8. CASE UsbTaskDone \/ AdbResetSeen \/ MouseReset \/ MouseClear \/ KbdReset
  <2>1. /\ UNCHANGED <<keyq, kbd_flush, usb_kbd_reset, beforeFlush>>
        /\ pc1 \notin {"kbdDrain", "kbdClear"}
        /\ pc1' # "kbdClear"
    BY <1>8 DEF UsbTaskDone, AdbResetSeen, MouseReset, MouseClear, KbdReset, core0Vars
  <2> QED
    BY <1>1, <2>1 DEF FlushInv, FlushDrainsQueue
<1> QED
  BY <1>2, <1>3, <1>4, <1>5, <1>6, <1>7, <1>8 DEF Next, Core0, Core1

\* A flush leaves no key from before it in the queue, even when its flag is
\* cleared by the drain that was under way.
THEOREM FlushTheorem == Spec => []FlushDrainsQueue
  BY InitTInv, TypeStep, InitFlow, OrderStep, FlushStep, PTL DEF Spec, FlushInv

-----------------------------------------------------------------------------
(* The host that polls. *)

\* It polls an address of the bus with a command that it sends.
LEMMA PollIsCommand ==
  ASSUME TInv
  PROVE  [op |-> "Talk0", addr |-> ActiveAddr] \in Commands
<1>1. ActiveAddr \in Addrs
  BY DEF TInv, TypeOK, MouseTypes, KbdTypes, ActiveAddr
<1> QED
  BY <1>1, PollAssumption DEF Commands, AddrOps

\* With it the devices do what they may do with any host.
LEMMA PollStep == TInv /\ [PollNext]_pollVars => [Next]_vars
<1> SUFFICES ASSUME TInv, PollNext \/ UNCHANGED pollVars PROVE [Next]_vars
  BY DEF pollVars
<1>1. CASE Poll
  BY <1>1, PollIsCommand DEF Poll, Next
<1>2. CASE OtherTraffic
  BY <1>2 DEF OtherTraffic, Next
<1>3. CASE DeviceStep
  BY <1>3 DEF DeviceStep, Next
<1>4. CASE UNCHANGED pollVars
  BY <1>4 DEF pollVars
<1> QED
  BY <1>1, <1>2, <1>3, <1>4 DEF PollNext

\* The devices under a host that polls and follows service requests implement
\* the devices under any host.
THEOREM PollingImplementsDevices == PollSpec => Spec
<1>1. PollInit => Init
  BY DEF PollInit
<1> QED
  BY <1>1, InitTInv, PollStep, TypeStep, PTL DEF PollSpec, Spec

\* So keys arrive once and in order, requests are raised for the other device's
\* data and skipped changes of address are ignored while the host polls, moves
\* the devices and resets them.
THEOREM PollingKeepsPromises ==
  PollSpec => /\ [](KeyAccounting /\ KeysInOrder /\ FlushDrainsQueue)
              /\ [](MouseSrqHasData /\ SrqOnlyForOthers)
              /\ SkippedMoveIgnored
  BY PollingImplementsDevices, KeyAccountingTheorem, KeyOrderTheorem, FlushTheorem,
     MouseSrqTheorem, SrqTheorem, SkippedMoveTheorem, PTL
=============================================================================
