---------------------------- MODULE CollisionProofs ----------------------------
(***************************************************************************)
(* Who answers a Talk of register 3, for any number of devices, any delays *)
(* and any bit times: only those that began in the same tick, so only      *)
(* those can be moved together.  And somebody does.                        *)
(***************************************************************************)
EXTENDS Collision, TLAPS

USE CollisionAssumption

Labels == {"idle", "delay", "startGo", "startLow", "startHigh", "bitGo", "low", "high",
           "stopGo", "stop"}

CollisionType ==
    /\ pc \in [Devices -> Labels]
    /\ timer \in [Devices -> Nat]
    /\ adb_collision \in [Devices -> BOOLEAN]
    /\ skip \in [Devices -> BOOLEAN]
    /\ addr \in [Devices -> Addrs]
    /\ answered \subseteq Devices /\ tied \subseteq Devices
    /\ sameTick \in BOOLEAN

\* The tick does not end while a device is about to begin.
AtOnce == \A d \in Devices : pc[d] = "startGo" => timer[d] = 0

\* Once somebody has begun, whoever still waits has seen it, whoever is about
\* to begin does so in the same tick, and the others did.
WhoBegan ==
    \A d \in Devices :
        /\ pc[d] = "delay" /\ tied # {} => adb_collision[d]
        /\ pc[d] = "startGo" /\ tied # {} => sameTick
        /\ pc[d] \notin {"idle", "delay", "startGo"} => d \in tied

\* Whoever was asked and is done has answered, or ignores the next move.
DoneOrSkips ==
    asked # 0 => \A d \in At(asked) : pc[d] = "idle" => d \in answered \/ skip[d]

CollInv == CollisionType /\ AtOnce /\ WhoBegan /\ DoneOrSkips /\ OnlyTiedAnswer
-----------------------------------------------------------------------------
LEMMA CollInit == Init => CollInv
<1> SUFFICES ASSUME Init PROVE CollInv
  OBVIOUS
<1>1. CollisionType
  <2>1. sameTick \in BOOLEAN
    BY Zenon DEF Init
  <2>2. adb_collision \in [Devices -> BOOLEAN] /\ skip \in [Devices -> BOOLEAN]
    BY DEF Init
  <2> QED
    BY <2>1, <2>2 DEF Init, CollisionType, Labels
<1>2. AtOnce /\ WhoBegan /\ DoneOrSkips /\ OnlyTiedAnswer
  BY DEF Init, AtOnce, WhoBegan, DoneOrSkips, OnlyTiedAnswer
<1> QED
  BY <1>1, <1>2 DEF CollInv

\* A device that pulls the bus low does not take a collision back.
LEMMA PullLowKeeps ==
    ASSUME CollInv, NEW d \in Devices, PullLow(d)
    PROVE  /\ adb_collision' \in [Devices -> BOOLEAN]
           /\ \A e \in Devices : adb_collision[e] => adb_collision'[e]
  BY DEF PullLow, CollInv, CollisionType

\* The first to begin is seen by whoever waits: all other outputs are high.
LEMMA FirstIsSeen ==
    ASSUME CollInv, NEW d \in Devices, pc[d] = "startGo", tied = {}, PullLow(d)
    PROVE  \A e \in Devices : pc[e] = "delay" => adb_collision'[e]
<1>1. \A e \in Devices : ~OutLow(e)
  BY DEF OutLow, LowPhases, CollInv, WhoBegan
<1>2. \A e \in Devices : pc[e] = "delay" => Interrupted(d, e)
  BY <1>1 DEF Interrupted, Detecting
<1> QED
  BY <1>1, <1>2 DEF PullLow

LEMMA StartLowStep ==
    ASSUME CollInv, NEW d \in Devices, StartLow(d)
    PROVE  CollInv'
<1> USE DEF CollInv, CollisionType
<1>1. /\ pc[d] = "startGo" /\ PullLow(d)
      /\ pc' = [pc EXCEPT ![d] = "startLow"] /\ timer' = [timer EXCEPT ![d] = Short]
      /\ tied' = IF tied = {} THEN {d} ELSE IF sameTick THEN tied \cup {d} ELSE tied
      /\ sameTick' = IF tied = {} THEN TRUE ELSE sameTick
      /\ UNCHANGED <<addr, skip, answered, asked>>
  BY DEF StartLow, GoTo, busVars
<1>2. d \in tied' /\ tied \subseteq tied'
  BY <1>1 DEF WhoBegan
<1>3. CollisionType'
  BY <1>1, PullLowKeeps DEF Labels
<1>4. AtOnce'
  BY <1>1 DEF AtOnce
<1>5. WhoBegan'
  <2>1. CASE tied = {}
    BY <1>1, <1>2, <2>1, FirstIsSeen DEF WhoBegan
  <2>2. CASE tied # {}
    BY <1>1, <1>2, <2>2, PullLowKeeps DEF WhoBegan
  <2> QED
    BY <2>1, <2>2
<1>6. DoneOrSkips' /\ OnlyTiedAnswer'
  BY <1>1, <1>2 DEF DoneOrSkips, OnlyTiedAnswer, At
<1> QED
  BY <1>3, <1>4, <1>5, <1>6

LEMMA GiveWayStep ==
    ASSUME CollInv, NEW d \in Devices, GiveWay(d)
    PROVE  CollInv'
<1> USE DEF CollInv, CollisionType
<1>1. /\ pc' = [pc EXCEPT ![d] = "idle"] /\ timer' = [timer EXCEPT ![d] = 0]
      /\ adb_collision' = [adb_collision EXCEPT ![d] = FALSE]
      /\ skip' = [skip EXCEPT ![d] = TRUE]
      /\ UNCHANGED <<addr, answered, asked, tied, sameTick>>
  BY DEF GiveWay, GoTo, ResetCollision
<1>2. CollisionType'
  BY <1>1 DEF Labels
<1>3. AtOnce' /\ WhoBegan' /\ DoneOrSkips' /\ OnlyTiedAnswer'
  BY <1>1 DEF AtOnce, WhoBegan, DoneOrSkips, OnlyTiedAnswer, At
<1> QED
  BY <1>2, <1>3

\* The end of the delay: nobody has begun before, or the tick is not over.
LEMMA DelayOverStep ==
    ASSUME CollInv, NEW d \in Devices, DelayOver(d)
    PROVE  CollInv'
<1> USE DEF CollInv, CollisionType
<1>1. /\ pc[d] = "delay" /\ ~adb_collision[d]
      /\ pc' = [pc EXCEPT ![d] = "startGo"] /\ timer' = [timer EXCEPT ![d] = 0]
      /\ UNCHANGED <<adb_collision, addr, skip, answered, asked, tied, sameTick>>
  BY DEF DelayOver, GoTo, Quiet, busVars
<1>2. CollisionType'
  BY <1>1 DEF Labels
<1>3. AtOnce' /\ WhoBegan' /\ DoneOrSkips' /\ OnlyTiedAnswer'
  BY <1>1 DEF AtOnce, WhoBegan, DoneOrSkips, OnlyTiedAnswer, At
<1> QED
  BY <1>2, <1>3

\* A device that has begun goes on, and in the end has answered.
LEMMA SendStep ==
    ASSUME CollInv, NEW d \in Devices,
           \/ StartHigh(d) \/ StartSent(d) \/ BitLow(d) \/ BitHigh(d) \/ BitSent(d)
           \/ EndData(d) \/ StopBit(d) \/ Sent(d)
    PROVE  CollInv'
<1> USE DEF CollInv, CollisionType
<1>1. pc[d] \notin {"idle", "delay", "startGo"}
  BY DEF StartHigh, StartSent, BitLow, BitHigh, BitSent, EndData, StopBit, Sent
<1>2. d \in tied
  BY <1>1 DEF WhoBegan
<1>3. /\ adb_collision' \in [Devices -> BOOLEAN]
      /\ \A e \in Devices \ {d} : adb_collision[e] => adb_collision'[e]
  BY PullLowKeeps DEF StartHigh, StartSent, BitLow, BitHigh, BitSent, EndData, StopBit, Sent,
                      Quiet, ResetCollision
<1>4. UNCHANGED <<addr, skip, asked, tied, sameTick>>
  BY DEF StartHigh, StartSent, BitLow, BitHigh, BitSent, EndData, StopBit, Sent, busVars
<1>5. PICK label \in Labels \ {"delay", "startGo"}, ticks \in Nat :
        /\ GoTo(d, label, ticks)
        /\ answered' = IF label = "idle" THEN answered \cup {d} ELSE answered
  BY DEF StartHigh, StartSent, BitLow, BitHigh, BitSent, EndData, StopBit, Sent, busVars, Labels
<1>6. CollisionType'
  BY <1>2, <1>3, <1>4, <1>5 DEF GoTo
<1>7. AtOnce' /\ WhoBegan' /\ DoneOrSkips' /\ OnlyTiedAnswer'
  BY <1>2, <1>3, <1>4, <1>5 DEF GoTo, AtOnce, WhoBegan, DoneOrSkips, OnlyTiedAnswer, At
<1> QED
  BY <1>6, <1>7

\* The tick ends when nobody is about to begin.
LEMMA TickStep ==
    ASSUME CollInv, Tick
    PROVE  CollInv'
<1> USE DEF CollInv, CollisionType
<1>1. /\ \A d \in Devices : pc[d] # "startGo"
      /\ timer' \in [Devices -> Nat] /\ sameTick' = FALSE
      /\ UNCHANGED <<addr, skip, answered, asked, pc, adb_collision, tied>>
  BY DEF Tick, AtOnce, busVars
<1> QED
  BY <1>1 DEF AtOnce, WhoBegan, DoneOrSkips, OnlyTiedAnswer, At

\* The commands of the host.
LEMMA HostStep ==
    ASSUME CollInv,
           \/ \E a \in Addrs, delay \in Delays : Talk3(a, delay)
           \/ \E deaf \in SUBSET Devices : Listen3(deaf)
           \/ NoMove
    PROVE  CollInv'
<1> USE DEF CollInv, CollisionType
<1>1. ASSUME NEW a \in Addrs, NEW delay \in Delays, Talk3(a, delay) PROVE CollInv'
  <2>1. /\ asked' = a /\ pc' = [d \in Devices |-> IF d \in At(a) THEN "delay" ELSE "idle"]
        /\ timer' \in [Devices -> Nat]
        /\ answered' = {} /\ tied' = {} /\ sameTick' = FALSE
        /\ UNCHANGED <<addr, skip, adb_collision>>
    BY <1>1 DEF Talk3, Delays
  <2> QED
    BY <2>1 DEF Labels, AtOnce, WhoBegan, DoneOrSkips, OnlyTiedAnswer, At
<1>2. ASSUME NEW deaf \in SUBSET Devices, Listen3(deaf) PROVE CollInv'
  <2>1. /\ addr' \in [Devices -> Addrs] /\ skip' \in [Devices -> BOOLEAN] /\ asked' = 0
        /\ UNCHANGED <<pc, timer, adb_collision, answered, tied, sameTick>>
    BY <1>2 DEF Listen3, sendVars, Free
  <2> QED
    BY <2>1 DEF AtOnce, WhoBegan, DoneOrSkips, OnlyTiedAnswer
<1>3. CASE NoMove
  BY <1>3 DEF NoMove, sendVars, AtOnce, WhoBegan, DoneOrSkips, OnlyTiedAnswer
<1> QED
  BY <1>1, <1>2, <1>3

LEMMA CollNext == CollInv /\ [Next]_vars => CollInv'
<1> SUFFICES ASSUME CollInv, [Next]_vars PROVE CollInv'
  OBVIOUS
<1>1. CASE UNCHANGED vars
  BY <1>1 DEF vars, sendVars, busVars, CollInv, CollisionType, AtOnce, WhoBegan, DoneOrSkips,
              OnlyTiedAnswer, At
<1>2. ASSUME NEW d \in Devices, DeviceStep(d) PROVE CollInv'
  BY <1>2, StartLowStep, GiveWayStep, DelayOverStep, SendStep DEF DeviceStep
<1> QED
  BY <1>1, <1>2, TickStep, HostStep DEF Next

-----------------------------------------------------------------------------
\* Whoever answers a Talk of register 3 began in the tick of the first to
\* begin: a device whose delay was longer has given way.
THEOREM OnlyTiedTheorem == Spec => []OnlyTiedAnswer
<1>1. CollInv => OnlyTiedAnswer
  BY DEF CollInv
<1> QED
  BY <1>1, CollInit, CollNext, PTL DEF Spec

\* Devices that a change of address moves together began in the same tick; the
\* others had given way and ignore it.
THEOREM MoveTogetherTheorem == Spec => MoveTogetherOnlyTied
<1>1. ASSUME CollInv, [Next]_vars
      PROVE  [\A d, e \in Devices :
                d # e /\ addr'[d] # addr[d] /\ addr'[e] # addr[e] => {d, e} \subseteq tied]_vars
  <2>1. CASE \E deaf \in SUBSET Devices : Listen3(deaf)
    <3>1. PICK deaf \in SUBSET Devices : Listen3(deaf)
      BY <2>1
    <3>2. \A d \in Devices : addr'[d] # addr[d] => d \in At(asked) /\ ~skip[d]
      BY <3>1 DEF Listen3, Moves
    <3>3. \A d \in Devices : addr'[d] # addr[d] => d \in tied
      BY <1>1, <3>1, <3>2 DEF CollInv, DoneOrSkips, OnlyTiedAnswer, Listen3, Idle
    <3> QED
      BY <3>3
  <2>2. CASE ~(\E deaf \in SUBSET Devices : Listen3(deaf))
    <3>1. UNCHANGED addr
      BY <1>1, <2>2 DEF Next, DeviceStep, GiveWay, DelayOver, StartLow, StartHigh, StartSent,
         BitLow, BitHigh, BitSent, EndData, StopBit, Sent, Tick, Talk3, NoMove, vars, busVars
    <3> QED
      BY <3>1
  <2> QED
    BY <2>1, <2>2
<1> QED
  BY <1>1, CollInit, CollNext, PTL DEF Spec, MoveTogetherOnlyTied

-----------------------------------------------------------------------------
(* Somebody answers. *)

\* From here on a device does not give way.
Past == {"bitGo", "low", "high", "stopGo", "stop"}

\* Only a device that detects collisions has seen one.
FlagInv == \A d \in Devices : ~Detecting(d) => ~adb_collision[d]

\* In the tick of the first to begin, whoever has begun still pulls the bus low.
TickInv ==
    sameTick => \A d \in Devices : pc[d] \notin {"idle", "delay", "startGo"} =>
                    pc[d] = "startLow" /\ timer[d] > 0

\* Nobody has begun and nobody has seen anything, or the first to begin has not
\* seen anybody, until a device is past its start bit or done.
WinnerInv ==
    asked # 0 =>
        \/ answered # {}
        \/ \E d \in Devices : pc[d] \in Past
        \/ \E d \in Devices : pc[d] \in {"startLow", "startHigh"} /\ ~adb_collision[d]
        \/ /\ tied = {}
           /\ \A d \in Devices : ~adb_collision[d]
           /\ \E d \in Devices : pc[d] \in {"delay", "startGo"}

AnswerInv == FlagInv /\ TickInv /\ WinnerInv

LEMMA AnswerInit == Init => AnswerInv
<1> SUFFICES ASSUME Init PROVE AnswerInv
  OBVIOUS
<1>1. sameTick = FALSE /\ asked = 0 /\ \A d \in Devices : ~adb_collision[d]
  BY DEF Init
<1> QED
  BY <1>1 DEF AnswerInv, FlagInv, TickInv, WinnerInv

\* A falling edge is seen by others only, and only if the bus was high.
LEMMA PullLowSeen ==
    ASSUME CollInv, NEW d \in Devices, PullLow(d), NEW e \in Devices,
           adb_collision'[e], ~adb_collision[e]
    PROVE  /\ e # d /\ Detecting(e) /\ ~OutLow(e)
           /\ \A f \in Devices \ {d} : ~OutLow(f)
  BY DEF PullLow, Interrupted, CollInv, CollisionType

\* The first to begin has seen nobody; the later ones of its tick begin while
\* it still pulls the bus low, so that they cause no edge.
LEMMA StartLowAnswer ==
    ASSUME CollInv, AnswerInv, NEW d \in Devices, StartLow(d)
    PROVE  AnswerInv'
<1> USE DEF CollInv, CollisionType
<1>1. /\ pc[d] = "startGo" /\ PullLow(d)
      /\ pc' = [pc EXCEPT ![d] = "startLow"] /\ timer' = [timer EXCEPT ![d] = Short]
      /\ tied' # {} /\ sameTick' = IF tied = {} THEN TRUE ELSE sameTick
      /\ UNCHANGED <<answered, asked>>
  BY DEF StartLow, GoTo, busVars
<1>2. FlagInv'
  BY <1>1, PullLowSeen DEF AnswerInv, FlagInv, Detecting
<1>3. TickInv'
  BY <1>1 DEF AnswerInv, TickInv, WhoBegan
<1>4. WinnerInv'
  <2>1. CASE asked = 0 \/ answered # {} \/ \E e \in Devices : pc[e] \in Past
    BY <1>1, <2>1 DEF AnswerInv, WinnerInv, Past
  <2>2. ASSUME NEW e \in Devices, pc[e] \in {"startLow", "startHigh"}, ~adb_collision[e]
        PROVE  WinnerInv'
    <3>1. pc[e] = "startLow" /\ e # d
      BY <1>1, <2>2 DEF AnswerInv, TickInv, WhoBegan
    <3>2. ~adb_collision'[e]
      BY <1>1, <2>2, <3>1, PullLowSeen, PullLowKeeps DEF OutLow, LowPhases
    <3> QED
      BY <1>1, <3>1, <3>2 DEF WinnerInv
  <2>3. CASE ~adb_collision[d]
    <3>1. ~adb_collision'[d]
      BY <1>1, <2>3, PullLowSeen, PullLowKeeps
    <3> QED
      BY <1>1, <3>1 DEF WinnerInv
  <2> QED
    BY <2>1, <2>2, <2>3 DEF AnswerInv, WinnerInv
<1> QED
  BY <1>2, <1>3, <1>4 DEF AnswerInv

\* Who gives way has seen somebody, who is not the first to begin.
LEMMA GiveWayAnswer ==
    ASSUME CollInv, AnswerInv, NEW d \in Devices, GiveWay(d)
    PROVE  AnswerInv'
<1> USE DEF CollInv, CollisionType
<1>1. /\ pc[d] \in {"delay", "startHigh"} /\ adb_collision[d]
      /\ pc' = [pc EXCEPT ![d] = "idle"] /\ timer' = [timer EXCEPT ![d] = 0]
      /\ adb_collision' = [adb_collision EXCEPT ![d] = FALSE]
      /\ UNCHANGED <<answered, asked, tied, sameTick>>
  BY DEF GiveWay, GoTo, ResetCollision
<1>2. FlagInv' /\ TickInv'
  BY <1>1 DEF AnswerInv, FlagInv, TickInv, Detecting
<1>3. WinnerInv'
  BY <1>1 DEF AnswerInv, WinnerInv, Past
<1> QED
  BY <1>2, <1>3 DEF AnswerInv

\* The ends of the delay and of the parts of the start bit pull nothing low.
LEMMA QuietAnswer ==
    ASSUME CollInv, AnswerInv, NEW d \in Devices, DelayOver(d) \/ StartHigh(d) \/ StartSent(d)
    PROVE  AnswerInv'
<1> USE DEF CollInv, CollisionType
<1>1. /\ UNCHANGED <<adb_collision, answered, asked, tied, sameTick>>
      /\ \/ pc[d] = "delay" /\ GoTo(d, "startGo", 0)
         \/ pc[d] = "startLow" /\ timer[d] = 0 /\ GoTo(d, "startHigh", Long)
         \/ pc[d] = "startHigh" /\ GoTo(d, "bitGo", 0)
  BY DEF DelayOver, StartHigh, StartSent, Quiet, busVars
<1>2. FlagInv' /\ TickInv'
  BY <1>1 DEF AnswerInv, FlagInv, TickInv, Detecting, GoTo
<1>3. WinnerInv'
  BY <1>1 DEF AnswerInv, WinnerInv, Past, GoTo
<1> QED
  BY <1>2, <1>3 DEF AnswerInv

\* A device past its start bit stays there until it has answered, and the tick
\* of the first to begin is over.
LEMMA PastAnswer ==
    ASSUME CollInv, AnswerInv, NEW d \in Devices,
           BitLow(d) \/ BitHigh(d) \/ BitSent(d) \/ EndData(d) \/ StopBit(d) \/ Sent(d)
    PROVE  AnswerInv'
<1> USE DEF CollInv, CollisionType
<1>1. pc[d] \in Past /\ UNCHANGED <<asked, tied, sameTick>>
  BY DEF BitLow, BitHigh, BitSent, EndData, StopBit, Sent, Past, busVars
<1>2. PICK label \in Past \cup {"idle"}, ticks \in Nat :
        /\ GoTo(d, label, ticks)
        /\ label = "idle" => answered' = answered \cup {d}
  BY DEF BitLow, BitHigh, BitSent, EndData, StopBit, Sent, Past
<1>3. TickInv'
  BY <1>1 DEF AnswerInv, TickInv, Past
<1>4. WinnerInv'
  BY <1>1, <1>2 DEF WinnerInv, GoTo
<1>5. FlagInv'
  <2>1. CASE BitLow(d) \/ StopBit(d)
    BY <2>1, PullLowSeen DEF BitLow, StopBit, GoTo, AnswerInv, FlagInv, Detecting
  <2>2. CASE BitHigh(d) \/ BitSent(d) \/ EndData(d) \/ Sent(d)
    BY <2>2 DEF BitHigh, BitSent, EndData, Sent, GoTo, Quiet, ResetCollision, AnswerInv, FlagInv,
                Detecting
  <2> QED
    BY <2>1, <2>2
<1> QED
  BY <1>3, <1>4, <1>5 DEF AnswerInv

\* A Talk of register 3 finds all flags clear.
LEMMA HostAnswer ==
    ASSUME CollInv, AnswerInv,
           \/ \E a \in Addrs, delay \in Delays : Talk3(a, delay)
           \/ \E deaf \in SUBSET Devices : Listen3(deaf)
           \/ NoMove
           \/ Tick
    PROVE  AnswerInv'
<1> USE DEF CollInv, CollisionType
<1>1. ASSUME NEW a \in Addrs, NEW delay \in Delays, Talk3(a, delay) PROVE AnswerInv'
  <2>1. /\ \A d \in Devices : ~adb_collision[d]
        /\ \E d \in Devices : pc'[d] = "delay"
        /\ tied' = {} /\ sameTick' = FALSE /\ UNCHANGED adb_collision
    BY <1>1 DEF Talk3, Idle, AnswerInv, FlagInv, Detecting, At
  <2> QED
    BY <2>1 DEF AnswerInv, FlagInv, TickInv, WinnerInv
<1>2. CASE NoMove \/ \E deaf \in SUBSET Devices : Listen3(deaf)
  <2>1. asked' = 0 /\ UNCHANGED <<pc, timer, adb_collision, sameTick>>
    BY <1>2 DEF NoMove, Listen3, sendVars
  <2> QED
    BY <2>1 DEF AnswerInv, FlagInv, TickInv, WinnerInv, Detecting
<1>3. CASE Tick
  <2>1. sameTick' = FALSE /\ UNCHANGED <<pc, adb_collision, answered, asked, tied>>
    BY <1>3 DEF Tick, busVars
  <2> QED
    BY <2>1 DEF AnswerInv, FlagInv, TickInv, WinnerInv, Detecting
<1> QED
  BY <1>1, <1>2, <1>3

LEMMA AnswerNext == CollInv /\ AnswerInv /\ [Next]_vars => AnswerInv'
<1> SUFFICES ASSUME CollInv, AnswerInv, [Next]_vars PROVE AnswerInv'
  OBVIOUS
<1>1. CASE UNCHANGED vars
  BY <1>1 DEF vars, sendVars, busVars, AnswerInv, FlagInv, TickInv, WinnerInv, Detecting
<1>2. ASSUME NEW d \in Devices, DeviceStep(d) PROVE AnswerInv'
  BY <1>2, StartLowAnswer, GiveWayAnswer, QuietAnswer, PastAnswer DEF DeviceStep
<1> QED
  BY <1>1, <1>2, HostAnswer DEF Next

\* A Talk of register 3 to an address where devices are is answered: whatever
\* their delays, they never all give way to each other.
THEOREM SomeoneAnswersTheorem == Spec => []SomeoneAnswers
<1>1. AnswerInv => SomeoneAnswers
  BY DEF AnswerInv, WinnerInv, SomeoneAnswers, Idle, Past
<1> QED
  BY <1>1, CollInit, CollNext, AnswerInit, AnswerNext, PTL DEF Spec
=============================================================================
