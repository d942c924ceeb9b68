--------------------------- MODULE MouseParserProofs ---------------------------
(***************************************************************************)
(* No movement of the mouse is lost or left unannounced but for the races  *)
(* that MouseParser names; the Macintosh holds no button that is released, *)
(* and a right click by way of Control reaches it whole.  For any number   *)
(* of movements, any sizes of the queues and any reports.                  *)
(***************************************************************************)
EXTENDS MouseParser, SequenceTheorems, TLAPS

USE SizeAssumption, ReportsAssumption

Unsent(m) == m \in Moves \ raced /\ sent[m] = "no"

\* A movement is reported once and before it is counted, and the counters are clear before m_processed
\* is cleared.
ReportInv ==
    /\ pc1 \in {"unflag", "add"} /\ report.move # NoMove => sent[report.move] = "unborn"
    /\ pc1 = "unflag" => coarse = {}
    /\ \A m \in coarse \cup reg : sent[m] # "unborn"

\* Once core 0 has read the counters, it has everything that is not sent.
RegisterInv ==
    /\ pc0 # "mark" => reg = {}
    /\ pc0 = "mark" => \A m \in Moves : Unsent(m) => m \in reg

\* What is not sent is announced: by m_ready, or by core 0 having seen it.
AnnounceInv ==
    /\ pc0 = "clear" => ~mousepending
    /\ pc1 = "usb" /\ ~missed /\ (\E m \in Moves : Unsent(m)) =>
          m_ready \/ mousepending \/ (pc0 = "clear" /\ changed)

DataInv == ReportInv /\ RegisterInv /\ MovementAccounted /\ AnnounceInv
MouseInv == TypeOK /\ DataInv

-----------------------------------------------------------------------------
(* Types. *)

LEMMA CallTypes ==
    \A choices \in SUBSET SUBSET {"left", "right"}, ctrl \in BOOLEAN :
        ClickCall(choices, ctrl) \in Calls
  BY DEF ClickCall, Calls

LEMMA OtherTypes ==
    \A do \in {"waitKeys", "waitClicks", "ctrlDown", "ctrlUp"} : Other(do) \in Calls
  BY DEF Other, Calls

LEMMA Tuples ==
    ASSUME NEW S, NEW a \in S, NEW b \in S, NEW c \in S, NEW d \in S, NEW e \in S
    PROVE  /\ <<>> \in Seq(S) /\ <<a>> \in Seq(S)
           /\ <<a, b, c, d>> \in Seq(S) /\ <<a, b, c, d, e>> \in Seq(S)
  OBVIOUS

LEMMA ButtonCallsType ==
    ASSUME NEW before \in SUBSET Buttons, NEW after \in SUBSET Buttons, NEW mode
    PROVE  ButtonCalls(before, after, mode) \in Seq(Calls)
<1> DEFINE change == ClickCall({after \ {"middle"}}, FALSE)
           first == ClickCall({{"left"}, {"left", "right"}}, FALSE)
           down == ClickCall({{"left"}}, TRUE)
           up == ClickCall({{}}, FALSE)
           press == IF "left" \in after \ before THEN <<first>> ELSE <<>>
           rest == IF Changes("right", before, after) THEN RightCalls(before, after, mode)
                   ELSE IF Changes("left", before, after) THEN <<change>> ELSE <<>>
<1>1. {after \ {"middle"}} \in SUBSET SUBSET {"left", "right"}
  BY DEF Buttons
<1>2. change \in Calls /\ first \in Calls /\ down \in Calls /\ up \in Calls
  BY <1>1, CallTypes
<1>3. /\ Other("waitKeys") \in Calls /\ Other("waitClicks") \in Calls
      /\ Other("ctrlDown") \in Calls /\ Other("ctrlUp") \in Calls
  BY OtherTypes
<1>4. /\ CtrlPress = <<Other("waitKeys"), Other("ctrlDown"), Other("waitKeys"), down>>
      /\ CtrlRelease = <<up, Other("waitClicks"), Other("waitKeys"), Other("ctrlUp"),
                         Other("waitKeys")>>
      /\ RightCalls(before, after, mode) \in {CtrlPress, CtrlRelease, <<change>>}
  BY DEF CtrlPress, CtrlRelease, RightCalls
<1>5. ButtonCalls(before, after, mode) = press \o rest
  BY DEF ButtonCalls
<1> HIDE DEF change, first, down, up
<1>6. CtrlPress \in Seq(Calls) /\ CtrlRelease \in Seq(Calls)
  BY <1>2, <1>3, <1>4, Tuples
<1>7. <<change>> \in Seq(Calls) /\ <<first>> \in Seq(Calls) /\ <<>> \in Seq(Calls)
  BY <1>2, Tuples
<1>8. press \in Seq(Calls) /\ rest \in Seq(Calls)
  BY <1>4, <1>6, <1>7
<1> HIDE DEF press, rest
<1> QED
  BY <1>5, <1>8

LEMMA TypeInit == Init => TypeOK
<1> SUFFICES ASSUME Init PROVE TypeOK
  OBVIOUS
<1>1. NoReport \in AllReports /\ NoClick \in Clicks
  BY DEF NoReport, AllReports, NoMove, NoClick, Clicks
<1>2. sent \in [Moves -> {"unborn", "no", "yes"}]
  BY DEF Init
<1>3. /\ m_processed \in BOOLEAN /\ m_ready \in BOOLEAN /\ changed \in BOOLEAN
      /\ mousepending \in BOOLEAN /\ hostCtrl \in BOOLEAN
      /\ missed \in BOOLEAN /\ dropped \in BOOLEAN /\ mixed \in BOOLEAN
  BY Zenon DEF Init
<1>4. /\ pc1 = "usb" /\ prevState \subseteq Buttons /\ report = NoReport
      /\ todo \in Seq(Calls) /\ m_right_btn_mode \in Modes /\ coarse \subseteq Moves
      /\ clicks = <<>> /\ keyq = <<>> /\ pc0 = "loop" /\ click = NoClick /\ reg \subseteq Moves
      /\ lastButtons = NoClick /\ raced \subseteq Moves /\ reports \in 0..MaxReports
  BY DEF Init, Modes
<1>5. /\ clicks \in Seq(Clicks) /\ Len(clicks) <= ClickCapacity
      /\ keyq \in Seq(BOOLEAN) /\ Len(keyq) <= KeyCapacity
  BY <1>4
<1> QED
  BY <1>1, <1>2, <1>3, <1>4, <1>5 DEF TypeOK

LEMMA Core1Type == TypeOK /\ (Parsing \/ Reset \/ \E r \in Reports : ParseStart(r)) => TypeOK'
<1> SUFFICES ASSUME TypeOK, Parsing \/ Reset \/ \E r \in Reports : ParseStart(r)
             PROVE  TypeOK'
  OBVIOUS
<1> USE DEF core1Vars, core0Vars, historyVars
<1>1. CASE \E r \in Reports : ParseStart(r)
  BY <1>1 DEF ParseStart, TypeOK
<1>2. CASE ClearProcessed
  BY <1>2 DEF ClearProcessed, TypeOK
<1>3. CASE AddMovement
  <2>1. report.buttons \subseteq Buttons /\ report.move \in Moves \cup {NoMove}
    BY DEF TypeOK, AllReports
  <2>2. coarse' \subseteq Moves /\ sent' \in [Moves -> {"unborn", "no", "yes"}]
        /\ raced' \subseteq Moves
    BY <1>3, <2>1 DEF AddMovement, TypeOK
  <2>3. m_right_btn_mode' \in Modes
    BY <1>3 DEF AddMovement, ModeAfter, Modes, TypeOK
  <2>4. todo' \in Seq(Calls)
    BY <1>3, <2>1, ButtonCallsType DEF AddMovement, TypeOK
  <2>5. mixed' \in BOOLEAN
    BY <1>3, Zenon DEF AddMovement
  <2>6. pc1' = "calls" /\ UNCHANGED <<prevState, report, reports, pc0, changed, mousepending,
                   click, reg, lastButtons, missed, dropped, m_processed, m_ready, clicks, keyq,
                   hostCtrl>>
    BY <1>3 DEF AddMovement
  <2> QED
    BY <2>2, <2>3, <2>4, <2>5, <2>6 DEF TypeOK
<1>4. CASE QueueClick
  <2>1. /\ todo \in Seq(Calls) /\ todo # <<>> /\ Head(todo) \in Calls /\ todo' = Tail(todo)
        /\ todo' \in Seq(Calls)
    BY <1>4 DEF QueueClick, TypeOK
  <2>2. clicks' \in Seq(Clicks) /\ Len(clicks') <= ClickCapacity
    <3>1. CASE Len(clicks) < ClickCapacity
      <4>1. PICK b \in Head(todo).choices :
                  clicks' = Append(clicks, [buttons |-> b, ctrl |-> Head(todo).ctrl])
        BY <1>4, <3>1 DEF QueueClick
      <4>2. [buttons |-> b, ctrl |-> Head(todo).ctrl] \in Clicks
        BY <2>1 DEF Calls, Clicks
      <4> QED
        BY <3>1, <4>1, <4>2 DEF TypeOK
    <3>2. CASE ~(Len(clicks) < ClickCapacity)
      BY <1>4, <3>2 DEF QueueClick, TypeOK
    <3> QED
      BY <3>1, <3>2
  <2>3. dropped' \in BOOLEAN
    BY <1>4 DEF QueueClick, TypeOK
  <2> QED
    BY <1>4, <2>1, <2>2, <2>3 DEF QueueClick, TypeOK
<1>5. CASE BusyWait
  BY <1>5 DEF BusyWait, TypeOK
<1>6. CASE QueueCtrl
  <2>1. keyq' \in Seq(BOOLEAN) /\ Len(keyq') <= KeyCapacity
    <3>1. (Head(todo).do = "ctrlDown") \in BOOLEAN
      OBVIOUS
    <3> DEFINE down == Head(todo).do = "ctrlDown"
    <3>2. keyq' = IF Len(keyq) < KeyCapacity THEN Append(keyq, down) ELSE keyq
      BY <1>6 DEF QueueCtrl
    <3> HIDE DEF down
    <3>3. down \in BOOLEAN
      BY <3>1 DEF down
    <3>4. CASE Len(keyq) < KeyCapacity
      <4>1. keyq' = Append(keyq, down)
        BY <3>2, <3>4
      <4> QED
        BY <3>3, <3>4, <4>1 DEF TypeOK
    <3>5. CASE ~(Len(keyq) < KeyCapacity)
      BY <3>2, <3>5 DEF TypeOK
    <3> QED
      BY <3>4, <3>5
  <2> QED
    BY <1>6, <2>1 DEF QueueCtrl, TypeOK
<1>7. CASE ParseDone
  <2>1. NoReport \in AllReports /\ report.buttons \subseteq Buttons
    BY DEF NoReport, AllReports, NoMove, TypeOK
  <2> QED
    BY <1>7, <2>1 DEF ParseDone, TypeOK
<1>8. CASE Reset
  BY <1>8 DEF Reset, TypeOK
<1> QED
  BY <1>1, <1>2, <1>3, <1>4, <1>5, <1>6, <1>7, <1>8 DEF Parsing

LEMMA Core0Type == TypeOK /\ (Core0 \/ TakeKey) => TypeOK'
<1> SUFFICES ASSUME TypeOK, Core0 \/ TakeKey PROVE TypeOK'
  OBVIOUS
<1> USE DEF core1Vars, core0Vars, historyVars
<1>1. CASE ReadReady
  <2>1. changed' \in BOOLEAN
    BY <1>1, Zenon DEF ReadReady
  <2> QED
    BY <1>1, <2>1 DEF ReadReady, TypeOK
<1>2. CASE ClearReady
  <2>1. missed' \in BOOLEAN
    BY <1>2, Zenon DEF ClearReady
  <2> QED
    BY <1>2, <2>1 DEF ClearReady, TypeOK
<1>3. CASE Talk
  BY <1>3 DEF Talk, TypeOK
<1>4. CASE TakeClick
  <2>1. click' \in Clicks /\ clicks' \in Seq(Clicks) /\ Len(clicks') <= ClickCapacity
    <3>1. CASE clicks # <<>>
      <4>1. click' = Head(clicks) /\ clicks' = Tail(clicks)
        BY <1>4, <3>1 DEF TakeClick
      <4>2. clicks \in Seq(Clicks) /\ Len(clicks) <= ClickCapacity
        BY DEF TypeOK
      <4> QED
        BY <3>1, <4>1, <4>2, HeadTailProperties
    <3>2. CASE clicks = <<>>
      <4>1. [buttons : SUBSET {"left", "right"}, ctrl : {FALSE}] \subseteq Clicks
        BY DEF Clicks
      <4> QED
        BY <1>4, <3>2, <4>1 DEF TakeClick, TypeOK
    <3> QED
      BY <3>1, <3>2
  <2> QED
    BY <1>4, <2>1 DEF TakeClick, TypeOK
<1>5. CASE ReadMovement
  BY <1>5 DEF ReadMovement, TypeOK
<1>6. CASE MarkProcessed
  BY <1>6 DEF MarkProcessed, NoClick, Clicks, TypeOK
<1>7. CASE TakeKey
  BY <1>7 DEF TakeKey, TypeOK
<1> QED
  BY <1>1, <1>2, <1>3, <1>4, <1>5, <1>6, <1>7 DEF Core0

-----------------------------------------------------------------------------
(* The movements. *)

LEMMA DataInit == Init => DataInv
  BY DEF Init, DataInv, ReportInv, RegisterInv, MovementAccounted, AnnounceInv, Unsent, NoReport

\* A report is begun: the counters are cleared if core 0 has marked them.
LEMMA ParseStartData ==
    ASSUME MouseInv, NEW r \in Reports, ParseStart(r)
    PROVE  DataInv'
<1> USE DEF MouseInv, DataInv
<1>1. /\ report' = r /\ pc1' = IF m_processed THEN "unflag" ELSE "add"
      /\ coarse' = IF m_processed THEN {} ELSE coarse
      /\ r.move # NoMove => sent[r.move] = "unborn"
      /\ UNCHANGED <<pc0, changed, mousepending, reg, sent, raced, missed, m_processed, m_ready>>
  BY DEF ParseStart, IsNext, core0Vars, historyVars
<1>2. ReportInv'
  BY <1>1 DEF ReportInv
<1>3. RegisterInv'
  BY <1>1 DEF RegisterInv, Unsent
<1>4. MovementAccounted'
  BY <1>1 DEF MovementAccounted
<1>5. AnnounceInv'
  BY <1>1 DEF AnnounceInv, Unsent
<1> QED
  BY <1>2, <1>3, <1>4, <1>5

LEMMA ClearProcessedData ==
    ASSUME MouseInv, ClearProcessed
    PROVE  DataInv'
<1> USE DEF MouseInv, DataInv
<1>1. /\ pc1 = "unflag" /\ pc1' = "add" /\ m_processed' = FALSE
      /\ UNCHANGED <<report, coarse, pc0, changed, mousepending, reg, sent, raced, missed,
                     m_ready>>
  BY DEF ClearProcessed, core0Vars, historyVars
<1> QED
  BY <1>1 DEF ReportInv, RegisterInv, MovementAccounted, AnnounceInv, Unsent

\* The movement is in the counters, which are not due to be cleared, or it has
\* raced with core 0.
LEMMA AddMovementData ==
    ASSUME MouseInv, AddMovement
    PROVE  DataInv'
<1> USE DEF MouseInv, DataInv
<1> DEFINE m == report.move
<1>1. m \in Moves \cup {NoMove} /\ NoMove \notin Moves
  BY DEF TypeOK, AllReports, Moves, NoMove
<1>2. /\ pc1 = "add" /\ pc1' = "calls"
      /\ coarse' = coarse \cup ({m} \ {NoMove})
      /\ sent' = IF m = NoMove THEN sent ELSE [sent EXCEPT ![m] = "no"]
      /\ raced' = IF m # NoMove /\ (m_processed \/ pc0 = "mark") THEN raced \cup {m} ELSE raced
      /\ UNCHANGED <<pc0, changed, mousepending, reg, missed, m_processed, m_ready>>
  BY DEF AddMovement
<1>3. m # NoMove => sent[m] = "unborn"
  BY <1>2 DEF ReportInv
<1>4. AnnounceInv'
  BY <1>2 DEF AnnounceInv
<1>5. ReportInv' /\ RegisterInv' /\ MovementAccounted'
  <2>1. CASE m = NoMove
    <3>1. UNCHANGED <<coarse, sent, raced>>
      BY <1>2, <2>1
    <3> QED
      BY <1>2, <3>1 DEF ReportInv, RegisterInv, MovementAccounted, Unsent
  <2>2. CASE m # NoMove
    <3>1. m \in Moves /\ sent' = [sent EXCEPT ![m] = "no"] /\ coarse' = coarse \cup {m}
      BY <1>1, <1>2, <2>2
    <3>2. m \notin raced' => ~m_processed /\ pc0 # "mark"
      BY <1>2, <2>2
    <3>3. raced \subseteq raced'
      BY <1>2
    <3> HIDE DEF m
    <3>4. RegisterInv'
      BY <1>2, <3>1, <3>2, <3>3 DEF RegisterInv, Unsent, TypeOK
    <3>5. MovementAccounted'
      BY <1>2, <3>1, <3>2, <3>3 DEF MovementAccounted, TypeOK
    <3>6. ReportInv'
      BY <1>2, <3>1 DEF ReportInv, TypeOK
    <3> QED
      BY <3>4, <3>5, <3>6
  <2> QED
    BY <2>1, <2>2
<1> QED
  BY <1>4, <1>5

\* The other steps of core 1 leave the counters alone; the last one announces.
LEMMA CallsData ==
    ASSUME MouseInv, QueueClick \/ BusyWait \/ QueueCtrl \/ ParseDone \/ Reset \/ TakeKey
    PROVE  DataInv'
<1> USE DEF MouseInv, DataInv
<1>1. UNCHANGED <<coarse, sent, reg, pc0, changed, mousepending, raced, m_processed>>
  BY DEF QueueClick, BusyWait, QueueCtrl, ParseDone, Reset, TakeKey, core0Vars, core1Vars,
         historyVars
<1>2. RegisterInv' /\ MovementAccounted'
  BY <1>1 DEF RegisterInv, MovementAccounted, Unsent
<1>3. CASE ParseDone
  BY <1>1, <1>2, <1>3 DEF ParseDone, ReportInv, AnnounceInv
<1>4. CASE QueueClick \/ BusyWait \/ QueueCtrl \/ Reset \/ TakeKey
  <2>1. UNCHANGED <<pc1, report, missed, m_ready>>
    BY <1>4 DEF QueueClick, BusyWait, QueueCtrl, Reset, TakeKey, core0Vars, core1Vars,
                historyVars
  <2> QED
    BY <1>1, <1>2, <2>1 DEF ReportInv, AnnounceInv, Unsent
<1> QED
  BY <1>3, <1>4

\* Core 0 takes the counters, and the announcement with them.
LEMMA Core0Data ==
    ASSUME MouseInv, Core0
    PROVE  DataInv'
<1> USE DEF MouseInv, DataInv
<1>1. UNCHANGED <<pc1, report, coarse, raced>>
  BY DEF Core0, ReadReady, ClearReady, Talk, TakeClick, ReadMovement, MarkProcessed, core1Vars,
         historyVars
<1>2. CASE ReadReady \/ ClearReady \/ Talk \/ TakeClick
  <2>1. /\ UNCHANGED <<reg, sent, m_processed>>
        /\ pc0 # "mark" /\ pc0' # "mark"
    BY <1>2 DEF ReadReady, ClearReady, Talk, TakeClick, historyVars
  <2>2. ReportInv' /\ RegisterInv' /\ MovementAccounted'
    BY <1>1, <2>1 DEF ReportInv, RegisterInv, MovementAccounted
  <2>3. AnnounceInv'
    <3>1. CASE ReadReady
      BY <1>1, <2>1, <3>1 DEF ReadReady, AnnounceInv, Unsent, historyVars
    <3>2. CASE ClearReady
      BY <1>1, <2>1, <3>2 DEF ClearReady, AnnounceInv, Unsent, TypeOK
    <3>3. CASE Talk \/ TakeClick
      BY <1>1, <2>1, <3>3 DEF Talk, TakeClick, AnnounceInv, Unsent, historyVars
    <3> QED
      BY <1>2, <3>1, <3>2, <3>3
  <2> QED
    BY <2>2, <2>3
<1>3. CASE ReadMovement
  BY <1>1, <1>3 DEF ReadMovement, ReportInv, RegisterInv, MovementAccounted, AnnounceInv, Unsent,
                    historyVars
<1>4. CASE MarkProcessed
  <2>1. /\ pc0 = "mark" /\ pc0' = "loop" /\ reg' = {} /\ m_processed' = TRUE
        /\ sent' = [m \in Moves |-> IF m \in reg THEN "yes" ELSE sent[m]]
    BY <1>4 DEF MarkProcessed
  <2>2. \A m \in Moves : ~Unsent(m)'
    BY <1>1, <2>1 DEF RegisterInv, Unsent
  <2>3. ReportInv'
    <3>1. reg \subseteq Moves /\ coarse \subseteq Moves /\ report.move \in Moves \cup {NoMove}
      BY DEF TypeOK, AllReports
    <3> QED
      BY <1>1, <2>1, <3>1 DEF ReportInv
  <2>4. RegisterInv' /\ MovementAccounted' /\ AnnounceInv'
    BY <1>1, <2>1, <2>2 DEF RegisterInv, MovementAccounted, AnnounceInv, Unsent
  <2> QED
    BY <2>3, <2>4
<1> QED
  BY <1>2, <1>3, <1>4 DEF Core0

LEMMA MouseNext == MouseInv /\ [Next]_vars => MouseInv'
<1> SUFFICES ASSUME MouseInv, [Next]_vars PROVE MouseInv'
  OBVIOUS
<1>1. CASE UNCHANGED vars
  BY <1>1 DEF vars, core1Vars, core0Vars, historyVars, MouseInv, DataInv, TypeOK, ReportInv,
              RegisterInv, MovementAccounted, AnnounceInv, Unsent
<1>2. CASE Next
  <2>1. TypeOK'
    BY <1>2, Core1Type, Core0Type DEF Next, MouseInv
  <2>2. DataInv'
    BY <1>2, ParseStartData, ClearProcessedData, AddMovementData, CallsData, Core0Data
       DEF Next, Parsing
  <2> QED
    BY <2>1, <2>2 DEF MouseInv
<1> QED
  BY <1>1, <1>2

-----------------------------------------------------------------------------
\* Whatever the two cores do, a movement is in the counters or in the register
\* until it is sent, and announced, unless it is one of the races MouseParser
\* names.
THEOREM MovementTheorem == Spec => []MovementInv
<1>1. Init => MouseInv
  BY TypeInit, DataInit DEF MouseInv
<1>2. MouseInv => MovementInv
  BY DEF MouseInv, DataInv, AnnounceInv, RegisterInv, Unsent, MovementInv, MovementAnnounced
<1> QED
  BY <1>1, <1>2, MouseNext, PTL DEF Spec

-----------------------------------------------------------------------------
(* The buttons and the Control key. *)

\* What Parse may still have to do, call by call: the press of a left button
\* comes first, then a right click in ctrl_click mode or the buttons as they are.
LeftDown == ClickCall({{"left"}, {"left", "right"}}, FALSE)
CtrlClick == ClickCall({{"left"}}, TRUE)
AllUp == ClickCall({{}}, FALSE)
AsReported == ClickCall({report.buttons \ {"middle"}}, FALSE)

Press == <<Other("waitKeys"), Other("ctrlDown"), Other("waitKeys"), CtrlClick>>
Release == <<AllUp, Other("waitClicks"), Other("waitKeys"), Other("ctrlUp"), Other("waitKeys")>>

\* The buttons the Macintosh sees once core 0 has taken all clicks.
InRegister == pc0 \in {"read", "mark"}
Latest == IF clicks # <<>> THEN clicks[Len(clicks)]
          ELSE IF InRegister THEN click ELSE lastButtons

\* No button is down that is not; the left one may stand for the right one.
Held(seen, buttons) ==
    /\ "left" \in seen => buttons \cap {"left", "right"} # {}
    /\ "right" \in seen => "right" \in buttons
LatestHeld(buttons) == ~dropped => Held(Latest.buttons, buttons)

\* A right click is still on its way, or what the Macintosh has last seen.
CtrlClickComing ==
    \/ \E k \in 1..Len(clicks) : clicks[k].ctrl
    \/ IF InRegister THEN click.ctrl ELSE lastButtons.ctrl

\* Control is down only with the right button and in its mode.
CtrlHeld(buttons) ==
    ~mixed /\ hostCtrl => "right" \in buttons /\ m_right_btn_mode = "ctrl_click"

PressStage ==
    /\ "right" \in report.buttons /\ m_right_btn_mode = "ctrl_click"
    /\ \/ todo = <<LeftDown>> \o Press /\ keyq = <<>>
       \/ todo = Press /\ keyq = <<>>
       \/ todo = <<Other("ctrlDown"), Other("waitKeys"), CtrlClick>> /\ keyq = <<>>
       \/ todo = <<Other("waitKeys"), CtrlClick>> /\ (keyq = <<TRUE>> \/ (keyq = <<>> /\ hostCtrl))
       \/ todo = <<CtrlClick>> /\ keyq = <<>> /\ hostCtrl

\* Once the release of the click is out of the queue, no right click is left
\* when Control goes up.
ReleaseStage ==
    \/ todo = <<LeftDown>> \o Release /\ keyq = <<>>
    \/ todo = Release /\ keyq = <<>>
    \/ /\ todo = <<Other("waitClicks"), Other("waitKeys"), Other("ctrlUp"), Other("waitKeys")>>
       /\ keyq = <<>>
       /\ ~dropped => Latest = NoClick
    \/ /\ \/ todo = <<Other("waitKeys"), Other("ctrlUp"), Other("waitKeys")>> /\ keyq = <<>>
          \/ todo = <<Other("ctrlUp"), Other("waitKeys")>> /\ keyq = <<>>
          \/ todo = <<Other("waitKeys")>> /\ (keyq = <<FALSE>> \/ (keyq = <<>> /\ ~hostCtrl))
       /\ ~dropped => ~CtrlClickComing
       /\ LatestHeld(report.buttons)

PlainStage ==
    /\ keyq = <<>> /\ CtrlHeld(report.buttons)
    /\ \/ todo = <<LeftDown, AsReported>>
       \/ todo = <<AsReported>>
       \/ todo = <<>> /\ LatestHeld(report.buttons)

CallsInv == pc1 = "calls" => PressStage \/ ReleaseStage \/ PlainStage

\* Between two reports.
RestInv == pc1 # "calls" => keyq = <<>> /\ LatestHeld(prevState) /\ CtrlHeld(prevState)

\* Control is down for every right click that core 0 has or will have.
CtrlInv ==
    ~dropped =>
        /\ pc0 = "take" => clicks # <<>>
        /\ CtrlClickComing \/ lastButtons.ctrl => hostCtrl

ClickInv == CallsInv /\ RestInv /\ CtrlInv

-----------------------------------------------------------------------------
(* Sequences of calls. *)

LEMMA HeadTail ==
    ASSUME NEW a, NEW b, NEW c, NEW d, NEW e
    PROVE  /\ Head(<<a>>) = a /\ Tail(<<a>>) = <<>>
           /\ Head(<<a, b>>) = a /\ Tail(<<a, b>>) = <<b>>
           /\ Head(<<a, b, c>>) = a /\ Tail(<<a, b, c>>) = <<b, c>>
           /\ Head(<<a, b, c, d>>) = a /\ Tail(<<a, b, c, d>>) = <<b, c, d>>
           /\ Head(<<a, b, c, d, e>>) = a /\ Tail(<<a, b, c, d, e>>) = <<b, c, d, e>>
  OBVIOUS

LEMMA OneAndOne ==
    ASSUME NEW S, NEW a \in S, NEW b \in S
    PROVE  <<a>> \o <<b>> = <<a, b>>
<1>1. <<a>> \o <<b>> \in Seq(S) /\ Len(<<a>> \o <<b>>) = 2
  OBVIOUS
<1>2. (<<a>> \o <<b>>)[1] = a /\ (<<a>> \o <<b>>)[2] = b
  OBVIOUS
<1>3. <<a, b>> \in Seq(S) /\ Len(<<a, b>>) = 2 /\ <<a, b>>[1] = a /\ <<a, b>>[2] = b
  OBVIOUS
<1>4. \A i \in 1..2 : i = 1 \/ i = 2
  OBVIOUS
<1> QED
  BY <1>1, <1>2, <1>3, <1>4, SeqEqual

LEMMA FirstOf ==
    ASSUME NEW S, NEW a \in S, NEW s \in Seq(S)
    PROVE  <<a>> \o s # <<>> /\ Head(<<a>> \o s) = a /\ Tail(<<a>> \o s) = s
<1>1. /\ <<a>> \o s \in Seq(S) /\ Len(<<a>> \o s) = 1 + Len(s)
      /\ \A i \in 1..(1 + Len(s)) : (<<a>> \o s)[i] = IF i = 1 THEN a ELSE s[i - 1]
  BY DEF Seq
<1>2. <<a>> \o s # <<>>
  BY <1>1
<1>3. Head(<<a>> \o s) = a
  BY <1>1, <1>2, HeadTailProperties
<1>4. /\ Tail(<<a>> \o s) \in Seq(S) /\ Len(Tail(<<a>> \o s)) = Len(s)
      /\ \A i \in 1..Len(s) : Tail(<<a>> \o s)[i] = s[i]
  BY <1>1, <1>2, HeadTailProperties
<1> QED
  BY <1>2, <1>3, <1>4, SeqEqual

\* What each stage does first, and what it leaves.
LEMMA StageSteps ==
    LET keys == Other("waitKeys")
        taken == Other("waitClicks")
        down == Other("ctrlDown")
        up == Other("ctrlUp")
        First(stage, call, rest) == stage # <<>> /\ Head(stage) = call /\ Tail(stage) = rest
    IN  /\ First(<<LeftDown>> \o Press, LeftDown, Press)
        /\ First(Press, keys, <<down, keys, CtrlClick>>)
        /\ First(<<down, keys, CtrlClick>>, down, <<keys, CtrlClick>>)
        /\ First(<<keys, CtrlClick>>, keys, <<CtrlClick>>)
        /\ First(<<CtrlClick>>, CtrlClick, <<>>)
        /\ First(<<LeftDown>> \o Release, LeftDown, Release)
        /\ First(Release, AllUp, <<taken, keys, up, keys>>)
        /\ First(<<taken, keys, up, keys>>, taken, <<keys, up, keys>>)
        /\ First(<<keys, up, keys>>, keys, <<up, keys>>)
        /\ First(<<up, keys>>, up, <<keys>>)
        /\ First(<<keys>>, keys, <<>>)
        /\ First(<<LeftDown, AsReported>>, LeftDown, <<AsReported>>)
        /\ First(<<AsReported>>, AsReported, <<>>)
<1>1. LeftDown \in Calls /\ AllUp \in Calls /\ CtrlClick \in Calls
  BY CallTypes DEF LeftDown, AllUp, CtrlClick
<1>2. Press \in Seq(Calls) /\ Release \in Seq(Calls)
  BY <1>1, OtherTypes, Tuples DEF Press, Release
<1>3. /\ <<LeftDown>> \o Press # <<>> /\ Head(<<LeftDown>> \o Press) = LeftDown
      /\ Tail(<<LeftDown>> \o Press) = Press
      /\ <<LeftDown>> \o Release # <<>> /\ Head(<<LeftDown>> \o Release) = LeftDown
      /\ Tail(<<LeftDown>> \o Release) = Release
  BY <1>1, <1>2, FirstOf
<1>4. /\ Press # <<>> /\ Head(Press) = Other("waitKeys")
      /\ Tail(Press) = <<Other("ctrlDown"), Other("waitKeys"), CtrlClick>>
  BY HeadTail DEF Press
<1>5. /\ Release # <<>> /\ Head(Release) = AllUp
      /\ Tail(Release) = <<Other("waitClicks"), Other("waitKeys"), Other("ctrlUp"),
                           Other("waitKeys")>>
  BY HeadTail DEF Release
<1> QED
  BY <1>3, <1>4, <1>5, HeadTail

LEMMA CallKinds ==
    /\ LeftDown.do = "click" /\ ~LeftDown.ctrl
    /\ CtrlClick.do = "click" /\ CtrlClick.ctrl /\ CtrlClick.choices = {{"left"}}
    /\ AllUp.do = "click" /\ ~AllUp.ctrl /\ AllUp.choices = {{}}
    /\ AsReported.do = "click" /\ ~AsReported.ctrl
    /\ AsReported.choices = {report.buttons \ {"middle"}}
    /\ \A do \in {"waitKeys", "waitClicks", "ctrlDown", "ctrlUp"} : Other(do).do = do
  BY DEF LeftDown, CtrlClick, AllUp, AsReported, ClickCall, Other

\* A click that is queued is the last one the Macintosh will see.
LEMMA ClickQueued ==
    ASSUME TypeOK, QueueClick, ~dropped'
    PROVE  /\ ~dropped /\ clicks' # <<>>
           /\ Latest'.buttons \in Head(todo).choices /\ Latest'.ctrl = Head(todo).ctrl
           /\ CtrlClickComing' => CtrlClickComing \/ Head(todo).ctrl
<1>1. Len(clicks) < ClickCapacity /\ ~dropped
  BY DEF QueueClick
<1>2. PICK b \in Head(todo).choices :
          clicks' = Append(clicks, [buttons |-> b, ctrl |-> Head(todo).ctrl])
  BY <1>1 DEF QueueClick
<1> DEFINE c == [buttons |-> b, ctrl |-> Head(todo).ctrl]
<1>3. c.buttons = b /\ c.ctrl = Head(todo).ctrl
  OBVIOUS
<1>4. clicks \in Seq(Clicks) /\ c \in Clicks
  <2>1. Head(todo) \in Calls
    BY DEF QueueClick, TypeOK
  <2> QED
    BY <2>1 DEF TypeOK, Calls, Clicks
<1>5. UNCHANGED <<pc0, click, lastButtons>>
  BY DEF QueueClick, core0Vars
<1> HIDE DEF c
<1>6. /\ clicks' # <<>> /\ clicks'[Len(clicks')] = c
      /\ \A k \in 1..Len(clicks') :
            (k \in 1..Len(clicks) /\ clicks'[k] = clicks[k]) \/ clicks'[k] = c
  <2>1. clicks' = Append(clicks, c)
    BY <1>2 DEF c
  <2> QED
    BY <1>4, <2>1, AppendProperties
<1>7. Latest' = c
  BY <1>6 DEF Latest
<1>8. CtrlClickComing' => CtrlClickComing \/ c.ctrl
  BY <1>5, <1>6 DEF CtrlClickComing, InRegister
<1> QED
  BY <1>1, <1>3, <1>6, <1>7, <1>8

-----------------------------------------------------------------------------
(* The steps. *)

LEMMA ClickInit == Init => ClickInv
  BY DEF Init, ClickInv, CallsInv, RestInv, CtrlInv, LatestHeld, Latest, Held, InRegister, CtrlHeld,
         CtrlClickComing, NoClick


\* The stage that Parse begins with.
LEMMA FirstCalls ==
    ASSUME NEW before \in SUBSET Buttons, report.buttons \in SUBSET Buttons, NEW mode
    PROVE  LET calls == ButtonCalls(before, report.buttons, mode)
               right == Changes("right", before, report.buttons)
               left == Changes("left", before, report.buttons)
           IN  /\ right /\ mode = "ctrl_click" /\ "right" \in report.buttons =>
                      calls \in {<<LeftDown>> \o Press, Press}
               /\ right /\ mode = "ctrl_click" /\ "right" \notin report.buttons =>
                      calls \in {<<LeftDown>> \o Release, Release}
               /\ right /\ mode # "ctrl_click" => calls \in {<<LeftDown, AsReported>>, <<AsReported>>}
               /\ ~right /\ left => calls \in {<<LeftDown, AsReported>>, <<AsReported>>}
               /\ ~right /\ ~left => calls = <<>>
<1> DEFINE after == report.buttons
           calls == ButtonCalls(before, after, mode)
           right == Changes("right", before, after)
           left == Changes("left", before, after)
           press == IF "left" \in after \ before THEN <<LeftDown>> ELSE <<>>
           rest == IF right THEN RightCalls(before, after, mode)
                   ELSE IF left THEN <<AsReported>> ELSE <<>>
<1>1. calls = press \o rest
  BY DEF ButtonCalls, LeftDown, AsReported
<1>2. /\ mode = "ctrl_click" /\ "right" \in after => RightCalls(before, after, mode) = Press
      /\ mode = "ctrl_click" /\ "right" \notin after => RightCalls(before, after, mode) = Release
      /\ mode # "ctrl_click" => RightCalls(before, after, mode) = <<AsReported>>
  BY DEF RightCalls, Press, Release, CtrlPress, CtrlRelease, CtrlClick, AllUp, AsReported
<1>3. ~left => "left" \notin after \ before
  BY DEF Changes
<1>4. {after \ {"middle"}} \in SUBSET SUBSET {"left", "right"}
  BY DEF Buttons
<1>5. LeftDown \in Calls /\ AllUp \in Calls /\ CtrlClick \in Calls /\ AsReported \in Calls
  BY <1>4, CallTypes DEF LeftDown, AllUp, CtrlClick, AsReported
<1>6. Press \in Seq(Calls) /\ Release \in Seq(Calls) /\ <<AsReported>> \in Seq(Calls)
  BY <1>5, OtherTypes, Tuples DEF Press, Release
<1>7. \A t \in Seq(Calls) : <<>> \o t = t
  OBVIOUS
<1>8. <<LeftDown>> \o <<AsReported>> = <<LeftDown, AsReported>> /\ <<>> \o <<>> = <<>>
  BY <1>5, <1>7, OneAndOne, Tuples
<1>9. press \in {<<LeftDown>>, <<>>} /\ (~left => press = <<>>)
  BY <1>3
<1> HIDE DEF press, right, left, calls, after
<1>10. CASE right
  <2>1. rest = RightCalls(before, after, mode)
    BY <1>10
  <2> HIDE DEF rest
  <2> QED
    BY <1>1, <1>2, <1>6, <1>7, <1>8, <1>9, <1>10, <2>1 DEF after, calls, right, left
<1>11. CASE ~right /\ left
  <2>1. rest = <<AsReported>>
    BY <1>11
  <2> HIDE DEF rest
  <2> QED
    BY <1>1, <1>6, <1>7, <1>8, <1>9, <1>11, <2>1 DEF after, calls, right, left
<1>12. CASE ~right /\ ~left
  <2>1. rest = <<>>
    BY <1>12
  <2> HIDE DEF rest
  <2> QED
    BY <1>1, <1>8, <1>9, <1>12, <2>1 DEF after, calls, right, left
<1> QED
  BY <1>10, <1>11, <1>12

LEMMA AddMovementClick ==
    ASSUME MouseInv, ClickInv, AddMovement
    PROVE  ClickInv'
<1>1. /\ pc1 = "add" /\ pc1' = "calls"
      /\ m_right_btn_mode' = ModeAfter(prevState, report.buttons)
      /\ todo' = ButtonCalls(prevState, report.buttons, m_right_btn_mode')
      /\ mixed' = (mixed \/ (m_right_btn_mode' # m_right_btn_mode /\ "right" \in prevState))
      /\ UNCHANGED <<prevState, report, pc0, click, lastButtons, dropped, clicks, keyq, hostCtrl>>
  BY DEF AddMovement
<1>2. prevState \in SUBSET Buttons /\ report.buttons \in SUBSET Buttons
  BY DEF MouseInv, TypeOK, AllReports
<1>3. keyq = <<>> /\ LatestHeld(prevState) /\ CtrlHeld(prevState)
  BY <1>1 DEF ClickInv, RestInv
<1>4. CtrlInv'
  BY <1>1 DEF ClickInv, CtrlInv, CtrlClickComing, InRegister
<1>5. PressStage' \/ ReleaseStage' \/ PlainStage'
  <2> DEFINE right == Changes("right", prevState, report.buttons)
             left == Changes("left", prevState, report.buttons)
  <2>1. /\ right /\ m_right_btn_mode' = "ctrl_click" /\ "right" \in report.buttons =>
              todo' \in {<<LeftDown>> \o Press, Press}
        /\ right /\ m_right_btn_mode' = "ctrl_click" /\ "right" \notin report.buttons =>
              todo' \in {<<LeftDown>> \o Release, Release}
        /\ right /\ m_right_btn_mode' # "ctrl_click" =>
              todo' \in {<<LeftDown, AsReported>>, <<AsReported>>}
        /\ ~right /\ left => todo' \in {<<LeftDown, AsReported>>, <<AsReported>>}
        /\ ~right /\ ~left => todo' = <<>>
    BY <1>1, <1>2, FirstCalls
  <2>2. /\ right <=> (("right" \in prevState) # ("right" \in report.buttons))
        /\ left <=> (("left" \in prevState) # ("left" \in report.buttons))
    BY DEF Changes
  <2>3. AsReported' = AsReported /\ Latest' = Latest
    BY <1>1 DEF AsReported, Latest, InRegister
  <2> HIDE DEF right, left
  <2>4. CASE right /\ m_right_btn_mode' = "ctrl_click"
    <3>1. CASE "right" \in report.buttons
      BY <1>1, <1>3, <2>1, <2>4, <3>1 DEF PressStage
    <3>2. CASE "right" \notin report.buttons
      BY <1>1, <1>3, <2>1, <2>4, <3>2 DEF ReleaseStage
    <3> QED
      BY <3>1, <3>2
  <2>5. CASE right => m_right_btn_mode' # "ctrl_click"
    <3>1. CtrlHeld(report.buttons)'
      BY <1>1, <1>3, <2>2, <2>5, Zenon DEF CtrlHeld
    <3>2. ~right /\ ~left => LatestHeld(report.buttons)'
      <4>1. ~right /\ ~left => \A seen : Held(seen, prevState) => Held(seen, report.buttons)
        BY <2>2 DEF Held
      <4> QED
        BY <1>1, <1>3, <2>3, <4>1 DEF LatestHeld
    <3>3. todo' \in {<<LeftDown, AsReported>>, <<AsReported>>} \/ (todo' = <<>> /\ ~right /\ ~left)
      BY <2>1, <2>5
    <3>4. PlainStage'
      BY <1>1, <1>3, <2>3, <3>1, <3>2, <3>3 DEF PlainStage
    <3> QED
      BY <3>4
  <2> QED
    BY <2>4, <2>5
<1> QED
  BY <1>1, <1>4, <1>5 DEF ClickInv, CallsInv, RestInv

\* The steps of the stages, by what the next call does.
LEMMA ClickStages ==
    ASSUME CallsInv, pc1 = "calls", todo # <<>>, Head(todo).do = "click"
    PROVE  /\ keyq = <<>>
           /\ \/ /\ Head(todo) = LeftDown /\ Tail(todo) = Press
                 /\ "right" \in report.buttons /\ m_right_btn_mode = "ctrl_click"
              \/ Head(todo) = LeftDown /\ Tail(todo) = Release
              \/ Head(todo) = LeftDown /\ Tail(todo) = <<AsReported>> /\ CtrlHeld(report.buttons)
              \/ /\ Head(todo) = CtrlClick /\ Tail(todo) = <<>> /\ hostCtrl
                 /\ "right" \in report.buttons /\ m_right_btn_mode = "ctrl_click"
              \/ /\ Head(todo) = AllUp
                 /\ Tail(todo) = <<Other("waitClicks"), Other("waitKeys"), Other("ctrlUp"),
                                   Other("waitKeys")>>
              \/ Head(todo) = AsReported /\ Tail(todo) = <<>> /\ CtrlHeld(report.buttons)
<1>1. /\ Other("waitKeys").do # "click" /\ Other("waitClicks").do # "click"
      /\ Other("ctrlDown").do # "click" /\ Other("ctrlUp").do # "click"
  BY CallKinds
<1>2. CASE PressStage
  BY <1>1, <1>2, StageSteps DEF PressStage
<1>3. CASE ReleaseStage
  BY <1>1, <1>3, StageSteps DEF ReleaseStage
<1>4. CASE PlainStage
  BY <1>4, StageSteps DEF PlainStage
<1> QED
  BY <1>2, <1>3, <1>4 DEF CallsInv

LEMMA WaitStages ==
    ASSUME CallsInv, pc1 = "calls", todo # <<>>, Head(todo).do \in {"waitKeys", "waitClicks"}
    PROVE  \/ /\ Head(todo).do = "waitKeys"
              /\ "right" \in report.buttons /\ m_right_btn_mode = "ctrl_click"
              /\ \/ Tail(todo) = <<Other("ctrlDown"), Other("waitKeys"), CtrlClick>>
                 \/ Tail(todo) = <<CtrlClick>> /\ (keyq = <<>> => hostCtrl)
           \/ /\ Head(todo).do = "waitClicks" /\ keyq = <<>>
              /\ Tail(todo) = <<Other("waitKeys"), Other("ctrlUp"), Other("waitKeys")>>
              /\ ~dropped => Latest = NoClick
           \/ /\ Head(todo).do = "waitKeys"
              /\ \/ Tail(todo) = <<Other("ctrlUp"), Other("waitKeys")>>
                 \/ Tail(todo) = <<>> /\ (keyq = <<>> => ~hostCtrl)
              /\ ~dropped => ~CtrlClickComing
              /\ LatestHeld(report.buttons)
<1>1. Other("waitKeys").do = "waitKeys" /\ Other("waitClicks").do = "waitClicks"
  BY CallKinds
<1>2. /\ Other("ctrlDown").do \notin {"waitKeys", "waitClicks"}
      /\ Other("ctrlUp").do \notin {"waitKeys", "waitClicks"}
      /\ LeftDown.do \notin {"waitKeys", "waitClicks"} /\ AllUp.do \notin {"waitKeys", "waitClicks"}
      /\ CtrlClick.do \notin {"waitKeys", "waitClicks"}
      /\ AsReported.do \notin {"waitKeys", "waitClicks"}
  BY CallKinds
<1>3. CASE PressStage
  <2>1. CASE /\ todo = <<Other("waitKeys"), CtrlClick>>
             /\ keyq = <<TRUE>> \/ (keyq = <<>> /\ hostCtrl)
    <3>1. keyq = <<>> => hostCtrl
      BY <2>1
    <3> QED
      BY <1>1, <1>3, <2>1, <3>1, StageSteps DEF PressStage
  <2>2. CASE todo \in {<<LeftDown>> \o Press, Press, <<CtrlClick>>,
                       <<Other("ctrlDown"), Other("waitKeys"), CtrlClick>>}
    BY <1>1, <1>2, <1>3, <2>2, StageSteps DEF PressStage
  <2> QED
    BY <1>3, <2>1, <2>2 DEF PressStage
<1>4. CASE ReleaseStage
  <2>1. CASE /\ todo = <<Other("waitKeys")>>
             /\ keyq = <<FALSE>> \/ (keyq = <<>> /\ ~hostCtrl)
             /\ ~dropped => ~CtrlClickComing
             /\ LatestHeld(report.buttons)
    <3>1. keyq = <<>> => ~hostCtrl
      BY <2>1
    <3> QED
      BY <1>1, <2>1, <3>1, StageSteps
  <2>2. CASE /\ todo \in {<<Other("waitKeys"), Other("ctrlUp"), Other("waitKeys")>>,
                          <<Other("ctrlUp"), Other("waitKeys")>>}
             /\ ~dropped => ~CtrlClickComing
             /\ LatestHeld(report.buttons)
    BY <1>1, <1>2, <2>2, StageSteps
  <2>3. CASE \/ todo \in {<<LeftDown>> \o Release, Release}
             \/ /\ todo = <<Other("waitClicks"), Other("waitKeys"), Other("ctrlUp"),
                            Other("waitKeys")>>
                /\ keyq = <<>>
                /\ ~dropped => Latest = NoClick
    BY <1>1, <1>2, <2>3, StageSteps
  <2> QED
    BY <1>4, <2>1, <2>2, <2>3 DEF ReleaseStage
<1>5. CASE PlainStage
  BY <1>2, <1>5, StageSteps DEF PlainStage
<1> QED
  BY <1>3, <1>4, <1>5 DEF CallsInv

LEMMA CtrlStages ==
    ASSUME CallsInv, pc1 = "calls", todo # <<>>, Head(todo).do \in {"ctrlDown", "ctrlUp"}
    PROVE  /\ keyq = <<>>
           /\ \/ /\ Head(todo).do = "ctrlDown" /\ Tail(todo) = <<Other("waitKeys"), CtrlClick>>
                 /\ "right" \in report.buttons /\ m_right_btn_mode = "ctrl_click"
              \/ /\ Head(todo).do = "ctrlUp" /\ Tail(todo) = <<Other("waitKeys")>>
                 /\ ~dropped => ~CtrlClickComing
                 /\ LatestHeld(report.buttons)
<1>1. Other("ctrlDown").do = "ctrlDown" /\ Other("ctrlUp").do = "ctrlUp"
  BY CallKinds
<1>2. /\ Other("waitKeys").do \notin {"ctrlDown", "ctrlUp"}
      /\ Other("waitClicks").do \notin {"ctrlDown", "ctrlUp"}
      /\ LeftDown.do \notin {"ctrlDown", "ctrlUp"} /\ AllUp.do \notin {"ctrlDown", "ctrlUp"}
      /\ CtrlClick.do \notin {"ctrlDown", "ctrlUp"} /\ AsReported.do \notin {"ctrlDown", "ctrlUp"}
  BY CallKinds
<1>3. CASE PressStage
  BY <1>1, <1>2, <1>3, StageSteps DEF PressStage
<1>4. CASE ReleaseStage
  BY <1>1, <1>2, <1>4, StageSteps DEF ReleaseStage
<1>5. CASE PlainStage
  BY <1>2, <1>5, StageSteps DEF PlainStage
<1> QED
  BY <1>3, <1>4, <1>5 DEF CallsInv

\* A queued click supersedes what the Macintosh saw before it.
LEMMA QueueClickClick ==
    ASSUME MouseInv, ClickInv, QueueClick
    PROVE  ClickInv'
<1>1. /\ pc1 = "calls" /\ pc1' = "calls" /\ todo # <<>> /\ Head(todo).do = "click"
      /\ todo' = Tail(todo)
      /\ UNCHANGED <<report, m_right_btn_mode, keyq, hostCtrl, mixed, pc0, lastButtons>>
  BY DEF QueueClick, core0Vars
<1>2. ~dropped' => /\ ~dropped /\ clicks' # <<>>
                   /\ Latest'.buttons \in Head(todo).choices /\ Latest'.ctrl = Head(todo).ctrl
                   /\ CtrlClickComing' => CtrlClickComing \/ Head(todo).ctrl
  BY ClickQueued DEF MouseInv
<1>3. Latest'.buttons \in {{}} /\ Latest'.ctrl = FALSE /\ ~dropped' => Latest' = NoClick
  <2>1. ~dropped' => Latest' \in Clicks
    <3>1. clicks' \in Seq(Clicks)
      BY Core1Type DEF MouseInv, Parsing, TypeOK
    <3> QED
      BY <1>2, <3>1 DEF Latest
  <2> QED
    BY <2>1 DEF Clicks, NoClick
<1>4. CtrlHeld(report.buttons) => CtrlHeld(report.buttons)'
  BY <1>1 DEF CtrlHeld
<1>5. AsReported' = AsReported
  BY <1>1 DEF AsReported
<1>6. (~dropped' => Latest'.buttons = {"left"} /\ "right" \in report.buttons)
          => LatestHeld(report.buttons)'
  BY <1>1 DEF LatestHeld, Held
<1>7. (~dropped' => Latest'.buttons = report.buttons \ {"middle"}) => LatestHeld(report.buttons)'
  BY <1>1 DEF LatestHeld, Held
<1>8. CallsInv
  BY DEF ClickInv
<1>9. /\ PressStage' \/ ReleaseStage' \/ PlainStage'
      /\ Head(todo).ctrl => hostCtrl
  <2>1. CASE Head(todo) = LeftDown
    <3>1. ~Head(todo).ctrl
      BY <2>1, CallKinds
    <3>2. /\ keyq' = <<>>
          /\ \/ todo' = Press /\ "right" \in report'.buttons /\ m_right_btn_mode' = "ctrl_click"
             \/ todo' = Release
             \/ todo' = <<AsReported>>' /\ CtrlHeld(report.buttons)'
      <4>1. Head(todo) # CtrlClick /\ (Head(todo) = AllUp => FALSE) /\ Head(todo) # AsReported
        <5>1. LeftDown.choices = {{"left"}, {"left", "right"}}
          BY DEF LeftDown, ClickCall
        <5>2. {"left"} # {"left", "right"}
          OBVIOUS
        <5> QED
          BY <2>1, <5>1, <5>2, CallKinds
      <4> QED
        BY <1>1, <1>4, <1>5, <1>8, <4>1, ClickStages
    <3> QED
      BY <3>1, <3>2 DEF PressStage, ReleaseStage, PlainStage
  <2>2. CASE /\ Head(todo) = CtrlClick /\ Tail(todo) = <<>> /\ hostCtrl /\ keyq = <<>>
             /\ "right" \in report.buttons /\ m_right_btn_mode = "ctrl_click"
    <3>1. LatestHeld(report.buttons)'
      BY <1>2, <1>6, <2>2, CallKinds
    <3>2. CtrlHeld(report.buttons)'
      BY <1>1, <2>2 DEF CtrlHeld
    <3> QED
      BY <1>1, <2>2, <3>1, <3>2 DEF PlainStage
  <2>3. CASE /\ Head(todo) = AllUp /\ keyq = <<>>
             /\ Tail(todo) = <<Other("waitClicks"), Other("waitKeys"), Other("ctrlUp"),
                               Other("waitKeys")>>
    <3>1. ~dropped' => Latest' = NoClick
      <4>1. ~dropped' => Latest'.ctrl = FALSE
        <5>1. AllUp.ctrl = FALSE
          BY DEF AllUp, ClickCall
        <5> QED
          BY <1>2, <2>3, <5>1
      <4> QED
        BY <1>2, <1>3, <2>3, <4>1, CallKinds
    <3> QED
      BY <1>1, <2>3, <3>1, CallKinds DEF ReleaseStage
  <2>4. CASE Head(todo) = AsReported /\ Tail(todo) = <<>> /\ keyq = <<>> /\ CtrlHeld(report.buttons)
    <3>1. LatestHeld(report.buttons)'
      BY <1>2, <1>7, <2>4, CallKinds
    <3> QED
      BY <1>1, <1>4, <2>4, <3>1, CallKinds DEF PlainStage
  <2> QED
    BY <1>1, <1>8, <2>1, <2>2, <2>3, <2>4, ClickStages
<1>10. CtrlInv'
  BY <1>1, <1>2, <1>9 DEF ClickInv, CtrlInv
<1> QED
  BY <1>1, <1>9, <1>10 DEF ClickInv, CallsInv, RestInv

\* Once the queues are empty core 0 has what Parse waited for.
LEMMA BusyWaitClick ==
    ASSUME MouseInv, ClickInv, BusyWait
    PROVE  ClickInv'
<1>1. /\ pc1 = "calls" /\ pc1' = "calls" /\ todo # <<>> /\ todo' = Tail(todo)
      /\ \/ Head(todo).do = "waitKeys" /\ keyq = <<>>
         \/ Head(todo).do = "waitClicks" /\ clicks = <<>>
      /\ UNCHANGED <<report, m_right_btn_mode, clicks, keyq, hostCtrl, mixed, dropped, pc0, click,
                     lastButtons>>
  BY DEF BusyWait, core0Vars, historyVars
<1>2. Latest' = Latest /\ CtrlClickComing' = CtrlClickComing
  BY <1>1 DEF Latest, CtrlClickComing, InRegister
<1>3. LatestHeld(report.buttons)' = LatestHeld(report.buttons)
  BY <1>1, <1>2 DEF LatestHeld
<1>4. CtrlInv'
  BY <1>1, <1>2 DEF ClickInv, CtrlInv
<1>5. CallsInv
  BY DEF ClickInv
<1>6. PressStage' \/ ReleaseStage' \/ PlainStage'
  <2>1. CASE Head(todo).do = "waitClicks"
    <3>1. /\ Tail(todo) = <<Other("waitKeys"), Other("ctrlUp"), Other("waitKeys")>>
          /\ keyq = <<>> /\ clicks = <<>> /\ (~dropped => Latest = NoClick)
      BY <1>1, <1>5, <2>1, WaitStages
    <3>2. ~dropped => ~CtrlClickComing
      BY <3>1 DEF CtrlClickComing, Latest, NoClick
    <3>3. LatestHeld(report.buttons)
      BY <3>1 DEF LatestHeld, Held, NoClick
    <3> QED
      BY <1>1, <1>2, <1>3, <3>1, <3>2, <3>3 DEF ReleaseStage
  <2>2. CASE Head(todo).do = "waitKeys"
    <3>1. keyq = <<>>
      BY <1>1, <2>2
    <3>2. CASE /\ "right" \in report.buttons /\ m_right_btn_mode = "ctrl_click"
               /\ \/ Tail(todo) = <<Other("ctrlDown"), Other("waitKeys"), CtrlClick>>
                  \/ Tail(todo) = <<CtrlClick>> /\ hostCtrl
      BY <1>1, <3>1, <3>2 DEF PressStage
    <3>3. CASE /\ Tail(todo) = <<Other("ctrlUp"), Other("waitKeys")>>
               /\ (~dropped => ~CtrlClickComing) /\ LatestHeld(report.buttons)
      BY <1>1, <1>2, <1>3, <3>1, <3>3 DEF ReleaseStage
    <3>4. CASE Tail(todo) = <<>> /\ ~hostCtrl /\ LatestHeld(report.buttons)
      BY <1>1, <1>3, <3>1, <3>4 DEF PlainStage, CtrlHeld
    <3> QED
      BY <1>1, <1>5, <2>2, <3>1, <3>2, <3>3, <3>4, WaitStages
  <2> QED
    BY <1>1, <2>1, <2>2
<1> QED
  BY <1>1, <1>4, <1>6 DEF ClickInv, CallsInv, RestInv

\* There is room for the key, for core 0 has taken the one before.
LEMMA QueueCtrlClick ==
    ASSUME MouseInv, ClickInv, QueueCtrl
    PROVE  ClickInv'
<1>1. /\ pc1 = "calls" /\ pc1' = "calls" /\ todo # <<>> /\ todo' = Tail(todo)
      /\ Head(todo).do \in {"ctrlDown", "ctrlUp"}
      /\ UNCHANGED <<report, m_right_btn_mode, clicks, hostCtrl, mixed, dropped, pc0, click,
                     lastButtons>>
  BY DEF QueueCtrl, core0Vars, historyVars
<1>2. Latest' = Latest /\ CtrlClickComing' = CtrlClickComing
  BY <1>1 DEF Latest, CtrlClickComing, InRegister
<1>3. LatestHeld(report.buttons)' = LatestHeld(report.buttons)
  BY <1>1, <1>2 DEF LatestHeld
<1>4. CtrlInv'
  BY <1>1, <1>2 DEF ClickInv, CtrlInv
<1>5. CallsInv
  BY DEF ClickInv
<1>6. keyq = <<>> => keyq' = <<Head(todo).do = "ctrlDown">>
  <2> DEFINE down == Head(todo).do = "ctrlDown"
  <2>1. keyq = <<>> => Len(keyq) < KeyCapacity
    OBVIOUS
  <2>2. keyq' = IF Len(keyq) < KeyCapacity THEN Append(keyq, down) ELSE keyq
    BY DEF QueueCtrl
  <2> HIDE DEF down
  <2>3. keyq = <<>> => keyq' = <<down>>
    BY <2>1, <2>2
  <2> QED
    BY <2>3 DEF down
<1>7. CASE Head(todo).do = "ctrlDown"
  <2>1. keyq' = <<TRUE>>
    <3>1. keyq = <<>>
      BY <1>1, <1>5, CtrlStages
    <3>2. (Head(todo).do = "ctrlDown") = TRUE
      BY <1>7
    <3> QED
      BY <1>6, <3>1, <3>2, Zenon
  <2>2. /\ Tail(todo) = <<Other("waitKeys"), CtrlClick>>
        /\ "right" \in report.buttons /\ m_right_btn_mode = "ctrl_click"
    BY <1>1, <1>5, <1>7, CtrlStages
  <2>3. PressStage'
    BY <1>1, <2>1, <2>2, Zenon DEF PressStage
  <2> QED
    BY <1>1, <1>4, <2>3 DEF ClickInv, CallsInv, RestInv
<1>8. CASE Head(todo).do = "ctrlUp"
  <2>1. keyq' = <<FALSE>>
    <3>1. keyq = <<>>
      BY <1>1, <1>5, CtrlStages
    <3>2. (Head(todo).do = "ctrlDown") = FALSE
      BY <1>8
    <3> QED
      BY <1>6, <3>1, <3>2, Zenon
  <2>2. /\ Tail(todo) = <<Other("waitKeys")>>
        /\ ~dropped => ~CtrlClickComing
        /\ LatestHeld(report.buttons)
    BY <1>1, <1>5, <1>8, CtrlStages
  <2>3. /\ todo' = <<Other("waitKeys")>> /\ (~dropped => ~CtrlClickComing)'
        /\ LatestHeld(report.buttons)'
    BY <1>1, <1>2, <1>3, <2>2
  <2>4. ReleaseStage'
    BY <2>1, <2>3, Zenon DEF ReleaseStage
  <2> QED
    BY <1>1, <1>4, <2>4 DEF ClickInv, CallsInv, RestInv
<1> QED
  BY <1>1, <1>7, <1>8

\* The report is done with: nothing is left of its stages.
LEMMA ParseDoneClick ==
    ASSUME MouseInv, ClickInv, ParseDone
    PROVE  ClickInv'
<1>1. /\ pc1 = "calls" /\ pc1' = "usb" /\ todo = <<>> /\ prevState' = report.buttons
      /\ UNCHANGED <<m_right_btn_mode, clicks, keyq, hostCtrl, mixed, dropped, pc0, click,
                     lastButtons>>
  BY DEF ParseDone, core0Vars
<1>2. Latest' = Latest /\ CtrlClickComing' = CtrlClickComing
  BY <1>1 DEF Latest, CtrlClickComing, InRegister
<1>3. ~PressStage /\ ~ReleaseStage
  <2>1. Press # <<>> /\ Release # <<>> /\ <<LeftDown>> \o Press # <<>> /\ <<LeftDown>> \o Release # <<>>
    BY StageSteps
  <2> QED
    BY <1>1, <2>1 DEF PressStage, ReleaseStage
<1>4. keyq = <<>> /\ CtrlHeld(report.buttons) /\ LatestHeld(report.buttons)
  BY <1>1, <1>3 DEF ClickInv, CallsInv, PlainStage
<1>5. keyq' = <<>> /\ CtrlHeld(prevState)' /\ LatestHeld(prevState)'
  BY <1>1, <1>2, <1>4 DEF CtrlHeld, LatestHeld
<1> QED
  BY <1>1, <1>2, <1>5 DEF ClickInv, CallsInv, RestInv, CtrlInv

\* The beginning of a report disturbs nothing, and a drained queue only what is
\* claimed of the clicks.
LEMMA BetweenClick ==
    ASSUME MouseInv, ClickInv, ClearProcessed \/ Reset \/ \E r \in Reports : ParseStart(r)
    PROVE  ClickInv'
<1>1. CASE ClearProcessed \/ \E r \in Reports : ParseStart(r)
  <2>1. /\ pc1 # "calls" /\ pc1' # "calls"
        /\ UNCHANGED <<prevState, m_right_btn_mode, clicks, keyq, hostCtrl, mixed, dropped, pc0,
                       click, lastButtons>>
    BY <1>1 DEF ClearProcessed, ParseStart, core0Vars, historyVars
  <2>2. Latest' = Latest /\ CtrlClickComing' = CtrlClickComing
    BY <2>1 DEF Latest, CtrlClickComing, InRegister
  <2> QED
    BY <2>1, <2>2 DEF ClickInv, CallsInv, RestInv, CtrlInv, LatestHeld, CtrlHeld
<1>2. CASE Reset
  BY <1>2 DEF Reset, core0Vars, core1Vars, ClickInv, CallsInv, RestInv, CtrlInv, LatestHeld,
              CtrlHeld
<1> QED
  BY <1>1, <1>2

\* The steps of core 0 move a click from the queue to the Macintosh, and none
\* of them changes which is the last.
LEMMA Core0Latest ==
    ASSUME MouseInv, ClickInv, Core0, ~dropped
    PROVE  /\ Latest' = Latest
           /\ CtrlClickComing' \/ lastButtons'.ctrl => CtrlClickComing \/ lastButtons.ctrl
           /\ CtrlClickComing' => CtrlClickComing
           /\ pc0' = "take" => clicks' # <<>>
<1>1. clicks \in Seq(Clicks)
  BY DEF MouseInv, TypeOK
<1>2. CASE ReadReady \/ ClearReady \/ Talk \/ ReadMovement
  <2>1. /\ clicks' = clicks /\ lastButtons' = lastButtons
        /\ (IF InRegister' THEN click' ELSE lastButtons') = IF InRegister THEN click ELSE lastButtons
        /\ pc0' = "take" => clicks' # <<>>
    BY <1>2 DEF ReadReady, ClearReady, Talk, ReadMovement, InRegister
  <2> QED
    BY <2>1 DEF Latest, CtrlClickComing
<1>3. CASE TakeClick
  <2>1. /\ clicks # <<>> /\ clicks' = Tail(clicks) /\ click' = Head(clicks)
        /\ lastButtons' = lastButtons /\ ~InRegister /\ InRegister' /\ pc0' = "read"
    BY <1>3 DEF TakeClick, ClickInv, CtrlInv, InRegister
  <2>2. /\ Len(clicks) \in Nat /\ Len(clicks) > 0 /\ Len(clicks') = Len(clicks) - 1
        /\ \A k \in 1..Len(clicks') : clicks'[k] = clicks[k + 1]
        /\ click' = clicks[1] /\ (clicks' = <<>> <=> Len(clicks') = 0)
    <3>1. clicks' \in Seq(Clicks) /\ Len(clicks') = Len(clicks) - 1
      BY <1>1, <2>1, HeadTailProperties
    <3>2. \A k \in 1..Len(clicks') : clicks'[k] = clicks[k + 1]
      BY <1>1, <2>1, HeadTailProperties
    <3>3. Len(clicks) \in Nat /\ Len(clicks) > 0 /\ click' = clicks[1]
      BY <1>1, <2>1
    <3>4. clicks' = <<>> <=> Len(clicks') = 0
      BY <3>1, EmptySeq
    <3> QED
      BY <3>1, <3>2, <3>3, <3>4
  <2>3. Latest' = Latest
    BY <2>1, <2>2 DEF Latest
  <2>4. CtrlClickComing' => CtrlClickComing
    BY <2>1, <2>2 DEF CtrlClickComing
  <2> QED
    BY <2>1, <2>3, <2>4
<1>4. CASE MarkProcessed
  <2>1. /\ clicks' = clicks /\ InRegister /\ ~InRegister' /\ lastButtons' = click
        /\ pc0' = "loop"
    BY <1>4 DEF MarkProcessed, InRegister
  <2> QED
    BY <2>1 DEF Latest, CtrlClickComing
<1> QED
  BY <1>2, <1>3, <1>4 DEF Core0

LEMMA Core0Click ==
    ASSUME MouseInv, ClickInv, Core0
    PROVE  ClickInv'
<1>1. UNCHANGED <<pc1, prevState, report, todo, m_right_btn_mode, keyq, hostCtrl, dropped, mixed>>
  BY DEF Core0, ReadReady, ClearReady, Talk, TakeClick, ReadMovement, MarkProcessed, core1Vars,
         historyVars
<1>2. ~dropped => Latest' = Latest /\ (CtrlClickComing' => CtrlClickComing)
  BY Core0Latest
<1>3. CtrlInv'
  BY <1>1, Core0Latest DEF ClickInv, CtrlInv
<1>4. /\ LatestHeld(prevState) => LatestHeld(prevState)'
      /\ LatestHeld(report.buttons) => LatestHeld(report.buttons)'
  BY <1>1, <1>2 DEF LatestHeld
<1>5. /\ CtrlHeld(prevState) => CtrlHeld(prevState)'
      /\ CtrlHeld(report.buttons) => CtrlHeld(report.buttons)'
  BY <1>1 DEF CtrlHeld
<1>6. RestInv'
  BY <1>1, <1>4, <1>5 DEF ClickInv, RestInv
<1>7. PressStage => PressStage'
  BY <1>1 DEF PressStage
<1>8. ReleaseStage => ReleaseStage'
  BY <1>1, <1>2, <1>4 DEF ReleaseStage
<1>9. PlainStage => PlainStage'
  BY <1>1, <1>4, <1>5 DEF PlainStage, AsReported
<1> QED
  BY <1>1, <1>3, <1>6, <1>7, <1>8, <1>9 DEF ClickInv, CallsInv

\* The key that is taken is the one the stage has queued, and no right click is
\* left when it goes up.
LEMMA TakeKeyClick ==
    ASSUME MouseInv, ClickInv, TakeKey
    PROVE  ClickInv'
<1>1. /\ pc0 = "loop" /\ keyq # <<>> /\ hostCtrl' = Head(keyq) /\ keyq' = Tail(keyq)
      /\ UNCHANGED <<pc1, prevState, report, todo, m_right_btn_mode, clicks, dropped, mixed, pc0,
                     click, lastButtons>>
  BY DEF TakeKey, core1Vars, core0Vars, historyVars
<1>2. Latest' = Latest /\ CtrlClickComing' = CtrlClickComing
  BY <1>1 DEF Latest, CtrlClickComing, InRegister
<1>3. LatestHeld(report.buttons)' = LatestHeld(report.buttons)
  BY <1>1, <1>2 DEF LatestHeld
<1>4. pc1 = "calls"
  BY <1>1 DEF ClickInv, RestInv
<1>5. ~PlainStage
  BY <1>1 DEF PlainStage
<1>6. CASE PressStage
  <2>1. keyq = <<TRUE>> /\ todo = <<Other("waitKeys"), CtrlClick>>
    BY <1>1, <1>6 DEF PressStage
  <2>2. hostCtrl' = TRUE /\ keyq' = <<>>
    BY <1>1, <2>1, HeadTail, Zenon
  <2>3. PressStage'
    BY <1>1, <1>6, <2>1, <2>2, Zenon DEF PressStage
  <2>4. CtrlInv'
    BY <1>1, <2>2 DEF ClickInv, CtrlInv
  <2> QED
    BY <1>1, <1>4, <2>3, <2>4 DEF ClickInv, CallsInv, RestInv
<1>7. CASE ReleaseStage
  <2>1. /\ keyq = <<FALSE>> /\ todo = <<Other("waitKeys")>>
        /\ (~dropped => ~CtrlClickComing) /\ LatestHeld(report.buttons)
    BY <1>1, <1>7 DEF ReleaseStage
  <2>2. hostCtrl' = FALSE /\ keyq' = <<>>
    BY <1>1, <2>1, HeadTail, Zenon
  <2>3. ReleaseStage'
    BY <1>1, <1>2, <1>3, <2>1, <2>2 DEF ReleaseStage
  <2>4. ~dropped => ~CtrlClickComing /\ ~lastButtons.ctrl
    BY <1>1, <2>1 DEF CtrlClickComing, InRegister
  <2>5. CtrlInv'
    BY <1>1, <1>2, <2>4 DEF CtrlInv
  <2> QED
    BY <1>1, <1>4, <2>3, <2>5 DEF ClickInv, CallsInv, RestInv
<1> QED
  BY <1>4, <1>5, <1>6, <1>7 DEF ClickInv, CallsInv

LEMMA ClickNext == MouseInv /\ ClickInv /\ [Next]_vars => ClickInv'
<1> SUFFICES ASSUME MouseInv, ClickInv, [Next]_vars PROVE ClickInv'
  OBVIOUS
<1>1. CASE UNCHANGED vars
  BY <1>1 DEF vars, core1Vars, core0Vars, historyVars, ClickInv, CallsInv, RestInv, CtrlInv,
              PressStage, ReleaseStage, PlainStage, LatestHeld, CtrlHeld, Latest, InRegister,
              CtrlClickComing, AsReported
<1>2. CASE Next
  BY <1>2, AddMovementClick, QueueClickClick, BusyWaitClick, QueueCtrlClick, ParseDoneClick,
     BetweenClick, Core0Click, TakeKeyClick DEF Next, Parsing
<1> QED
  BY <1>1, <1>2

LEMMA ClickAlways == Spec => [](MouseInv /\ ClickInv)
<1>1. Init => MouseInv /\ ClickInv
  BY TypeInit, DataInit, ClickInit DEF MouseInv
<1> QED
  BY <1>1, MouseNext, ClickNext, PTL DEF Spec

\* With the click queue empty the Macintosh holds no button that is not held,
\* whatever the modes, the orders and the memory the right button is read from.
THEOREM ButtonsReleasedTheorem == Spec => []ButtonsReleased
<1>1. ClickInv => ButtonsReleased
  BY DEF ClickInv, RestInv, LatestHeld, Held, Latest, InRegister, ButtonsReleased
<1> QED
  BY <1>1, ClickAlways, PTL

\* Control is down at the Macintosh for all of a right click in ctrl_click mode,
\* and is up again with the button.
THEOREM RightClickTheorem == Spec => []RightClickWhole
<1>1. ClickInv => RightClickWhole
  BY DEF ClickInv, RestInv, CtrlInv, CtrlHeld, RightClickWhole, CtrlClickWhole,
         CtrlStuckOnlyByModeChange
<1> QED
  BY <1>1, ClickAlways, PTL
=============================================================================
