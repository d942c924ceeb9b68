---------------------------- MODULE MouseParser ----------------------------
(***************************************************************************)
(* The mouse between the cores: PlatformMouseParser::Parse on core 1 adds  *)
(* up movements and queues clicks, and types Control around a right click  *)
(* in ctrl_click mode, busy-waiting for core 0; MouseReady and             *)
(* GetAdbRegister0 on core 0 read the counters and the queue without any   *)
(* lock but the queue's own (platformmouseparser.cpp, usbmouseparser.cpp,  *)
(* adbmouseparser.cpp).                                                    *)
(*                                                                         *)
(* A movement is a number of its own, and the counters are the set of the  *)
(* movements added up in them, so that a lost or a repeated one is seen.   *)
(* The scaling by the sensitivity divisor and the limits of register 0 are *)
(* left out, and so are the waits of 100 and 200 ms: what core 0 has taken *)
(* counts as sent.  Of the key events only the mouse's own Control is      *)
(* modelled; the left Control key of a keyboard is the same key for the    *)
(* Macintosh, and using both at once is outside this model.                *)
(***************************************************************************)
EXTENDS Naturals, Sequences

CONSTANTS
    ClickCapacity,  \* MOUSE_CLICK_QUEUE_CAPACITY
    KeyCapacity,    \* KEYBOARD_QUEUE_CAPACITY
    MaxMoves,       \* bound: movements in a behaviour
    Reports,        \* bound: the reports this mouse sends
    MaxReports      \* bound: reports in a behaviour

ASSUME SizeAssumption ==
    /\ ClickCapacity \in Nat \ {0}
    /\ KeyCapacity \in Nat \ {0}
    /\ MaxMoves \in Nat /\ MaxReports \in Nat

Moves == 1..MaxMoves
Buttons == {"left", "right", "middle"}

\* A movement is numbered when it is reported.
NoMove == 0
AllReports == [buttons : SUBSET Buttons, move : Moves \cup {NoMove}]
NoReport == [buttons |-> {}, move |-> NoMove]

ASSUME ReportsAssumption == Reports \subseteq AllReports

VARIABLES
    pc1,            \* where core 1 is
    prevState,      \* the buttons of the last report
    report,         \* the report being parsed
    todo,           \* the calls Parse is about to make
    m_right_btn_mode,
    coarse,         \* the movements in m_coarse_x and m_coarse_y
    m_processed, m_ready,
    clicks,         \* m_click_events
    keyq,           \* the Control events in m_keyboard_events: TRUE is down
    pc0,            \* where core 0 is
    changed,        \* the local of MouseChanged
    mousepending,
    click,          \* the buttons core 0 is building the register from
    reg,            \* the movements in the register
    lastButtons,    \* button_left_last, button_right_last: what the host sees
    hostCtrl,       \* the Control key as core 0 has taken it
    sent,           \* sent[m]: was movement m reported, was it sent (history)
    raced,          \* movements added while core 0 was building a register (history)
    missed,         \* the last report's m_ready was cleared unseen (history)
    dropped,        \* a click was dropped, or a flush drained the queue (history)
    mixed,          \* the mode changed while the right button was down (history)
    reports         \* reports so far (bound)

core1Vars == <<pc1, prevState, report, todo, m_right_btn_mode, coarse, reports>>
core0Vars == <<pc0, changed, mousepending, click, reg, lastButtons, sent>>
historyVars == <<raced, missed, dropped, mixed>>
vars == <<core1Vars, core0Vars, historyVars, m_processed, m_ready, clicks, keyq, hostCtrl>>

Modes == {"ctrl_click", "right_click"}

\* A click event: which buttons it says are down; ctrl is history, TRUE for
\* the left click that stands for a right one.
Clicks == [buttons : SUBSET {"left", "right"}, ctrl : BOOLEAN]
NoClick == [buttons |-> {}, ctrl |-> FALSE]

\* The calls of Parse: a click to be queued, with the buttons it may carry.
ClickCall(choices, ctrl) == [do |-> "click", choices |-> choices, ctrl |-> ctrl]
Other(do) == [do |-> do, choices |-> {}, ctrl |-> FALSE]
Calls == [do : {"click", "waitKeys", "waitClicks", "ctrlDown", "ctrlUp"},
          choices : SUBSET SUBSET {"left", "right"}, ctrl : BOOLEAN]

Init ==
    /\ pc1 = "usb" /\ prevState = {} /\ report = NoReport /\ todo = <<>>
    /\ m_right_btn_mode = "ctrl_click"
    /\ coarse = {} /\ m_processed = FALSE /\ m_ready = FALSE
    /\ clicks = <<>> /\ keyq = <<>>
    /\ pc0 = "loop" /\ changed = FALSE /\ mousepending = FALSE
    /\ click = NoClick /\ reg = {} /\ lastButtons = NoClick
    /\ hostCtrl = FALSE
    /\ sent = [m \in Moves |-> "unborn"]
    /\ raced = {} /\ missed = FALSE /\ dropped = FALSE /\ mixed = FALSE
    /\ reports = 0

-----------------------------------------------------------------------------
(* Core 1: Parse.                                                           *)

\* Movements are numbered in the order they are reported.
IsNext(move) ==
    move # NoMove => /\ sent[move] = "unborn"
                     /\ \A m \in 1..(move - 1) : sent[m] # "unborn"

\* Faulty variant of ParseStart: the counters are cleared unconditionally.
ParseStartClears(r) ==
    /\ pc1 = "usb"
    /\ reports < MaxReports /\ reports' = reports + 1
    /\ IsNext(r.move)
    /\ report' = r
    /\ coarse' = {}
    /\ pc1' = IF m_processed THEN "unflag" ELSE "add"
    /\ UNCHANGED <<prevState, todo, m_right_btn_mode, core0Vars, historyVars, m_processed,
                   m_ready, clicks, keyq, hostCtrl>>

\* The counters are cleared if core 0 has sent them.
ParseStart(r) ==
    /\ pc1 = "usb"
    /\ reports < MaxReports /\ reports' = reports + 1
    /\ IsNext(r.move)
    /\ report' = r
    /\ coarse' = IF m_processed THEN {} ELSE coarse
    /\ pc1' = IF m_processed THEN "unflag" ELSE "add"
    /\ UNCHANGED <<prevState, todo, m_right_btn_mode, core0Vars, historyVars, m_processed,
                   m_ready, clicks, keyq, hostCtrl>>

ClearProcessed ==
    /\ pc1 = "unflag"
    /\ m_processed' = FALSE
    /\ pc1' = "add"
    /\ UNCHANGED <<prevState, report, todo, m_right_btn_mode, coarse, reports, core0Vars,
                   historyVars, m_ready, clicks, keyq, hostCtrl>>

\* Faulty variants of CtrlPress (no wait between key and click) and CtrlRelease
\* (Control stays down).
CtrlPressAtOnce == <<ClickCall({{"left"}}, TRUE), Other("waitKeys"), Other("ctrlDown")>>
CtrlReleaseClickOnly == <<ClickCall({{}}, FALSE), Other("waitClicks"), Other("waitKeys")>>

\* The button calls of Parse in ctrl_click mode: Control goes down before the
\* left click that stands for the right one, and up after its release.
CtrlPress == <<Other("waitKeys"), Other("ctrlDown"), Other("waitKeys"),
               ClickCall({{"left"}}, TRUE)>>
CtrlRelease == <<ClickCall({{}}, FALSE), Other("waitClicks"), Other("waitKeys"),
                 Other("ctrlUp"), Other("waitKeys")>>

\* Faulty variant of RightCalls: a release in right_click mode is forgotten.
RightCallsForget(before, after, mode) ==
    IF mode = "ctrl_click"
    THEN IF "right" \in after THEN CtrlPress ELSE CtrlRelease
    ELSE IF "right" \in after THEN <<ClickCall({after \ {"middle"}}, FALSE)>> ELSE <<>>

RightCalls(before, after, mode) ==
    IF mode = "ctrl_click"
    THEN IF "right" \in after THEN CtrlPress ELSE CtrlRelease
    ELSE <<ClickCall({after \ {"middle"}}, FALSE)>>

Changes(b, before, after) == (b \in before) # (b \in after)

\* OnLeftButtonDown queues a click of its own, whose right button is whatever
\* the memory held; then Parse queues one for the change.
ButtonCalls(before, after, mode) ==
    LET press == IF "left" \in after \ before
                 THEN <<ClickCall({{"left"}, {"left", "right"}}, FALSE)>> ELSE <<>>
    IN  press \o (IF Changes("right", before, after) THEN RightCalls(before, after, mode)
                  ELSE IF Changes("left", before, after)
                       THEN <<ClickCall({after \ {"middle"}}, FALSE)>> ELSE <<>>)

\* The middle button changes the mode when it goes down.
ModeAfter(before, after) ==
    IF "middle" \in after \ before
    THEN CHOOSE m \in Modes : m # m_right_btn_mode ELSE m_right_btn_mode

\* The movement is added; core 0 may be building a register from the counters,
\* or have finished one since m_processed was tested.
AddMovement ==
    /\ pc1 = "add"
    /\ LET m == report.move
           isRace == m_processed \/ pc0 = "mark"
       IN  /\ coarse' = coarse \cup ({m} \ {NoMove})
           /\ sent' = IF m = NoMove THEN sent ELSE [sent EXCEPT ![m] = "no"]
           /\ raced' = IF m # NoMove /\ isRace THEN raced \cup {m} ELSE raced
    /\ m_right_btn_mode' = ModeAfter(prevState, report.buttons)
    /\ todo' = ButtonCalls(prevState, report.buttons, m_right_btn_mode')
    /\ mixed' = (mixed \/ (m_right_btn_mode' # m_right_btn_mode /\ "right" \in prevState))
    /\ pc1' = "calls"
    /\ UNCHANGED <<prevState, report, reports, pc0, changed, mousepending, click, reg,
                   lastButtons, missed, dropped, m_processed, m_ready, clicks, keyq,
                   hostCtrl>>

\* A full queue drops the click.
QueueClick ==
    /\ pc1 = "calls"
    /\ todo # <<>> /\ Head(todo).do = "click"
    /\ IF Len(clicks) < ClickCapacity
       THEN /\ \E b \in Head(todo).choices :
                  clicks' = Append(clicks, [buttons |-> b, ctrl |-> Head(todo).ctrl])
            /\ UNCHANGED dropped
       ELSE dropped' = TRUE /\ UNCHANGED clicks
    /\ todo' = Tail(todo)
    /\ UNCHANGED <<pc1, prevState, report, m_right_btn_mode, coarse, reports, core0Vars,
                   raced, missed, mixed, m_processed, m_ready, keyq, hostCtrl>>

\* while (m_keyboard->PendingKeyboardEvent()); and while (!m_click_events.isEmpty());
BusyWait ==
    /\ pc1 = "calls"
    /\ todo # <<>>
    /\ \/ Head(todo).do = "waitKeys" /\ keyq = <<>>
       \/ Head(todo).do = "waitClicks" /\ clicks = <<>>
    /\ todo' = Tail(todo)
    /\ UNCHANGED <<pc1, prevState, report, m_right_btn_mode, coarse, reports, core0Vars,
                   historyVars, m_processed, m_ready, clicks, keyq, hostCtrl>>

\* m_keyboard->OnKeyDown and OnKeyUp of the left Control key.
QueueCtrl ==
    /\ pc1 = "calls"
    /\ todo # <<>> /\ Head(todo).do \in {"ctrlDown", "ctrlUp"}
    /\ keyq' = IF Len(keyq) < KeyCapacity THEN Append(keyq, Head(todo).do = "ctrlDown") ELSE keyq
    /\ todo' = Tail(todo)
    /\ UNCHANGED <<pc1, prevState, report, m_right_btn_mode, coarse, reports, core0Vars,
                   historyVars, m_processed, m_ready, clicks, hostCtrl>>

ParseDone ==
    /\ pc1 = "calls" /\ todo = <<>>
    /\ prevState' = report.buttons
    /\ m_ready' = TRUE
    /\ report' = NoReport
    /\ pc1' = "usb"
    /\ missed' = FALSE
    /\ UNCHANGED <<todo, m_right_btn_mode, coarse, reports, core0Vars, raced, dropped, mixed,
                   m_processed, clicks, keyq, hostCtrl>>

\* MouseRptParser::Reset after a flush or a reset, between two reports.
Reset ==
    /\ pc1 = "usb"
    /\ clicks # <<>>
    /\ clicks' = Tail(clicks)
    /\ dropped' = TRUE
    /\ UNCHANGED <<core1Vars, core0Vars, raced, missed, mixed, m_processed, m_ready,
                   keyq, hostCtrl>>

-----------------------------------------------------------------------------
(* Core 0.                                                                  *)

\* MouseChanged: m_ready and the queue are read, then m_ready is cleared.
ReadReady ==
    /\ pc0 = "loop"
    /\ ~mousepending
    /\ changed' = (m_ready \/ clicks # <<>>)
    /\ pc0' = "clear"
    /\ UNCHANGED <<mousepending, click, reg, lastButtons, sent, core1Vars, historyVars,
                   m_processed, m_ready, clicks, keyq, hostCtrl>>

ClearReady ==
    /\ pc0 = "clear"
    /\ m_ready' = FALSE
    /\ mousepending' = changed
    /\ missed' = (missed \/ (m_ready /\ ~changed))
    /\ changed' = FALSE
    /\ pc0' = "loop"
    /\ UNCHANGED <<click, reg, lastButtons, sent, core1Vars, raced, dropped, mixed,
                   m_processed, clicks, keyq, hostCtrl>>

\* Talk register 0: isEmpty() and dequeue() are two calls, and core 1 can drain
\* the queue in between; a null click reads as anything.
Talk ==
    /\ pc0 = "loop"
    /\ mousepending
    /\ pc0' = IF clicks # <<>> THEN "take" ELSE "read"
    /\ click' = lastButtons
    /\ UNCHANGED <<changed, mousepending, reg, lastButtons, sent, core1Vars, historyVars,
                   m_processed, m_ready, clicks, keyq, hostCtrl>>

\* Faulty variant of TakeClick: the click stays in the queue.
TakeClickPeeks ==
    /\ pc0 = "take"
    /\ click' \in IF clicks # <<>> THEN {Head(clicks)} ELSE {lastButtons}
    /\ pc0' = "read"
    /\ UNCHANGED <<changed, mousepending, reg, lastButtons, sent, core1Vars, historyVars,
                   m_processed, m_ready, clicks, keyq, hostCtrl>>

TakeClick ==
    /\ pc0 = "take"
    /\ IF clicks # <<>>
       THEN click' = Head(clicks) /\ clicks' = Tail(clicks)
       ELSE click' \in [buttons : SUBSET {"left", "right"}, ctrl : {FALSE}] /\ UNCHANGED clicks
    /\ pc0' = "read"
    /\ UNCHANGED <<changed, mousepending, reg, lastButtons, sent, core1Vars, historyVars,
                   m_processed, m_ready, keyq, hostCtrl>>

ReadMovement ==
    /\ pc0 = "read"
    /\ reg' = coarse
    /\ pc0' = "mark"
    /\ UNCHANGED <<changed, mousepending, click, lastButtons, sent, core1Vars, historyVars,
                   m_processed, m_ready, clicks, keyq, hostCtrl>>

\* m_processed is set and the register is sent.
MarkProcessed ==
    /\ pc0 = "mark"
    /\ m_processed' = TRUE
    /\ sent' = [m \in Moves |-> IF m \in reg THEN "yes" ELSE sent[m]]
    /\ lastButtons' = click
    /\ reg' = {} /\ click' = NoClick
    /\ mousepending' = FALSE
    /\ pc0' = "loop"
    /\ UNCHANGED <<changed, core1Vars, historyVars, m_ready, clicks, keyq, hostCtrl>>

\* Core 0 packs the Control event into the keyboard's register.
TakeKey ==
    /\ pc0 = "loop"
    /\ keyq # <<>>
    /\ hostCtrl' = Head(keyq)
    /\ keyq' = Tail(keyq)
    /\ UNCHANGED <<core1Vars, core0Vars, historyVars, m_processed, m_ready, clicks>>

-----------------------------------------------------------------------------
Parsing ==
    \/ ClearProcessed
    \/ AddMovement
    \/ QueueClick
    \/ BusyWait
    \/ QueueCtrl
    \/ ParseDone

Core0 ==
    \/ ReadReady
    \/ ClearReady
    \/ Talk
    \/ TakeClick
    \/ ReadMovement
    \/ MarkProcessed

Next ==
    \/ \E r \in Reports : ParseStart(r)
    \/ Parsing
    \/ Reset
    \/ Core0
    \/ TakeKey

Spec == Init /\ [][Next]_vars

\* Core 1 runs on inside Parse, core 0 runs its loop, and the Macintosh polls
\* both devices.
FairSpec ==
    /\ Spec
    /\ WF_vars(Parsing)
    /\ WF_vars(Core0)
    /\ SF_vars(TakeKey)

-----------------------------------------------------------------------------
TypeOK ==
    /\ pc1 \in {"usb", "unflag", "add", "calls"}
    /\ prevState \subseteq Buttons /\ report \in AllReports /\ todo \in Seq(Calls)
    /\ m_right_btn_mode \in Modes
    /\ coarse \subseteq Moves /\ m_processed \in BOOLEAN /\ m_ready \in BOOLEAN
    /\ clicks \in Seq(Clicks) /\ Len(clicks) <= ClickCapacity
    /\ keyq \in Seq(BOOLEAN) /\ Len(keyq) <= KeyCapacity
    /\ pc0 \in {"loop", "clear", "take", "read", "mark"}
    /\ changed \in BOOLEAN /\ mousepending \in BOOLEAN
    /\ click \in Clicks /\ reg \subseteq Moves /\ lastButtons \in Clicks
    /\ hostCtrl \in BOOLEAN
    /\ sent \in [Moves -> {"unborn", "no", "yes"}]
    /\ raced \subseteq Moves
    /\ missed \in BOOLEAN /\ dropped \in BOOLEAN /\ mixed \in BOOLEAN
    /\ reports \in 0..MaxReports

\* A movement is lost in one case only: core 0 built a register between the
\* test of m_processed and the addition, or was about to finish one.  Any other
\* movement not sent yet is in the counters, or in the register being built,
\* and the counters are not due to be cleared.  One that was sent is sent again
\* with every further register, but no longer than until the next report: as
\* long as the counters have it, they are due to be cleared.
MovementAccounted ==
    \A m \in Moves \ raced :
        /\ sent[m] = "no" => (m \in coarse /\ ~m_processed) \/ m \in reg
        /\ sent[m] = "yes" /\ m \in coarse => m_processed

\* What is not sent yet is announced to core 0, unless core 0 cleared m_ready
\* just after it had read it as false.
MovementAnnounced ==
    pc1 = "usb" /\ ~missed /\ pc0 = "loop" /\ ~m_ready /\ ~mousepending =>
        \A m \in Moves \ raced : sent[m] # "no"

\* No movement is lost, and none waits without being announced.
MovementInv ==
    /\ TypeOK
    /\ MovementAccounted
    /\ MovementAnnounced

\* When the click queue is empty the Macintosh holds no button down that is not
\* down, also after changes of mode and with the indeterminate right button of
\* OnLeftButtonDown; in ctrl_click mode the left button stands for the right.
ButtonsReleased ==
    pc1 = "usb" /\ pc0 = "loop" /\ clicks = <<>> /\ ~dropped =>
        /\ "left" \in lastButtons.buttons => prevState \cap {"left", "right"} # {}
        /\ "right" \in lastButtons.buttons => "right" \in prevState

\* A right click in ctrl_click mode reaches the Macintosh as a whole: Control
\* is down for as long as the left button is down on its behalf.
CtrlClickWhole ==
    lastButtons.ctrl /\ ~dropped => hostCtrl

\* Control is released with the right button, unless the mode was changed while
\* it was down: then no branch of Parse releases it.
CtrlStuckOnlyByModeChange ==
    pc1 = "usb" /\ hostCtrl /\ ~mixed => "right" \in prevState

\* Control is down during a right click in ctrl_click mode and up after it.
RightClickWhole ==
    /\ CtrlClickWhole
    /\ CtrlStuckOnlyByModeChange

\* The busy waits of Parse come to an end, as long as the Macintosh polls.
ParseEnds == pc1 = "calls" ~> pc1 = "usb"
=============================================================================
