------------------------------ MODULE LogCache ------------------------------
(***************************************************************************)
(* The log of QuokkADB (lib/QuokkADB/src/log_cache.cpp): a ring of         *)
(* characters that both cores print to under log_mutex, and that core 1    *)
(* empties into a serial port (log_poll).  Serial1.write reads the ring    *)
(* after log_get_buffer gave the mutex back, so core 0 can print over the  *)
(* characters it is sending.                                               *)
(*                                                                         *)
(* A character is its number in the log and whether it is a line break;    *)
(* what the numbers and strings look like does not matter.  Prints start   *)
(* after log_init().                                                       *)
(***************************************************************************)
EXTENDS Integers, Sequences, FiniteSetsExt

CONSTANTS
    LOGBUFSIZE,
    SkipAhead,      \* the 512 of log_get_buffer
    Width,          \* the positions are uint32_t: they wrap at Width
    MaxText,        \* bound: length of a printed string
    MaxChars        \* bound: characters printed in a behaviour

ASSUME LogAssumption ==
    /\ LOGBUFSIZE \in Nat /\ SkipAhead \in 1..(LOGBUFSIZE - 1)
    /\ Width \in Nat /\ Width > LOGBUFSIZE /\ Width % LOGBUFSIZE = 0
    /\ MaxText \in Nat \ {0} /\ MaxChars \in Nat

VARIABLES
    g_logbuffer, g_logpos,
    log_mutex,      \* the core that holds it, or "free"
    printing,       \* per core: what is left of the call it prints with
    log_pos,        \* log_poll's position
    data, left,     \* Serial1.write: the next slot, the characters to go
    written,        \* characters printed (history)
    passed,         \* characters sent or skipped (history)
    raced           \* slots printed over while they were being sent (history)

ring == <<g_logbuffer, g_logpos, written>>
poll == <<log_pos, data, left, passed>>
logVars == <<ring, log_mutex, printing, poll, raced>>

Cores == {"core0", "core1"}
NUL == [n |-> -1, break |-> FALSE]
Chars == [n : 0..(MaxChars - 1), break : BOOLEAN] \cup {NUL}

\* LOGBUFSIZE is a power of two: & LOGBUFMASK is the remainder.
Slot(pos) == pos % LOGBUFSIZE

-----------------------------------------------------------------------------
(* What Logmsg's functions print: each piece is one log_raw(str). *)

Strings == [len : 0..MaxText, break : {FALSE}]
HexNumber == [len |-> MaxText, break |-> FALSE]     \* always 10 characters
DecNumbers == [len : 1..MaxText, break : {FALSE}]
Newline == [len |-> 1, break |-> TRUE]

\* log_raw(first, second, rest...): one piece after the other, and the mutex
\* is free between them.
Pieces(first, second) == <<first, second>>

PrintCalls == {<<x>> : x \in Strings \cup DecNumbers \cup {HexNumber}}
PrintlnCalls == {Pieces(x, Newline) : x \in Strings \cup DecNumbers \cup {HexNumber}}

\* A call prints at most two pieces.
Size(call) ==
    LET len(i) == IF i \in DOMAIN call THEN call[i].len ELSE 0 IN len(1) + len(2)
ToCome == Size(printing["core0"]) + Size(printing["core1"])

\* Core 1 prints between its polls.  Bound: log_poll never falls the whole range
\* of the positions (4 GB) behind.
StartPrint(c) ==
    /\ printing[c] = <<>>
    /\ c = "core1" => left = 0
    /\ \E call \in PrintCalls \cup PrintlnCalls :
          /\ written + ToCome + Size(call) <= MaxChars
          /\ written + ToCome + Size(call) - passed < Width
          /\ printing' = [printing EXCEPT ![c] = call]
    /\ UNCHANGED <<ring, log_mutex, poll, raced>>

-----------------------------------------------------------------------------
(* log_raw(const char *str) *)

Enter(c) ==
    /\ printing[c] # <<>>
    /\ log_mutex = "free"
    /\ log_mutex' = c
    /\ UNCHANGED <<ring, printing, poll, raced>>

Store(char) ==
    /\ g_logbuffer' = [g_logbuffer EXCEPT ![Slot(g_logpos)] = char]
    /\ raced' = raced \cup ({Slot(g_logpos)} \cap (data..(data + left - 1)))

CopyChar(c) ==
    /\ log_mutex = c
    /\ Head(printing[c]).len > 0
    /\ Store([n |-> written, break |-> Head(printing[c]).break])
    /\ printing' = [printing EXCEPT ![c][1].len = @ - 1]
    /\ g_logpos' = (g_logpos + 1) % Width
    /\ written' = written + 1
    /\ UNCHANGED <<log_mutex, poll>>

\* "Keep buffer null-terminated".
Terminate(c) ==
    /\ log_mutex = c
    /\ Head(printing[c]).len = 0
    /\ Store(NUL)
    /\ printing' = [printing EXCEPT ![c] = Tail(@)]
    /\ log_mutex' = "free"
    /\ UNCHANGED <<g_logpos, written, poll>>

-----------------------------------------------------------------------------
(* log_poll() of core 1 *)

\* Faulty variant of Overrun: what is still in the ring is given up.
OverrunEarly(lag) == lag >= LOGBUFSIZE - SkipAhead

\* Faulty variant of Overrun: a full ring counts as complete.
OverrunLate(lag) == lag > LOGBUFSIZE

Overrun(lag) == lag >= LOGBUFSIZE

\* The first line break from pos on, or the end of the log.  Near the end of
\* the positions' range pos has not wrapped and g_logpos has: then everything
\* is skipped.
LineBreakFrom(pos) ==
    LET breaks == {p \in pos..(g_logpos - 1) : g_logbuffer[Slot(p)].break}
    IN  IF breaks = {} THEN g_logpos ELSE Min(breaks)

StartPos ==
    IF Overrun((g_logpos - log_pos) % Width)
    THEN LineBreakFrom((g_logpos - LOGBUFSIZE + SkipAhead) % Width)
    ELSE log_pos

\* Faulty variant of Available: the part up to the end is one short.
AvailableMask(start) ==
    IF Slot(g_logpos) >= Slot(start) THEN (g_logpos - start) % Width
                                     ELSE LOGBUFSIZE - 1 - Slot(start)

\* Up to g_logpos, or up to the end of the ring when it has wrapped.
Available(start) ==
    IF Slot(g_logpos) >= Slot(start) THEN (g_logpos - start) % Width
                                     ELSE LOGBUFSIZE - Slot(start)

\* log_get_buffer(): all of it under the mutex but the last statement, which
\* only core 1 can see.
GetBuffer ==
    /\ printing["core1"] = <<>> /\ left = 0
    /\ log_mutex = "free"
    /\ data' = Slot(StartPos)
    /\ left' = Available(StartPos)
    /\ log_pos' = (StartPos + Available(StartPos)) % Width
    /\ passed' = written - ((g_logpos - StartPos) % Width)
    /\ raced' = {}
    /\ UNCHANGED <<ring, log_mutex, printing>>

\* Serial1.write puts out one more character, without the mutex.
SendChar ==
    /\ left > 0
    /\ data' = data + 1
    /\ left' = left - 1
    /\ passed' = passed + 1
    /\ UNCHANGED <<ring, log_mutex, printing, log_pos, raced>>

\* Faulty variant of WriteReturns: what was not sent is forgotten.
WriteReturnsForgets ==
    /\ left > 0
    /\ left' = 0
    /\ UNCHANGED <<ring, log_mutex, printing, log_pos, data, passed, raced>>

\* It may return before all is sent: the position goes back.
WriteReturns ==
    /\ left > 0
    /\ log_pos' = (log_pos - left) % Width
    /\ left' = 0
    /\ UNCHANGED <<ring, log_mutex, printing, data, passed, raced>>

-----------------------------------------------------------------------------
LogInit ==
    /\ g_logbuffer = [i \in 0..LOGBUFSIZE |-> NUL]
    /\ g_logpos = 0 /\ log_pos = 0
    /\ log_mutex = "free"
    /\ printing = [c \in Cores |-> <<>>]
    /\ data = 0 /\ left = 0
    /\ written = 0 /\ passed = 0 /\ raced = {}

LogRaw(c) == Enter(c) \/ CopyChar(c) \/ Terminate(c)

LogNext ==
    \/ \E c \in Cores : StartPrint(c) \/ LogRaw(c)
    \/ GetBuffer
    \/ SendChar
    \/ WriteReturns

\* Core 1 polls for ever: it gets the mutex in the end although core 0 prints,
\* and the serial port does not refuse every character for ever.
LogSpec ==
    /\ LogInit /\ [][LogNext]_logVars
    /\ \A c \in Cores : WF_logVars(CopyChar(c) \/ Terminate(c)) /\ SF_logVars(Enter(c))
    /\ SF_logVars(GetBuffer) /\ SF_logVars(SendChar)

-----------------------------------------------------------------------------
LogTypeOK ==
    /\ g_logbuffer \in [0..LOGBUFSIZE -> Chars]
    /\ g_logpos \in 0..(Width - 1) /\ log_pos \in 0..(Width - 1)
    /\ log_mutex \in Cores \cup {"free"}
    /\ printing \in [Cores -> Seq([len : Nat, break : BOOLEAN])]
    /\ data \in 0..LOGBUFSIZE /\ left \in 0..LOGBUFSIZE
    /\ written \in 0..MaxChars /\ passed \in 0..MaxChars /\ raced \subseteq 0..(LOGBUFSIZE - 1)

\* log_poll's position stays in step with the characters it has passed, over
\* partial writes, skips and the wrap of the positions, and never runs ahead
\* of the log.
PositionInStep ==
    /\ LogTypeOK
    /\ log_pos = (passed + left) % Width
    /\ passed + left <= written

\* The serial port gets the characters in the order they were printed, each
\* once and never the terminator, unless core 0 has printed over the very slot
\* since log_get_buffer returned (log_cache.cpp:185-205).
StreamIntact ==
    [][data' = data + 1 /\ left' = left - 1
         => data \in raced \/ g_logbuffer[data].n = passed]_logVars

\* Characters are dropped only when they are no longer all in the ring, and
\* then sending resumes at a line break or at the end of the log.
DropsOnlyOverrun ==
    [][passed' > passed + 1 \/ (passed' # passed /\ left = 0)
         => /\ written - passed >= LOGBUFSIZE
            /\ left' > 0 => g_logbuffer[data'].break]_logVars

\* Everything printed is sent or skipped in the end: the log of a behaviour is
\* finite, and core 1 comes to the end of it again and again.
LogEmptied == []<>(passed = written)
=============================================================================
