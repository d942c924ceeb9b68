---------------------------- MODULE PlatformProofs ----------------------------
(***************************************************************************)
(* Theorems about the services of lib/QuokkADB.  FlashSettings: the        *)
(* settings are well formed, the divisor of the mouse is never zero, and a *)
(* boot keeps the promise of the last completed write, wherever the power  *)
(* went before.  StatusLed, which implements FlashSettings: a blink shows, *)
(* and one can count its flashes, but for two at the most.  LogCache: the  *)
(* position of log_poll stays in step with the log, the port gets the      *)
(* characters in order, and only an overrun drops any.                     *)
(***************************************************************************)
EXTENDS StatusLed, LogCache, FiniteSetTheorems, SequenceTheorems, WellFoundedInduction, TLAPS

-----------------------------------------------------------------------------
(* The log: its positions wrap, so first what the remainder does. *)

\* A set of naturals that is not empty has a least member: the first line break.
LEMMA Least ==
    ASSUME NEW T \in SUBSET Nat, T # {}
    PROVE  \E x \in T : \A y \in T : x <= y
<1> DEFINE Less == OpToRel(<, Nat)
<1>1. IsWellFoundedOn(Less, Nat)
  BY NatLessThanWellFounded
<1>3. \A x, y \in Nat : <<y, x>> \in Less <=> y < x
  BY DEF OpToRel
<1> HIDE DEF Less
<1>2. \E x \in T : \A y \in T : ~ (<<y, x>> \in Less)
  BY <1>1, WFMin
<1> QED
  <2>1. PICK x \in T : \A y \in T : ~ (<<y, x>> \in Less)
    BY <1>2
  <2>2. \A y \in T : ~(y < x)
    BY <1>3, <2>1
  <2>3. \A y \in T : x <= y
    BY <2>2
  <2> QED
    BY <2>3

\* Division with remainder.
LEMMA DivMod ==
    ASSUME NEW m \in Nat \ {0}, NEW x \in Int
    PROVE  /\ x % m \in 0..(m - 1)
           /\ \E q \in Int : x = q * m + (x % m)
<1>1. x = m * (x \div m) + (x % m)
  OBVIOUS
<1>2. x \div m \in Int
  OBVIOUS
<1>4. x % m \in 0..(m-1)
  OBVIOUS
<1>3. m * (x \div m) = (x \div m) * m
  BY <1>2
<1> QED
  BY <1>1, <1>2, <1>3, <1>4

\* A multiple is zero or as far from it as the modulus.
LEMMA ProductSize ==
    ASSUME NEW m \in Nat \ {0}, NEW k \in Int
    PROVE  /\ k >= 1 => k * m >= m
           /\ k <= -1 => k * m <= -m
  OBVIOUS

\* There is one remainder.
LEMMA ModUnique ==
    ASSUME NEW m \in Nat \ {0}, NEW x \in Int, NEW q \in Int, NEW r \in 0..(m - 1),
           x = q * m + r
    PROVE  x % m = r
<1>1. PICK p \in Int : x = p * m + (x % m)
  BY DivMod
<1>2. x % m \in 0..(m - 1)
  BY DivMod
<1>3. (p - q) * m = r - (x % m)
  BY <1>1, <1>2
<1>4. p - q = 0
  <2>1. p - q \in Int
    OBVIOUS
  <2> QED
    BY <1>2, <1>3, <2>1, ProductSize
<1> QED
  BY <1>1, <1>2, <1>4

\* Wrapping before an addition does not matter.
LEMMA ModAdd ==
    ASSUME NEW m \in Nat \ {0}, NEW x \in Int, NEW y \in Int
    PROVE  ((x % m) + y) % m = (x + y) % m
<1> DEFINE r == x % m
           z == x + y
           t == z % m
<1>1. r \in Int /\ z \in Int /\ t \in 0..(m - 1)
  BY DivMod
<1>2. PICK p \in Int : x = p * m + r
  BY DivMod
<1> HIDE DEF r, z, t
<1>3. PICK q \in Int : z = q * m + t
  BY <1>1, DivMod DEF t
<1>4. r + y = (q - p) * m + t
  <2>1. z = x + y
    BY DEF z
  <2>2. q * m - p * m = (q - p) * m
    OBVIOUS
  <2>3. p * m \in Int /\ q * m \in Int /\ (q - p) * m \in Int
    OBVIOUS
  <2> QED
    BY <1>1, <1>2, <1>3, <2>1, <2>2, <2>3
<1>5. q - p \in Int /\ r + y \in Int
  BY <1>1
<1>6. (r + y) % m = t
  BY <1>1, <1>4, <1>5, ModUnique
<1> QED
  BY <1>6 DEF r, z, t

\* A multiple of the modulus keeps the remainder.
LEMMA ModMod ==
    ASSUME NEW m \in Nat \ {0}, NEW n \in Nat \ {0}, n % m = 0, NEW x \in Int
    PROVE  (x % n) % m = x % m
<1> DEFINE r == x % n
           t == x % m
<1>1. r \in Int /\ t \in 0..(m - 1)
  BY DivMod
<1>2. PICK p \in Int : x = p * n + r
  BY DivMod
<1>3. PICK q \in Int : x = q * m + t
  BY DivMod
<1>4. PICK k \in Int : n = k * m
  <2>0. n \in Int
    OBVIOUS
  <2>1. PICK k \in Int : n = k * m + (n % m)
    BY <2>0, DivMod
  <2>2. k * m \in Int
    OBVIOUS
  <2> QED
    BY <2>1, <2>2
<1> HIDE DEF r, t
<1>5. r = (q - p * k) * m + t
  <2>1. p * n = (p * k) * m
    BY <1>4
  <2>2. p * k \in Int /\ (p * k) * m \in Int /\ q * m \in Int
    OBVIOUS
  <2>3. (q - p * k) * m = q * m - (p * k) * m
    BY <2>2
  <2> QED
    BY <1>1, <1>2, <1>3, <2>1, <2>2, <2>3
<1>6. q - p * k \in Int
  OBVIOUS
<1>7. r % m = t
  BY <1>1, <1>5, <1>6, ModUnique
<1> QED
  BY <1>7 DEF r, t

-----------------------------------------------------------------------------
(* The log. *)

Piece == [len : Nat, break : BOOLEAN]

\* Who holds the mutex has a piece to print, and no call has more than two.
PrintInv ==
    \A c \in Cores : /\ Len(printing[c]) <= 2
                     /\ log_mutex = c => printing[c] # <<>>

\* What is asked for fits the bounds of the model.
BoundInv ==
    /\ written + ToCome <= MaxChars
    /\ written + ToCome - passed < Width

\* The positions are the counts of characters, wrapped.
CountsInv ==
    /\ g_logpos = written % Width
    /\ log_pos = (passed + left) % Width
    /\ passed + left <= written

\* The ring has the last characters but the one that the terminator may be on.
RingInv ==
    \A n \in Nat : n < written /\ written - n < LOGBUFSIZE => g_logbuffer[Slot(n)].n = n

\* What is being sent is where it was unless it has been printed over.
SendInv ==
    /\ data + left <= LOGBUFSIZE
    /\ \A i \in 0..(left - 1) : data + i \in raced \/ g_logbuffer[data + i].n = passed + i

LogInv == LogTypeOK /\ PrintInv /\ BoundInv /\ CountsInv /\ RingInv /\ SendInv

-----------------------------------------------------------------------------
(* Calls. *)

LEMMA Constants ==
    /\ LOGBUFSIZE \in Nat \ {0} /\ Width \in Nat \ {0} /\ Width > LOGBUFSIZE
    /\ Width % LOGBUFSIZE = 0 /\ SkipAhead \in 1..(LOGBUFSIZE - 1)
    /\ MaxText \in Nat \ {0} /\ MaxChars \in Nat
  BY LogAssumption

LEMMA SizeCases ==
    ASSUME NEW call \in Seq(Piece), Len(call) <= 2
    PROVE  /\ call = <<>> => Size(call) = 0
           /\ Len(call) = 1 => Size(call) = call[1].len
           /\ Len(call) = 2 => Size(call) = call[1].len + call[2].len
           /\ call = <<>> \/ Len(call) = 1 \/ Len(call) = 2
           /\ \A k \in 1..Len(call) : call[k] \in Piece /\ call[k].len \in Nat
           /\ Size(call) \in Nat
<1>1. Len(call) \in Nat /\ DOMAIN call = 1..Len(call)
  OBVIOUS
<1>2. call = <<>> <=> Len(call) = 0
  BY EmptySeq
<1>3. \A k \in 1..Len(call) : call[k] \in Piece /\ call[k].len \in Nat
  <2>1. \A k \in 1..Len(call) : call[k] \in Piece
    OBVIOUS
  <2>2. \A p \in Piece : p.len \in Nat
    BY DEF Piece
  <2> QED
    BY <2>1, <2>2
<1>4. Len(call) \in {0, 1, 2}
  BY <1>1
<1>5. CASE Len(call) = 0
  BY <1>1, <1>2, <1>5 DEF Size
<1>6. CASE Len(call) = 1
  BY <1>1, <1>2, <1>3, <1>6 DEF Size
<1>7. CASE Len(call) = 2
  BY <1>1, <1>2, <1>3, <1>7 DEF Size
<1> QED
  BY <1>3, <1>4, <1>5, <1>6, <1>7

LEMMA SizeNothing == Size(<<>>) = 0
<1>1. <<>> \in Seq(Piece) /\ Len(<<>>) <= 2
  OBVIOUS
<1> QED
  BY <1>1, SizeCases

\* One character less is to come.
LEMMA SizeCopy ==
    ASSUME NEW call \in Seq(Piece), Len(call) <= 2, call # <<>>, Head(call).len > 0
    PROVE  LET rest == [call EXCEPT ![1].len = @ - 1]
           IN  /\ rest \in Seq(Piece) /\ Len(rest) = Len(call) /\ rest # <<>>
               /\ Size(call) > 0 /\ Size(rest) = Size(call) - 1
<1> DEFINE first == [call[1] EXCEPT !.len = @ - 1]
           rest == [call EXCEPT ![1] = first]
<1>1. Len(call) \in {1, 2} /\ 1 \in 1..Len(call) /\ Head(call) = call[1] /\ call[1] \in Piece
  BY SizeCases, EmptySeq
<1>2. first \in Piece /\ first.len = call[1].len - 1
  BY <1>1 DEF Piece
<1> HIDE DEF first
<1>3. rest \in Seq(Piece) /\ Len(rest) = Len(call) /\ rest[1] = first
  BY <1>1, <1>2
<1>4. \A k \in 2..Len(call) : rest[k] = call[k]
  BY <1>1
<1>5. rest # <<>>
  BY <1>1, <1>3, EmptySeq
<1>6. [call EXCEPT ![1].len = @ - 1] = rest
  BY DEF first
<1> HIDE DEF rest
<1>7. Size(call) > 0 /\ Size(rest) = Size(call) - 1
  <2>1. CASE Len(call) = 1
    BY <1>1, <1>2, <1>3, <2>1, SizeCases
  <2>2. CASE Len(call) = 2
    <3>0. 2 \in 2..Len(call) /\ 2 \in 1..Len(call)
      BY <2>2
    <3>1. rest[2] = call[2] /\ call[2].len \in Nat
      BY <1>4, <3>0, SizeCases
    <3>2. Size(call) = call[1].len + call[2].len /\ Size(rest) = rest[1].len + rest[2].len
      BY <1>3, <2>2, SizeCases
    <3> QED
      BY <1>1, <1>2, <1>3, <3>1, <3>2 DEF Piece
  <2> QED
    BY <1>1, <2>1, <2>2
<1> QED
  BY <1>3, <1>5, <1>6, <1>7

\* A piece that is done has nothing to come.
LEMMA SizeTail ==
    ASSUME NEW call \in Seq(Piece), Len(call) <= 2, call # <<>>, Head(call).len = 0
    PROVE  /\ Tail(call) \in Seq(Piece) /\ Len(Tail(call)) <= 2
           /\ Size(Tail(call)) = Size(call)
<1> DEFINE rest == Tail(call)
<1>1. Len(call) \in {1, 2} /\ Head(call) = call[1] /\ call[1].len = 0
  BY SizeCases, EmptySeq
<1>2. /\ rest \in Seq(Piece) /\ Len(rest) = Len(call) - 1
      /\ \A k \in 1..Len(rest) : rest[k] = call[k + 1]
  BY HeadTailProperties
<1> HIDE DEF rest
<1>3. CASE Len(call) = 1
  <2>1. rest = <<>> /\ Len(rest) <= 2
    BY <1>2, <1>3, EmptySeq
  <2>2. Size(rest) = 0 /\ Size(call) = call[1].len
    BY <1>2, <1>3, <2>1, SizeCases
  <2> QED
    BY <1>1, <1>2, <2>1, <2>2 DEF rest
<1>4. CASE Len(call) = 2
  <2>1. Len(rest) = 1 /\ 1 \in 1..Len(rest)
    BY <1>2, <1>4
  <2>2. rest[1] = call[2] /\ Len(rest) <= 2
    BY <1>2, <2>1
  <2>3. Size(rest) = rest[1].len
    BY <1>2, <2>1, <2>2, SizeCases
  <2>4. 2 \in 1..Len(call)
    BY <1>4
  <2>5. Size(call) = call[1].len + call[2].len /\ call[2].len \in Nat
    BY <1>4, <2>4, SizeCases
  <2>6. Size(rest) = Size(call)
    BY <1>1, <2>2, <2>3, <2>5
  <2> QED
    BY <1>2, <2>2, <2>6 DEF rest
<1> QED
  BY <1>1, <1>3, <1>4

\* What Logmsg prints is one piece or two.
LEMMA CallsType ==
    \A call \in PrintCalls \cup PrintlnCalls : call \in Seq(Piece) /\ Len(call) <= 2
<1> DEFINE Texts == Strings \cup DecNumbers \cup {HexNumber}
<1>1. Texts \subseteq Piece /\ Newline \in Piece
  <2>1. 0..MaxText \subseteq Nat /\ 1..MaxText \subseteq Nat /\ MaxText \in Nat
    BY Constants
  <2> QED
    <3>1. Strings \subseteq Piece
      BY <2>1 DEF Strings, Piece
    <3>2. DecNumbers \subseteq Piece
      BY <2>1 DEF DecNumbers, Piece
    <3>3. HexNumber \in Piece
      BY <2>1 DEF HexNumber, Piece
    <3>4. Newline \in Piece
      BY DEF Newline, Piece
    <3> QED
      BY <3>1, <3>2, <3>3, <3>4
<1>2. PrintCalls = {<<x>> : x \in Texts} /\ PrintlnCalls = {<<x, Newline>> : x \in Texts}
  BY DEF PrintCalls, PrintlnCalls, Pieces
<1> HIDE DEF Texts
<1>3. \A x \in Piece : <<x>> \in Seq(Piece) /\ Len(<<x>>) = 1
  OBVIOUS
<1>4. \A x, y \in Piece : <<x, y>> \in Seq(Piece) /\ Len(<<x, y>>) = 2
  OBVIOUS
<1>5. \A call \in PrintCalls : call \in Seq(Piece) /\ Len(call) <= 2
  <2> TAKE call \in PrintCalls
  <2>1. PICK x \in Texts : call = <<x>>
    BY <1>2
  <2> QED
    BY <1>1, <1>3, <2>1
<1>6. \A call \in PrintlnCalls : call \in Seq(Piece) /\ Len(call) <= 2
  <2> TAKE call \in PrintlnCalls
  <2>1. PICK x \in Texts : call = <<x, Newline>>
    BY <1>2
  <2> QED
    BY <1>1, <1>4, <2>1
<1> QED
  BY <1>5, <1>6

\* What is still to come changes with what one core has left.
LEMMA ToComeChange ==
    ASSUME LogInv, NEW c \in Cores, NEW p \in Seq(Piece), Len(p) <= 2,
           printing' = [printing EXCEPT ![c] = p]
    PROVE  /\ ToCome \in Nat /\ Size(p) \in Nat /\ Size(printing[c]) \in Nat
           /\ ToCome' = ToCome - Size(printing[c]) + Size(p)
           /\ ToCome' \in Nat /\ ToCome >= Size(printing[c])
<1>1. \A d \in Cores : printing[d] \in Seq(Piece) /\ Len(printing[d]) <= 2
  BY DEF LogInv, LogTypeOK, PrintInv, Piece
<1>2. /\ Size(printing["core0"]) \in Nat /\ Size(printing["core1"]) \in Nat /\ Size(p) \in Nat
  BY <1>1, SizeCases DEF Cores
<1>3. \A d \in Cores : printing'[d] = IF d = c THEN p ELSE printing[d]
  BY DEF LogInv, LogTypeOK
<1>4. CASE c = "core0"
  <2>1. printing'["core0"] = p /\ printing'["core1"] = printing["core1"]
    BY <1>3, <1>4 DEF Cores
  <2> QED
    BY <1>2, <1>4, <2>1 DEF ToCome
<1>5. CASE c = "core1"
  <2>1. printing'["core1"] = p /\ printing'["core0"] = printing["core0"]
    BY <1>3, <1>5 DEF Cores
  <2> QED
    BY <1>2, <1>5, <2>1 DEF ToCome
<1> QED
  BY <1>4, <1>5 DEF Cores

\* What is to come is a number of characters.
LEMMA ToComeType == ASSUME LogInv PROVE ToCome \in Nat
<1>1. \A d \in Cores : printing[d] \in Seq(Piece) /\ Len(printing[d]) <= 2
  BY DEF LogInv, LogTypeOK, PrintInv, Piece
<1>2. Size(printing["core0"]) \in Nat /\ Size(printing["core1"]) \in Nat
  BY <1>1, SizeCases DEF Cores
<1> QED
  BY <1>2 DEF ToCome

\* The ring's length divides the range of the positions: a wrapped position has
\* the slot of the character's number.
LEMMA SlotValue ==
    ASSUME NEW x \in Int
    PROVE  /\ Slot(x) \in 0..(LOGBUFSIZE - 1)
           /\ Slot(x % Width) = Slot(x)
           /\ x % Width \in 0..(Width - 1)
  BY Constants, DivMod, ModMod DEF Slot

-----------------------------------------------------------------------------
(* Printing. *)

LEMMA LogInitInv == LogInit => LogInv
<1> SUFFICES ASSUME LogInit PROVE LogInv
  OBVIOUS
<1>1. /\ g_logbuffer = [i \in 0..LOGBUFSIZE |-> NUL] /\ g_logpos = 0 /\ log_pos = 0
      /\ log_mutex = "free" /\ printing = [c \in Cores |-> <<>>] /\ data = 0 /\ left = 0
      /\ written = 0 /\ passed = 0 /\ raced = {}
  BY DEF LogInit
<1>2. LogTypeOK
  <2>1. NUL \in Chars
    BY DEF Chars
  <2>2. printing \in [Cores -> Seq([len : Nat, break : BOOLEAN])]
    BY <1>1
  <2> QED
    BY <1>1, <2>1, <2>2, Constants DEF LogTypeOK
<1>3. PrintInv /\ RingInv /\ SendInv
  <2>1. \A c \in Cores : printing[c] = <<>> /\ log_mutex # c
    BY <1>1 DEF Cores
  <2>2. Len(<<>>) = 0
    OBVIOUS
  <2> QED
    BY <1>1, <2>1, <2>2, Constants DEF PrintInv, RingInv, SendInv
<1>4. BoundInv
  <2>1. Size(<<>>) = 0
    BY SizeNothing
  <2>2. ToCome = 0
    BY <1>1, <2>1 DEF ToCome, Cores
  <2> QED
    BY <1>1, <2>2, Constants DEF BoundInv
<1>5. CountsInv
  <2>1. 0 % Width = 0
    BY Constants
  <2> QED
    BY <1>1, <2>1 DEF CountsInv
<1> QED
  BY <1>2, <1>3, <1>4, <1>5 DEF LogInv

LEMMA StartPrintInv ==
    ASSUME LogInv, NEW c \in Cores, StartPrint(c)
    PROVE  LogInv'
<1>1. PICK call \in PrintCalls \cup PrintlnCalls :
          /\ written + ToCome + Size(call) <= MaxChars
          /\ written + ToCome + Size(call) - passed < Width
          /\ printing' = [printing EXCEPT ![c] = call]
  BY DEF StartPrint
<1>2. /\ printing[c] = <<>>
      /\ UNCHANGED <<g_logbuffer, g_logpos, written, log_mutex, log_pos, data, left, passed, raced>>
  BY DEF StartPrint, ring, poll
<1>3. call \in Seq(Piece) /\ Len(call) <= 2
  BY CallsType
<1>4. Size(printing[c]) = 0
  BY <1>2, SizeNothing
<1>5. ToCome' = ToCome + Size(call) /\ ToCome \in Nat /\ Size(call) \in Nat
  <2>1. ToCome' = ToCome - Size(printing[c]) + Size(call) /\ ToCome \in Nat /\ Size(call) \in Nat
    BY <1>1, <1>3, ToComeChange
  <2> QED
    BY <1>4, <2>1
<1>6. printing' \in [Cores -> Seq(Piece)] /\ \A d \in Cores : printing'[d] = IF d = c THEN call ELSE printing[d]
  BY <1>1, <1>3 DEF LogInv, LogTypeOK, Piece
<1>7. LogTypeOK'
  BY <1>2, <1>6 DEF LogInv, LogTypeOK, Piece
<1>8. PrintInv'
  <2>1. log_mutex # c
    BY <1>2 DEF LogInv, PrintInv
  <2> QED
    BY <1>2, <1>3, <1>6, <2>1 DEF LogInv, PrintInv
<1>9. BoundInv'
  BY <1>1, <1>2, <1>5 DEF LogInv, LogTypeOK, BoundInv
<1>10. CountsInv' /\ RingInv' /\ SendInv'
  BY <1>2 DEF LogInv, CountsInv, RingInv, SendInv
<1> QED
  BY <1>7, <1>8, <1>9, <1>10 DEF LogInv

LEMMA EnterInv ==
    ASSUME LogInv, NEW c \in Cores, Enter(c)
    PROVE  LogInv'
<1>1. /\ printing[c] # <<>> /\ log_mutex' = c
      /\ UNCHANGED <<g_logbuffer, g_logpos, written, printing, log_pos, data, left, passed, raced>>
  BY DEF Enter, ring, poll
<1> QED
  BY <1>1 DEF LogInv, LogTypeOK, PrintInv, BoundInv, ToCome, CountsInv, RingInv, SendInv

\* What a character in the ring does to what is being sent.
LEMMA StoreSends ==
    ASSUME LogInv, NEW char \in Chars, Store(char), UNCHANGED <<data, left, passed>>
    PROVE  SendInv' /\ raced' \subseteq 0..(LOGBUFSIZE - 1)
<1>1. /\ g_logbuffer' = [g_logbuffer EXCEPT ![Slot(g_logpos)] = char]
      /\ raced' = raced \cup ({Slot(g_logpos)} \cap (data..(data + left - 1)))
  BY DEF Store
<1>2. g_logpos \in Int /\ Slot(g_logpos) \in 0..(LOGBUFSIZE - 1)
  BY SlotValue DEF LogInv, LogTypeOK
<1>3. /\ data \in Nat /\ left \in Nat /\ data + left <= LOGBUFSIZE /\ LOGBUFSIZE \in Nat
      /\ g_logbuffer \in [0..LOGBUFSIZE -> Chars] /\ raced \subseteq 0..(LOGBUFSIZE - 1)
  BY Constants DEF LogInv, LogTypeOK, SendInv
<1>4. ASSUME NEW i \in 0..(left - 1)
      PROVE  data + i \in raced' \/ g_logbuffer'[data + i].n = passed + i
  <2>1. data + i \in 0..LOGBUFSIZE /\ data + i \in data..(data + left - 1)
    BY <1>3
  <2>2. data + i \in raced \/ g_logbuffer[data + i].n = passed + i
    BY DEF LogInv, SendInv
  <2>3. CASE data + i = Slot(g_logpos)
    BY <1>1, <2>1, <2>3
  <2>4. CASE data + i # Slot(g_logpos)
    BY <1>1, <1>3, <2>1, <2>2, <2>4
  <2> QED
    BY <2>3, <2>4
<1>5. raced' \subseteq 0..(LOGBUFSIZE - 1)
  BY <1>1, <1>2, <1>3
<1> QED
  BY <1>3, <1>4, <1>5 DEF SendInv

\* The slots of the characters in the ring differ.
LEMMA SlotsDiffer ==
    ASSUME NEW j \in Nat, NEW k \in Nat, j < k, k - j < LOGBUFSIZE
    PROVE  Slot(j) # Slot(k)
<1>0. j \in Int /\ k \in Int /\ LOGBUFSIZE \in Nat \ {0}
  BY Constants
<1>1. PICK p \in Int : j = p * LOGBUFSIZE + Slot(j)
  BY <1>0, DivMod DEF Slot
<1>2. PICK q \in Int : k = q * LOGBUFSIZE + Slot(k)
  BY <1>0, DivMod DEF Slot
<1>3. Slot(j) \in Int /\ Slot(k) \in Int
  BY SlotValue
<1>4. ASSUME Slot(j) = Slot(k) PROVE FALSE
  <2>1. k - j = (q - p) * LOGBUFSIZE
    BY <1>1, <1>2, <1>3, <1>4, Constants
  <2>2. q - p \in Int
    OBVIOUS
  <2>3. q - p >= 1 => (q - p) * LOGBUFSIZE >= LOGBUFSIZE
    BY <2>2, ProductSize, Constants
  <2>4. q - p <= -1 => (q - p) * LOGBUFSIZE <= -LOGBUFSIZE
    BY <2>2, ProductSize, Constants
  <2>5. q - p = 0 => (q - p) * LOGBUFSIZE = 0
    BY Constants
  <2> QED
    BY <2>1, <2>2, <2>3, <2>4, <2>5, Constants
<1> QED
  BY <1>4

LEMMA CopyCharInv ==
    ASSUME LogInv, NEW c \in Cores, CopyChar(c)
    PROVE  LogInv'
<1> DEFINE char == [n |-> written, break |-> Head(printing[c]).break]
           rest == [printing[c] EXCEPT ![1].len = @ - 1]
<1>1. /\ log_mutex = c /\ Head(printing[c]).len > 0 /\ Store(char)
      /\ g_logpos' = (g_logpos + 1) % Width /\ written' = written + 1
      /\ UNCHANGED <<log_mutex, log_pos, data, left, passed>>
  BY DEF CopyChar, poll
<1>2. /\ printing[c] \in Seq(Piece) /\ Len(printing[c]) <= 2 /\ printing[c] # <<>>
      /\ printing \in [Cores -> Seq(Piece)]
  BY <1>1 DEF LogInv, LogTypeOK, PrintInv, Piece
<1>3. /\ rest \in Seq(Piece) /\ Len(rest) = Len(printing[c]) /\ rest # <<>>
      /\ Size(printing[c]) > 0 /\ Size(rest) = Size(printing[c]) - 1
  BY <1>1, <1>2, SizeCopy
<1>4. printing' = [printing EXCEPT ![c] = rest]
  BY DEF CopyChar
<1> HIDE DEF rest
<1>5. ToCome' = ToCome - 1 /\ ToCome \in Nat /\ ToCome >= 1
  <2>1. Len(rest) <= 2
    BY <1>2, <1>3
  <2>2. /\ ToCome \in Nat /\ Size(rest) \in Nat /\ Size(printing[c]) \in Nat
        /\ ToCome' = ToCome - Size(printing[c]) + Size(rest) /\ ToCome >= Size(printing[c])
    BY <1>3, <1>4, <2>1, ToComeChange
  <2> QED
    BY <1>3, <2>2
<1>6. /\ written \in Nat /\ written < MaxChars /\ passed \in Nat /\ left \in Nat
      /\ g_logpos \in Int /\ g_logpos = written % Width
  BY <1>5, Constants DEF LogInv, LogTypeOK, BoundInv, CountsInv
<1>7. char \in Chars /\ char.n = written
  <2>1. Head(printing[c]) \in Piece
    BY <1>2, HeadTailProperties
  <2> QED
    BY <1>6, <2>1, Constants DEF Chars, Piece
<1>8. g_logbuffer' = [g_logbuffer EXCEPT ![Slot(g_logpos)] = char]
  BY <1>1 DEF Store
<1> HIDE DEF char
<1>9. SendInv' /\ raced' \subseteq 0..(LOGBUFSIZE - 1)
  BY <1>1, <1>7, StoreSends
<1>10. g_logpos' = (written + 1) % Width /\ g_logpos' \in 0..(Width - 1)
  <2>0. written \in Int /\ 1 \in Int /\ Width \in Nat \ {0}
    BY <1>6, Constants
  <2>1. ((written % Width) + 1) % Width = (written + 1) % Width
    BY <2>0, ModAdd
  <2>2. written + 1 \in Int
    BY <1>6
  <2> QED
    BY <1>1, <1>6, <2>1, <2>2, SlotValue
<1>11. printing' \in [Cores -> Seq(Piece)] /\ \A d \in Cores : printing'[d] = IF d = c THEN rest ELSE printing[d]
  BY <1>2, <1>3, <1>4
<1>12. LogTypeOK'
  <2>1. g_logbuffer' \in [0..LOGBUFSIZE -> Chars]
    BY <1>7, <1>8 DEF LogInv, LogTypeOK
  <2>2. written' \in 0..MaxChars
    BY <1>1, <1>6, Constants
  <2> QED
    BY <1>1, <1>9, <1>10, <1>11, <2>1, <2>2 DEF LogInv, LogTypeOK, Piece
<1>13. PrintInv'
  BY <1>1, <1>2, <1>3, <1>11 DEF LogInv, PrintInv
<1>14. BoundInv'
  BY <1>1, <1>5, <1>6, Constants DEF LogInv, BoundInv
<1>15. CountsInv'
  BY <1>1, <1>6, <1>10 DEF LogInv, CountsInv
<1>16. RingInv'
  <2> SUFFICES ASSUME NEW n \in Nat, n < written', written' - n < LOGBUFSIZE
               PROVE  g_logbuffer'[Slot(n)].n = n
    BY DEF RingInv
  <2>1. Slot(g_logpos) = Slot(written)
    BY <1>6, SlotValue
  <2>2. Slot(n) \in 0..LOGBUFSIZE /\ Slot(written) \in 0..LOGBUFSIZE
    <3>1. n \in Int /\ written \in Int /\ 0..(LOGBUFSIZE - 1) \subseteq 0..LOGBUFSIZE
      BY <1>6, Constants
    <3> QED
      BY <3>1, SlotValue
  <2>3. g_logbuffer \in [0..LOGBUFSIZE -> Chars]
    BY DEF LogInv, LogTypeOK
  <2>4. CASE n = written
    BY <1>7, <1>8, <2>1, <2>2, <2>3, <2>4
  <2>5. CASE n # written
    <3>1. n < written /\ written - n < LOGBUFSIZE
      BY <1>1, <1>6, <2>5, Constants
    <3>2. Slot(n) # Slot(written)
      BY <1>6, <3>1, SlotsDiffer
    <3>3. g_logbuffer[Slot(n)].n = n
      BY <3>1 DEF LogInv, RingInv
    <3> QED
      BY <1>8, <2>1, <2>2, <2>3, <3>2, <3>3
  <2> QED
    BY <2>4, <2>5
<1> QED
  BY <1>9, <1>12, <1>13, <1>14, <1>15, <1>16 DEF LogInv

\* The terminator stands where the next character will.
LEMMA TerminateInv ==
    ASSUME LogInv, NEW c \in Cores, Terminate(c)
    PROVE  LogInv'
<1> DEFINE rest == Tail(printing[c])
<1>1. /\ log_mutex = c /\ Head(printing[c]).len = 0 /\ Store(NUL) /\ log_mutex' = "free"
      /\ printing' = [printing EXCEPT ![c] = rest]
      /\ UNCHANGED <<g_logpos, written, log_pos, data, left, passed>>
  BY DEF Terminate, poll
<1>2. /\ printing[c] \in Seq(Piece) /\ Len(printing[c]) <= 2 /\ printing[c] # <<>>
      /\ printing \in [Cores -> Seq(Piece)]
  BY <1>1 DEF LogInv, LogTypeOK, PrintInv, Piece
<1>3. rest \in Seq(Piece) /\ Len(rest) <= 2 /\ Size(rest) = Size(printing[c])
  BY <1>1, <1>2, SizeTail
<1> HIDE DEF rest
<1>4. ToCome' = ToCome
  <2>1. /\ ToCome \in Nat /\ Size(rest) \in Nat /\ Size(printing[c]) \in Nat
        /\ ToCome' = ToCome - Size(printing[c]) + Size(rest)
    BY <1>1, <1>3, ToComeChange
  <2> QED
    BY <1>3, <2>1
<1>5. NUL \in Chars
  BY DEF Chars
<1>6. g_logbuffer' = [g_logbuffer EXCEPT ![Slot(g_logpos)] = NUL]
  BY <1>1 DEF Store
<1>7. SendInv' /\ raced' \subseteq 0..(LOGBUFSIZE - 1)
  BY <1>1, <1>5, StoreSends
<1>8. printing' \in [Cores -> Seq(Piece)] /\ \A d \in Cores : printing'[d] = IF d = c THEN rest ELSE printing[d]
  BY <1>1, <1>2, <1>3
<1>9. LogTypeOK'
  <2>1. g_logbuffer' \in [0..LOGBUFSIZE -> Chars]
    BY <1>5, <1>6 DEF LogInv, LogTypeOK
  <2> QED
    BY <1>1, <1>7, <1>8, <2>1 DEF LogInv, LogTypeOK, Piece
<1>10. PrintInv'
  BY <1>1, <1>3, <1>8 DEF LogInv, PrintInv, Cores
<1>11. BoundInv' /\ CountsInv'
  BY <1>1, <1>4 DEF LogInv, BoundInv, CountsInv
<1>12. RingInv'
  <2> SUFFICES ASSUME NEW n \in Nat, n < written, written - n < LOGBUFSIZE
               PROVE  g_logbuffer'[Slot(n)].n = n
    BY <1>1 DEF RingInv
  <2>1. written \in Nat /\ g_logpos = written % Width
    BY DEF LogInv, LogTypeOK, CountsInv
  <2>2. Slot(g_logpos) = Slot(written) /\ Slot(n) \in 0..LOGBUFSIZE
    <3>1. n \in Int /\ written \in Int /\ 0..(LOGBUFSIZE - 1) \subseteq 0..LOGBUFSIZE
      BY <2>1, Constants
    <3> QED
      BY <2>1, <3>1, SlotValue
  <2>3. Slot(n) # Slot(written)
    BY <2>1, SlotsDiffer
  <2>4. g_logbuffer[Slot(n)].n = n /\ g_logbuffer \in [0..LOGBUFSIZE -> Chars]
    BY DEF LogInv, RingInv, LogTypeOK
  <2> QED
    BY <1>6, <2>2, <2>3, <2>4
<1> QED
  BY <1>7, <1>9, <1>10, <1>11, <1>12 DEF LogInv

-----------------------------------------------------------------------------
(* Sending. *)

LEMMA SendCharInv ==
    ASSUME LogInv, SendChar
    PROVE  LogInv'
<1>1. /\ left > 0 /\ data' = data + 1 /\ left' = left - 1 /\ passed' = passed + 1
      /\ UNCHANGED <<g_logbuffer, g_logpos, written, log_mutex, printing, log_pos, raced>>
  BY DEF SendChar, ring
<1>2. /\ data \in Nat /\ left \in Nat /\ passed \in Nat /\ written \in 0..MaxChars
      /\ data + left <= LOGBUFSIZE /\ passed + left <= written /\ LOGBUFSIZE \in Nat
      /\ MaxChars \in Nat /\ left <= LOGBUFSIZE
  BY Constants DEF LogInv, LogTypeOK, SendInv, CountsInv
<1>3. LogTypeOK'
  <2>1. data' \in 0..LOGBUFSIZE /\ left' \in 0..LOGBUFSIZE /\ passed' \in 0..MaxChars
    BY <1>1, <1>2
  <2> QED
    BY <1>1, <2>1 DEF LogInv, LogTypeOK
<1>4. PrintInv' /\ RingInv'
  BY <1>1 DEF LogInv, PrintInv, RingInv
<1>5. BoundInv'
  <2>1. ToCome' = ToCome
    BY <1>1 DEF ToCome
  <2>2. ToCome \in Nat
    BY ToComeType
  <2> QED
    BY <1>1, <1>2, <2>1, <2>2, Constants DEF LogInv, BoundInv
<1>6. CountsInv'
  <2>1. passed' + left' = passed + left
    BY <1>1, <1>2
  <2> QED
    BY <1>1, <2>1 DEF LogInv, CountsInv
<1>7. SendInv'
  <2>1. data' + left' <= LOGBUFSIZE
    BY <1>1, <1>2
  <2>2. ASSUME NEW i \in 0..(left' - 1)
        PROVE  data' + i \in raced' \/ g_logbuffer'[data' + i].n = passed' + i
    <3>1. i + 1 \in 0..(left - 1) /\ data + (i + 1) = data' + i /\ passed + (i + 1) = passed' + i
      BY <1>1, <1>2
    <3>2. data + (i + 1) \in raced \/ g_logbuffer[data + (i + 1)].n = passed + (i + 1)
      BY <3>1 DEF LogInv, SendInv
    <3> QED
      BY <1>1, <3>1, <3>2
  <2> QED
    BY <2>1, <2>2 DEF SendInv
<1> QED
  BY <1>3, <1>4, <1>5, <1>6, <1>7 DEF LogInv

LEMMA WriteReturnsInv ==
    ASSUME LogInv, WriteReturns
    PROVE  LogInv'
<1>1. /\ left > 0 /\ left' = 0 /\ log_pos' = (log_pos - left) % Width
      /\ UNCHANGED <<g_logbuffer, g_logpos, written, log_mutex, printing, data, passed, raced>>
  BY DEF WriteReturns, ring
<1>2. /\ data \in Nat /\ left \in Nat /\ passed \in Nat /\ written \in Nat
      /\ data + left <= LOGBUFSIZE /\ passed + left <= written /\ LOGBUFSIZE \in Nat
      /\ log_pos = (passed + left) % Width
  BY Constants DEF LogInv, LogTypeOK, SendInv, CountsInv
<1>3. log_pos' = passed % Width /\ log_pos' \in 0..(Width - 1)
  <2>0. passed + left \in Int /\ -left \in Int /\ Width \in Nat \ {0} /\ log_pos \in Int
    BY <1>2, Constants DEF LogInv, LogTypeOK
  <2>1. (((passed + left) % Width) + (-left)) % Width = ((passed + left) + (-left)) % Width
    BY <2>0, ModAdd
  <2>2. (passed + left) + (-left) = passed /\ log_pos + (-left) = log_pos - left
    BY <1>2, <2>0
  <2>3. passed \in Int
    BY <1>2
  <2> QED
    BY <1>1, <1>2, <2>1, <2>2, <2>3, SlotValue
<1>4. LogTypeOK' /\ SendInv'
  BY <1>1, <1>2, <1>3 DEF LogInv, LogTypeOK, SendInv
<1>5. CountsInv'
  <2>1. passed' + left' = passed /\ passed <= written
    BY <1>1, <1>2
  <2> QED
    BY <1>1, <1>3, <2>1 DEF LogInv, CountsInv
<1> QED
  BY <1>1, <1>4, <1>5 DEF LogInv, PrintInv, RingInv, BoundInv, ToCome

\* The positions tell how far apart the counts are.
LEMMA Lag ==
    ASSUME NEW a \in Nat, NEW b \in Nat, b <= a, a - b < Width
    PROVE  ((a % Width) - (b % Width)) % Width = a - b
<1> DEFINE u == a % Width
           v == b % Width
<1>0. a \in Int /\ b \in Int /\ Width \in Nat \ {0}
  BY Constants
<1>1. u \in Int /\ v \in Int
  BY <1>0, SlotValue
<1>2. PICK q \in Int : a = q * Width + u
  BY <1>0, DivMod
<1>3. PICK p \in Int : b = p * Width + v
  BY <1>0, DivMod
<1> HIDE DEF u, v
<1>4. u - v = (p - q) * Width + (a - b)
  <2>1. (p - q) * Width = p * Width - q * Width
    BY <1>0
  <2>2. p * Width \in Int /\ q * Width \in Int
    BY <1>0
  <2> QED
    BY <1>1, <1>2, <1>3, <2>1, <2>2
<1>5. u - v \in Int /\ p - q \in Int /\ a - b \in 0..(Width - 1)
  BY <1>0, <1>1
<1>6. (u - v) % Width = a - b
  BY <1>0, <1>4, <1>5, ModUnique
<1> QED
  BY <1>6 DEF u, v

\* Where sending resumes: at character number S.
LEMMA NewStart ==
    ASSUME LogInv, left = 0
    PROVE  \E S \in Nat :
              /\ StartPos = S % Width
              /\ passed <= S /\ S <= written /\ written - S < LOGBUFSIZE
              /\ S # passed => /\ written - passed >= LOGBUFSIZE
                               /\ S # written => g_logbuffer[Slot(StartPos)].break
<1> DEFINE lag == (g_logpos - log_pos) % Width
           from == (g_logpos - LOGBUFSIZE + SkipAhead) % Width
           D == LOGBUFSIZE - SkipAhead
<1>1. /\ passed \in Nat /\ written \in Nat /\ passed <= written /\ written - passed < Width
      /\ g_logpos = written % Width /\ log_pos = passed % Width
      /\ g_logpos \in 0..(Width - 1)
  <2>1. ToCome \in Nat
    BY ToComeType
  <2>2. passed + left = passed /\ passed \in Nat /\ written \in Nat
    BY DEF LogInv, LogTypeOK
  <2> QED
    BY <2>1, <2>2, Constants DEF LogInv, LogTypeOK, CountsInv, BoundInv
<1>2. lag = written - passed
  BY <1>1, Lag
<1>3. D \in 1..(LOGBUFSIZE - 1) /\ D < Width /\ g_logpos - LOGBUFSIZE + SkipAhead = g_logpos - D
  BY <1>1, Constants
<1>4. StartPos = IF written - passed >= LOGBUFSIZE THEN LineBreakFrom(from) ELSE log_pos
  BY <1>2 DEF StartPos, Overrun
<1> HIDE DEF lag, D
<1>5. CASE ~ (written - passed >= LOGBUFSIZE)
  <2>1. StartPos = passed % Width /\ written - passed < LOGBUFSIZE
    BY <1>1, <1>4, <1>5, Constants
  <2> QED
    BY <1>1, <2>1
<1>6. CASE written - passed >= LOGBUFSIZE
  <2> DEFINE breaks == {p \in from..(g_logpos - 1) : g_logbuffer[Slot(p)].break}
  <2>1. StartPos = IF breaks = {} THEN g_logpos ELSE Min(breaks)
    BY <1>4, <1>6 DEF LineBreakFrom
  <2>2. from \in 0..(Width - 1)
    <3>1. g_logpos - LOGBUFSIZE + SkipAhead \in Int
      BY <1>1, Constants
    <3> QED
      BY <3>1, SlotValue
  <2>3. CASE breaks = {}
    <3>1. StartPos = written % Width
      BY <1>1, <2>1, <2>3
    <3>2. written - written < LOGBUFSIZE
      BY <1>1, Constants
    <3> QED
      BY <1>1, <1>6, <3>1, <3>2
  <2>4. CASE breaks # {}
    <3>1. breaks \in SUBSET Nat
      BY <1>1, <2>2
    <3>2. StartPos = Min(breaks) /\ Min(breaks) = CHOOSE x \in breaks : \A y \in breaks : x <= y
      BY <2>1, <2>4 DEF Min
    <3>3. \E x \in breaks : \A y \in breaks : x <= y
      BY <2>4, <3>1, Least
    <3> HIDE DEF breaks
    <3>4. StartPos \in breaks
      BY <3>2, <3>3
    <3>5. StartPos \in from..(g_logpos - 1) /\ g_logbuffer[Slot(StartPos)].break
      BY <3>4 DEF breaks
    <3> HIDE DEF from
    <3> DEFINE p == StartPos
    <3>6. p \in 0..(Width - 1) /\ from <= p /\ p < g_logpos
      BY <1>1, <2>2, <3>5, Constants
    <3> HIDE DEF p
    <3>7. g_logpos - D <= p
      <4>1. CASE g_logpos - D >= 0
        <5>1. (g_logpos - D) = 0 * Width + (g_logpos - D) /\ g_logpos - D \in 0..(Width - 1) /\ g_logpos - D \in Int
          BY <1>1, <1>3, <4>1, Constants
        <5>2. (g_logpos - D) % Width = g_logpos - D
          BY <5>1, ModUnique, Constants
        <5>3. from = g_logpos - D
          BY <1>3, <5>2 DEF from
        <5> QED
          BY <3>6, <5>3
      <4>2. CASE g_logpos - D < 0
        BY <1>1, <1>3, <3>6, <4>2, Constants
      <4> QED
        BY <1>1, <1>3, <4>1, <4>2, Constants
    <3> DEFINE S == written - (g_logpos - p)
    <3>8. /\ S \in Nat /\ passed <= S /\ S < written /\ written - S < LOGBUFSIZE
          /\ S \in Int
      BY <1>1, <1>3, <1>6, <3>6, <3>7, Constants
    <3>9. p = S % Width
      <4>0. written \in Int /\ Width \in Nat \ {0} /\ Width \in Int
        BY <1>1, Constants
      <4>1. PICK q \in Int : written = q * Width + g_logpos
        BY <1>1, <4>0, DivMod
      <4>2. q * Width \in Int
        BY <4>0
      <4>3. S = q * Width + p
        BY <1>1, <3>6, <4>1, <4>2
      <4> HIDE DEF S
      <4> QED
        BY <3>6, <3>8, <4>0, <4>3, ModUnique
    <3> HIDE DEF S
    <3>10. StartPos = S % Width /\ S <= written
      BY <1>1, <3>8, <3>9 DEF p
    <3>11. S \in Nat /\ passed <= S /\ written - S < LOGBUFSIZE
      BY <3>8
    <3> QED
      BY <1>6, <3>5, <3>10, <3>11
  <2> QED
    BY <2>3, <2>4
<1> QED
  BY <1>5, <1>6

\* What there is to send from character S on, in slots next to each other.
LEMMA AvailableFrom ==
    ASSUME LogInv, NEW S \in Nat, S <= written, written - S < LOGBUFSIZE,
           NEW start, start = S % Width
    PROVE  /\ Available(start) \in 0..(written - S)
           /\ Slot(start) = Slot(S) /\ Slot(S) \in 0..(LOGBUFSIZE - 1)
           /\ Slot(S) + Available(start) <= LOGBUFSIZE
           /\ \A i \in 0..(Available(start) - 1) : Slot(S + i) = Slot(S) + i
           /\ written - ((g_logpos - start) % Width) = S
<1> DEFINE L == LOGBUFSIZE
           A == Available(start)
<1>1. written \in Nat /\ written \in Int /\ S \in Int /\ L \in Nat \ {0} /\ g_logpos = written % Width
  BY Constants DEF LogInv, LogTypeOK, CountsInv
<1>2. (g_logpos - start) % Width = written - S
  <2>1. written - S < Width
    BY <1>1, Constants
  <2> QED
    BY <1>1, <2>1, Lag
<1>3. /\ Slot(start) = Slot(S) /\ Slot(S) \in 0..(L - 1)
      /\ Slot(g_logpos) = Slot(written) /\ Slot(written) \in 0..(L - 1)
  BY <1>1, SlotValue
<1>4. PICK q \in Int : written = q * L + Slot(written)
  BY <1>1, DivMod DEF Slot
<1>5. PICK p \in Int : S = p * L + Slot(S)
  BY <1>1, DivMod DEF Slot
<1>6. A = IF Slot(written) >= Slot(S) THEN written - S ELSE L - Slot(S)
  BY <1>2, <1>3 DEF Available
<1> HIDE DEF A
<1>7. A \in 0..(written - S) /\ Slot(S) + A <= L
  <2>1. written - S = (q - p) * L + (Slot(written) - Slot(S))
    <3>1. (q - p) * L = q * L - p * L
      BY <1>1
    <3>2. q * L \in Int /\ p * L \in Int /\ Slot(S) \in Int /\ Slot(written) \in Int
      BY <1>1, <1>3
    <3> QED
      BY <1>4, <1>5, <3>1, <3>2
  <2>2. /\ q - p \in Int
        /\ q - p >= 1 => (q - p) * L >= L
        /\ q - p <= -1 => (q - p) * L <= -L
        /\ q - p = 0 => (q - p) * L = 0
    BY <1>1, ProductSize
  <2> DEFINE k == q - p
             z == (q - p) * L
  <2>3. z \in Int /\ k \in Int
    BY <1>1
  <2>4. /\ written - S = z + (Slot(written) - Slot(S))
        /\ k >= 1 => z >= L
        /\ k <= -1 => z <= -L
        /\ k = 0 => z = 0
    BY <2>1, <2>2
  <2> HIDE DEF k, z
  <2>5. CASE Slot(written) >= Slot(S)
    BY <1>1, <1>3, <1>6, <2>3, <2>4, <2>5
  <2>6. CASE ~ (Slot(written) >= Slot(S))
    BY <1>1, <1>3, <1>6, <2>3, <2>4, <2>6
  <2> QED
    BY <2>5, <2>6
<1>8. ASSUME NEW i \in 0..(A - 1) PROVE Slot(S + i) = Slot(S) + i
  <2>1. S + i \in Int /\ Slot(S) + i \in 0..(L - 1) /\ p * L \in Int
    BY <1>1, <1>3, <1>7
  <2>2. S + i = p * L + (Slot(S) + i)
    BY <1>3, <1>5, <2>1
  <2>3. (S + i) % L = Slot(S) + i
    BY <1>1, <2>1, <2>2, ModUnique
  <2> QED
    BY <2>3 DEF Slot
<1>9. written - (written - S) = S
  BY <1>1
<1> QED
  BY <1>2, <1>3, <1>7, <1>8, <1>9 DEF A

LEMMA GetBufferInv ==
    ASSUME LogInv, GetBuffer
    PROVE  /\ LogInv'
           /\ passed' # passed => /\ written - passed >= LOGBUFSIZE
                                  /\ left' > 0 => g_logbuffer[data'].break
<1> DEFINE A == Available(StartPos)
<1>1. /\ left = 0 /\ data' = Slot(StartPos) /\ left' = A
      /\ log_pos' = (StartPos + A) % Width
      /\ passed' = written - ((g_logpos - StartPos) % Width) /\ raced' = {}
      /\ UNCHANGED <<g_logbuffer, g_logpos, written, log_mutex, printing>>
  BY DEF GetBuffer, ring
<1>2. PICK S \in Nat :
         /\ StartPos = S % Width
         /\ passed <= S /\ S <= written /\ written - S < LOGBUFSIZE
         /\ S # passed => /\ written - passed >= LOGBUFSIZE
                          /\ S # written => g_logbuffer[Slot(StartPos)].break
  BY <1>1, NewStart
<1>3. /\ A \in 0..(written - S)
      /\ Slot(StartPos) = Slot(S) /\ Slot(S) \in 0..(LOGBUFSIZE - 1)
      /\ Slot(S) + A <= LOGBUFSIZE
      /\ \A i \in 0..(A - 1) : Slot(S + i) = Slot(S) + i
      /\ written - ((g_logpos - StartPos) % Width) = S
  BY <1>2, AvailableFrom
<1>4. passed' = S /\ data' = Slot(S) /\ left' = A
  BY <1>1, <1>3
<1> HIDE DEF A
<1>5. /\ written \in 0..MaxChars /\ written \in Nat /\ passed \in Nat /\ MaxChars \in Nat
      /\ LOGBUFSIZE \in Nat \ {0} /\ A \in Nat /\ S + A \in Int /\ S + A <= written
  BY <1>2, <1>3, Constants DEF LogInv, LogTypeOK
<1>6. log_pos' = (S + A) % Width /\ log_pos' \in 0..(Width - 1)
  <2>0. S \in Int /\ A \in Int /\ Width \in Nat \ {0}
    BY <1>5, Constants
  <2>1. ((S % Width) + A) % Width = (S + A) % Width
    BY <2>0, ModAdd
  <2> QED
    BY <1>1, <1>2, <1>5, <2>1, SlotValue
<1>7. LogTypeOK'
  <2>1. data' \in 0..LOGBUFSIZE /\ left' \in 0..LOGBUFSIZE /\ passed' \in 0..MaxChars
    BY <1>2, <1>3, <1>4, <1>5
  <2> QED
    BY <1>1, <1>6, <2>1 DEF LogInv, LogTypeOK
<1>8. PrintInv' /\ RingInv'
  BY <1>1 DEF LogInv, PrintInv, RingInv
<1>9. BoundInv'
  <2>1. ToCome' = ToCome
    BY <1>1 DEF ToCome
  <2>2. ToCome \in Nat
    BY ToComeType
  <2> QED
    BY <1>1, <1>2, <1>4, <1>5, <2>1, <2>2, Constants DEF LogInv, BoundInv
<1>10. CountsInv'
  BY <1>1, <1>4, <1>5, <1>6 DEF LogInv, CountsInv
<1>11. SendInv'
  <2>1. data' + left' <= LOGBUFSIZE
    BY <1>3, <1>4
  <2>2. ASSUME NEW i \in 0..(left' - 1)
        PROVE  data' + i \in raced' \/ g_logbuffer'[data' + i].n = passed' + i
    <3>1. Slot(S + i) = Slot(S) + i
      BY <1>3, <1>4
    <3>2. S + i \in Nat /\ S + i < written /\ written - (S + i) < LOGBUFSIZE
      BY <1>2, <1>4, <1>5
    <3>3. g_logbuffer[Slot(S + i)].n = S + i
      BY <3>2 DEF LogInv, RingInv
    <3> QED
      BY <1>1, <1>4, <3>1, <3>3
  <2> QED
    BY <2>1, <2>2 DEF SendInv
<1>12. passed' # passed => /\ written - passed >= LOGBUFSIZE
                           /\ left' > 0 => g_logbuffer[data'].break
  <2>1. left' > 0 => S # written
    BY <1>3, <1>4, <1>5
  <2> QED
    BY <1>1, <1>2, <1>4, <2>1
<1> QED
  BY <1>7, <1>8, <1>9, <1>10, <1>11, <1>12 DEF LogInv

-----------------------------------------------------------------------------
(* The properties. *)

LEMMA LogStep ==
    ASSUME LogInv, [LogNext]_logVars
    PROVE  /\ LogInv'
           /\ [passed' > passed + 1 \/ (passed' # passed /\ left = 0)
                 => /\ written - passed >= LOGBUFSIZE
                    /\ left' > 0 => g_logbuffer[data'].break]_logVars
           /\ [data' = data + 1 /\ left' = left - 1
                 => data \in raced \/ g_logbuffer[data].n = passed]_logVars
<1>0. /\ passed \in Nat /\ data \in Nat /\ left \in Nat
  BY DEF LogInv, LogTypeOK
<1>1. CASE UNCHANGED logVars
  <2>1. UNCHANGED <<g_logbuffer, g_logpos, written, log_mutex, printing, log_pos, data, left, passed, raced>>
    BY <1>1 DEF logVars, ring, poll
  <2>2. LogInv'
    BY <2>1 DEF LogInv, LogTypeOK, PrintInv, BoundInv, ToCome, CountsInv, RingInv, SendInv
  <2> QED
    BY <1>1, <2>2
<1>2. ASSUME NEW c \in Cores, StartPrint(c) \/ Enter(c) \/ CopyChar(c) \/ Terminate(c)
      PROVE  LogInv' /\ UNCHANGED <<data, left, passed>>
  <2>1. UNCHANGED <<data, left, passed>>
    BY <1>2 DEF StartPrint, Enter, CopyChar, Terminate, poll
  <2> QED
    BY <1>2, <2>1, StartPrintInv, EnterInv, CopyCharInv, TerminateInv
<1>3. CASE \E c \in Cores : StartPrint(c) \/ LogRaw(c)
  <2>1. LogInv' /\ UNCHANGED <<data, left, passed>>
    BY <1>2, <1>3 DEF LogRaw
  <2> QED
    BY <1>0, <2>1
<1>4. CASE GetBuffer
  <2>1. left = 0 /\ left' \in Nat /\ LogInv'
    BY <1>4, GetBufferInv DEF GetBuffer, LogInv, LogTypeOK
  <2>2. ~ (left' = left - 1)
    BY <2>1
  <2>3. passed' > passed + 1 => passed' # passed
    BY <1>0
  <2> QED
    BY <1>4, <2>1, <2>2, <2>3, GetBufferInv
<1>5. CASE SendChar
  <2>1. left > 0 /\ passed' = passed + 1 /\ LogInv'
    BY <1>5, SendCharInv DEF SendChar
  <2>2. 0 \in 0..(left - 1) /\ data + 0 = data /\ passed + 0 = passed
    BY <1>0, <2>1
  <2>3. data \in raced \/ g_logbuffer[data].n = passed
    BY <2>2 DEF LogInv, SendInv
  <2> QED
    BY <1>0, <2>1, <2>3
<1>6. CASE WriteReturns
  <2>1. left > 0 /\ UNCHANGED <<data, passed>> /\ LogInv'
    BY <1>6, WriteReturnsInv DEF WriteReturns
  <2> QED
    BY <1>0, <2>1
<1> QED
  BY <1>1, <1>3, <1>4, <1>5, <1>6 DEF LogNext

LEMMA LogAlways == LogSpec => []LogInv
<1>1. LogInit => LogInv
  BY LogInitInv
<1>2. LogInv /\ [LogNext]_logVars => LogInv'
  BY LogStep
<1> QED
  BY <1>1, <1>2, PTL DEF LogSpec

\* The position of log_poll stays in step with the characters it has passed.
THEOREM PositionTheorem == LogSpec => []PositionInStep
<1>1. LogInv => PositionInStep
  BY DEF LogInv, CountsInv, PositionInStep
<1> QED
  BY <1>1, LogAlways, PTL

\* The port gets the characters in the order they were printed, unless core 0
\* printed over the slot in the meantime.
THEOREM StreamTheorem == LogSpec => StreamIntact
<1>1. LogInv /\ [LogNext]_logVars
        => [data' = data + 1 /\ left' = left - 1
              => data \in raced \/ g_logbuffer[data].n = passed]_logVars
  BY LogStep
<1> QED
  BY <1>1, LogAlways, PTL DEF LogSpec, StreamIntact

\* Only an overrun drops characters, and sending resumes at a line break.
THEOREM DropsTheorem == LogSpec => DropsOnlyOverrun
<1>1. LogInv /\ [LogNext]_logVars
        => [passed' > passed + 1 \/ (passed' # passed /\ left = 0)
              => /\ written - passed >= LOGBUFSIZE
                 /\ left' > 0 => g_logbuffer[data'].break]_logVars
  BY LogStep
<1> QED
  BY <1>1, LogAlways, PTL DEF LogSpec, DropsOnlyOverrun

-----------------------------------------------------------------------------
(* The settings and the LED. *)

USE DivisorAssumption DEF DivisorAssumption

\* The page only passes init()'s test of the magic number with a divisor that
\* can be divided by; RAM keeps the magic number for the next save.
PageInv ==
    /\ settings.magic = "valid" /\ settings.divisor # 0
    /\ flash.magic = "valid" => flash.divisor # 0

\* The promise a completed write gave is what its page loads as.
PromiseInv ==
    promised # Unpromised => /\ promised = Promise(Load(flash))
                             /\ pc \notin {"erase", "program"}

IInv == TypeOK /\ PageInv /\ PromiseInv

\* A page is the record of its fields.
LEMMA PageFields ==
    ASSUME NEW p \in Pages
    PROVE  p = [magic |-> p.magic, led_on |-> p.led_on, divisor |-> p.divisor]
BY DEF Pages

\* reset() keeps the magic number and sets the other fields.
LEMMA ResetValue ==
    ASSUME NEW p \in Pages
    PROVE  /\ Reset(p) = [magic |-> p.magic, led_on |-> 1, divisor |-> DefaultDivisor]
           /\ Reset(p) \in Pages
<1>1. DefaultDivisor \in Divisors
  BY DEF Divisors
<1>2. Reset(p) = [magic |-> p.magic, led_on |-> 1, divisor |-> DefaultDivisor]
  <2>1. [p EXCEPT !.led_on = 1] =
          [magic |-> p.magic, led_on |-> 1, divisor |-> p.divisor]
    BY PageFields
  <2>2. Reset(p) = [[p EXCEPT !.led_on = 1] EXCEPT !.divisor = DefaultDivisor]
    BY DEF Reset
  <2> QED BY <2>1, <2>2
<1> QED
  BY <1>1, <1>2 DEF Pages

\* The defaults, field by field.
LEMMA DefaultsValue ==
    /\ Defaults = [magic |-> "valid", led_on |-> 1, divisor |-> DefaultDivisor]
    /\ Defaults \in Pages
    /\ Defaults.divisor # 0
<1>1. [Erased EXCEPT !.magic = "valid"] =
        [magic |-> "valid", led_on |-> 1, divisor |-> ErasedByte]
  BY DEF Erased
<1>2. [Erased EXCEPT !.magic = "valid"] \in Pages
  BY <1>1 DEF Pages, Magics, Divisors
<1> QED
  BY <1>1, <1>2, ResetValue DEF Defaults

\* The promise of a completed write, or of a new device, holds for every later
\* boot: the invariant of FlashSettings is inductive.
LEMMA Inductive == Spec => []IInv
<1>1. Init => IInv
  BY DefaultsValue DEF Init, IInv, TypeOK, PageInv, PromiseInv, Pages, Magics, Divisors,
     Load, Promise, Erased
<1>2. IInv /\ [Next]_vars => IInv'
  <2> SUFFICES ASSUME IInv, [Next]_vars PROVE IInv'
    OBVIOUS
  <2> USE DEF IInv
  <2>1. CASE Faster
    <3>1. TypeOK'
      BY <2>1 DEF Faster, TypeOK, Pages, Magics, Divisors, PageInv
    <3>2. PageInv'
      BY <2>1 DEF Faster, TypeOK, Pages, Magics, Divisors, PageInv
    <3>3. PromiseInv'
      BY <2>1 DEF Faster, PromiseInv
    <3> QED BY <3>1, <3>2, <3>3
  <2>2. CASE Slower
    <3>1. TypeOK'
      BY <2>2 DEF Slower, TypeOK, Pages, Magics, Divisors, PageInv
    <3>2. PageInv'
      BY <2>2 DEF Slower, TypeOK, Pages, Magics, Divisors, PageInv
    <3>3. PromiseInv'
      BY <2>2 DEF Slower, PromiseInv
    <3> QED BY <3>1, <3>2, <3>3
  <2>3. CASE ToggleLed
    <3>1. TypeOK'
      BY <2>3 DEF ToggleLed, TypeOK, Pages, Magics, Divisors, PageInv, Flip
    <3>2. PageInv'
      BY <2>3 DEF ToggleLed, TypeOK, Pages, Magics, Divisors, PageInv, Flip
    <3>3. PromiseInv'
      BY <2>3 DEF ToggleLed, PromiseInv, Flip
    <3> QED BY <3>1, <3>2, <3>3
  <2>4. CASE SaveOrClear
    <3>1. TypeOK'
      BY <2>4 DEF SaveOrClear, TypeOK, Pages, Magics, Divisors, PageInv
    <3>2. PageInv'
      BY <2>4 DEF SaveOrClear, TypeOK, Pages, Magics, Divisors, PageInv
    <3>3. PromiseInv'
      BY <2>4 DEF SaveOrClear, PromiseInv
    <3> QED BY <3>1, <3>2, <3>3
  <2>5. CASE Erase
    <3>1. TypeOK'
      BY <2>5 DEF Erase, TypeOK, Pages, Magics, Divisors, PageInv, Erased
    <3>2. PageInv'
      BY <2>5 DEF Erase, TypeOK, Pages, Magics, Divisors, PageInv, Erased
    <3>3. PromiseInv'
      BY <2>5 DEF Erase, PromiseInv, Erased
    <3> QED BY <3>1, <3>2, <3>3
  <2>6. CASE Program
    <3>1. TypeOK'
      BY <2>6, DefaultsValue DEF Program, Promise, TypeOK, Pages, Magics, Divisors,
                                 PageInv, Buffer, Zeros, Load, Erased
    <3>2. PageInv'
      BY <2>6, DefaultsValue DEF Program, Promise, TypeOK, Pages, Magics, Divisors,
                                 PageInv, Buffer, Zeros, Load, Erased
    <3>3. PromiseInv'
      BY <2>6, DefaultsValue DEF Program, Promise, PromiseInv, PageInv, Buffer, Zeros,
                                 Load, Erased
    <3> QED BY <3>1, <3>2, <3>3
  <2>7. CASE Finish
    <3>1. TypeOK'
      BY <2>7, ResetValue DEF Finish, TypeOK, Pages, Magics, Divisors, PageInv, Flip
    <3>2. PageInv'
      BY <2>7, ResetValue DEF Finish, TypeOK, Pages, Magics, Divisors, PageInv, Flip
    <3>3. PromiseInv'
      BY <2>7 DEF Finish, PromiseInv
    <3> QED BY <3>1, <3>2, <3>3
  <2>8. CASE PowerLoss
    <3>1. TypeOK'
      BY <2>8 DEF PowerLoss, TypeOK, Pages, Magics, Divisors, PageInv, Torn, Erased,
                  Zeros, Buffer
    <3>2. PageInv'
      BY <2>8 DEF PowerLoss, TypeOK, Pages, Magics, Divisors, PageInv, Torn, Erased,
                  Zeros, Buffer
    <3>3. PromiseInv'
      BY <2>8 DEF PowerLoss, PromiseInv, Torn, Erased, Zeros, Buffer
    <3> QED BY <3>1, <3>2, <3>3
  <2>9. CASE Boot
    <3>1. TypeOK'
      BY <2>9, DefaultsValue DEF Boot, TypeOK, Pages, Magics, Divisors, PageInv, Load,
                                 Erased
    <3>2. PageInv'
      BY <2>9, DefaultsValue DEF Boot, TypeOK, Pages, Magics, Divisors, PageInv, Load,
                                 Erased
    <3>3. PromiseInv'
      BY <2>9, DefaultsValue DEF Boot, PromiseInv, Load, Erased
    <3> QED BY <3>1, <3>2, <3>3
  <2>10. CASE UNCHANGED vars
    BY <2>10 DEF vars, TypeOK, PageInv, PromiseInv
  <2> QED
    BY <2>1, <2>2, <2>3, <2>4, <2>5, <2>6, <2>7, <2>8, <2>9, <2>10 DEF Next
<1> QED
  BY <1>1, <1>2, PTL DEF Spec

\* Type correctness of FlashSettings.
THEOREM TypeCorrect == Spec => []TypeOK
BY Inductive, PTL DEF IInv

\* AdjustMovement (platformmouseparser.cpp) never divides by zero, whatever keys
\* were pressed and wherever the power was lost.
THEOREM DivisorTheorem == Spec => []DivisorNonZero
BY Inductive, PTL DEF IInv, PageInv, DivisorNonZero

\* A boot restores what the last completed save wrote (init and save of
\* flashsettings.cpp), or the defaults after a completed clear.
THEOREM PromiseTheorem == Spec => BootKeepsPromise
<1>1. IInv /\ [Next]_vars =>
        [pc = "off" /\ pc' = "ready" /\ promised # Unpromised
           => promised = Promise(settings')]_vars
  BY DEF IInv, PromiseInv, Next, vars, Faster, Slower, ToggleLed, SaveOrClear, Erase,
         Program, Finish, PowerLoss, Boot
<1> QED
  BY Inductive, <1>1, PTL DEF Spec, BootKeepsPromise

-----------------------------------------------------------------------------
(* StatusLed: the settings, and the LED shared by the two cores. *)

USE BlinkAssumption DEF BlinkAssumption

\* The status LED and its blinks change no setting: every step of StatusLed is
\* one of FlashSettings or leaves the settings alone.
LEMMA LedStepIsSettingsStep == [LedNext]_allVars => [Next]_vars
BY DEF LedNext, Core0Led, LedOffTest, LedOff, CommandReceived, LedOnTest, LedOn, PollLed,
       StartBlink, SetBlinking, DarkPhase, LightPhase, EndBlink, Mount, Unmount, Combination,
       LedPowerLoss, LedBoot, Next, allVars

\* The settings behave as FlashSettings promises while both cores drive the LED
\* and ask for blinks.
THEOREM LedImplementsSettings == LedSpec => Spec
BY LedStepIsSettingsStep, PTL DEF LedSpec, LedInit, Spec

\* A blink that has begun: its current flash, and when it ends.
CountInv ==
    starting \/ blinking =>
        /\ blink.blinked < blink.times
        /\ ~blink.on_phase /\ ~blink.ending => blink.blinked + 1 < blink.times
        /\ blink.ending => ~blink.on_phase /\ blink.blinked + 1 = blink.times

\* Core 0 drove the LED in flash i or in the dark phase after it.
Spoils(i) == <<i, TRUE>> \in spoiled \/ <<i, FALSE>> \in spoiled

\* A flash one could not see is one in which core 0 drove the LED.
LostInv ==
    starting \/ blinking =>
        /\ seen \subseteq 0..(blink.blinked - 1)
        /\ \A i \in 0..(blink.blinked - 1) : i \in seen \/ Spoils(i)
        /\ ~blink.on_phase /\ ~shown => Spoils(blink.blinked)

\* Core 0 drives the LED during a blink only if it tested blinking before the
\* blink set it, so once after the first flash at the most.
SpoilInv ==
    /\ starting => ~blinking /\ Phase = FirstFlash
    /\ starting \/ (blinking /\ pc0 \in {"dark", "lit"}) => spoiled \subseteq {FirstFlash}
    /\ \A p, q \in spoiled \ {FirstFlash} : p = q

\* Whoever drove the LED last in this phase, it was poll() or the phase is spoiled.
ShowInv == starting \/ blinking => Phase \in spoiled \/ led = blink.on_phase

BlinkType ==
    blink \in [times : 1..ErasedByte, on_phase : BOOLEAN, blinked : Nat, ending : BOOLEAN]

LedInv ==
    /\ LedTypeOK /\ BlinkType
    /\ CountInv /\ SpoilInv /\ ShowInv /\ LostInv

\* The queue of blinks is well typed whatever is appended to it or taken from it.
LEMMA QueueSteps ==
    ASSUME NEW S, NEW q \in Seq(S)
    PROVE  /\ \A x \in S : <<x>> \in Seq(S) /\ Len(<<x>>) = 1
           /\ \A x \in S : Append(q, x) \in Seq(S) /\ Len(Append(q, x)) = Len(q) + 1
           /\ q # <<>> => Head(q) \in S /\ Tail(q) \in Seq(S) /\ Len(Tail(q)) = Len(q) - 1
           /\ Len(q) \in Nat
  OBVIOUS

LEMMA EmptyQueue == <<>> \in Seq(1..ErasedByte) /\ Len(<<>>) = 0
  OBVIOUS

LEMMA LedInitInv == LedInit => LedInv
<1> SUFFICES ASSUME LedInit PROVE LedInv
  OBVIOUS
<1>1. led = FALSE /\ starting = FALSE /\ blinking = FALSE /\ spoiled = {}
      /\ shown = FALSE /\ seen = {}
  BY Zenon DEF LedInit
<1>2. pc0 = "led_off" /\ blink_queue = <<1>> /\ blink = NoBlink
  BY DEF LedInit
<1>3. BlinkType
  BY <1>2 DEF BlinkType, NoBlink
<1>4. LedTypeOK /\ CountInv
  <2>1. 1 \in 1..ErasedByte /\ blink.times = 1
    BY <1>2 DEF NoBlink
  <2>2. blink_queue \in Seq(1..ErasedByte) /\ Len(blink_queue) = 1
    <3> DEFINE Times == 1..ErasedByte
    <3>1. 1 \in Times
      BY <2>1
    <3> HIDE DEF Times
    <3>2. <<1>> \in Seq(Times) /\ Len(<<1>>) = 1
      BY <3>1
    <3> QED
      BY <1>2, <3>2 DEF Times
  <2>3. Len(blink_queue) <= BlinkQueueLength
    BY <2>2
  <2> QED
    BY <1>1, <1>2, <2>2, <2>3, Zenon DEF LedTypeOK, CountInv
<1>5. SpoilInv /\ ShowInv /\ LostInv
  BY <1>1 DEF SpoilInv, ShowInv, LostInv
<1> QED
  BY <1>1, <1>3, <1>4, <1>5 DEF LedInv

\* A step that leaves the LED, the blinks and core 0 alone.
LEMMA LedUnchanged ==
    ASSUME LedInv, UNCHANGED <<led, pc0, starting, blinking, blink, shown, seen, spoiled>>,
           blink_queue' \in Seq(1..ErasedByte), Len(blink_queue') <= BlinkQueueLength
    PROVE  LedInv'
  BY DEF LedInv, LedTypeOK, BlinkType, CountInv, SpoilInv, ShowInv, LostInv, Spoils, Phase

\* blink() queues a request or drops it.
LEMMA RequestInv ==
    ASSUME LedInv, NEW times \in 1..ErasedByte, Request(times)
    PROVE  LedInv'
<1>1. blink_queue' \in Seq(1..ErasedByte) /\ Len(blink_queue') <= BlinkQueueLength
  <2> DEFINE Times == 1..ErasedByte
  <2>1. /\ blink_queue \in Seq(Times) /\ Len(blink_queue) <= BlinkQueueLength /\ times \in Times
        /\ blink_queue' = IF Len(blink_queue) < BlinkQueueLength
                          THEN Append(blink_queue, times) ELSE blink_queue
    BY DEF Request, LedInv, LedTypeOK
  <2> HIDE DEF Times
  <2>2. blink_queue' \in Seq(Times) /\ Len(blink_queue') <= BlinkQueueLength
    BY <2>1, QueueSteps
  <2> QED
    BY <2>2 DEF Times
<1>2. UNCHANGED <<led, pc0, starting, blinking, blink, shown, seen, spoiled>>
  BY DEF Request
<1> QED
  BY <1>1, <1>2, LedUnchanged

\* Core 0's tests of blinking.
LEMMA LedTestInv ==
    ASSUME LedInv, LedOffTest \/ CommandReceived \/ LedOnTest
    PROVE  LedInv'
<1>1. /\ pc0' \in {"led_off", "dark", "receive", "led_on", "lit"}
      /\ blinking => pc0' \notin {"dark", "lit"}
      /\ UNCHANGED <<led, blink_queue, starting, blinking, blink, shown, seen, spoiled>>
  BY DEF LedOffTest, CommandReceived, LedOnTest, core1Vars
<1> QED
  BY <1>1 DEF LedInv, LedTypeOK, BlinkType, CountInv, SpoilInv, ShowInv, LostInv, Spoils, Phase

\* Core 0 drives the LED, perhaps in a phase of a blink, which is then spoiled.
LEMMA LedDriveInv ==
    ASSUME LedInv, LedOff \/ LedOn
    PROVE  LedInv'
<1>1. /\ pc0 \in {"dark", "lit"} /\ pc0' \in {"receive", "led_off"}
      /\ led' \in BOOLEAN
      /\ spoiled' = IF starting \/ blinking THEN spoiled \cup {Phase} ELSE spoiled
      /\ UNCHANGED <<blink_queue, starting, blinking, blink, shown, seen>>
  BY DEF LedOff, LedOn, Drive, core1Vars
<1>2. LedTypeOK' /\ BlinkType' /\ CountInv'
  BY <1>1 DEF LedInv, LedTypeOK, BlinkType, CountInv
<1>3. Phase' = Phase
  BY <1>1 DEF Phase
<1>4. SpoilInv'
  BY <1>1, <1>3 DEF LedInv, SpoilInv
<1>5. ShowInv'
  BY <1>1, <1>3 DEF LedInv, ShowInv
<1>6. LostInv'
  BY <1>1 DEF LedInv, LostInv, Spoils
<1> QED
  BY <1>2, <1>4, <1>5, <1>6 DEF LedInv

\* The flash that ends was seen, or core 0 drove the LED in it.
LEMMA FlashOverInv ==
    ASSUME LedInv, blinking, ~blink.on_phase \/ blink.ending, FlashOver
    PROVE  /\ seen' \subseteq 0..blink.blinked
           /\ \A i \in 0..blink.blinked : i \in seen' \/ Spoils(i)
<1>1. ~blink.on_phase /\ blink.blinked \in Nat
  BY DEF LedInv, CountInv, BlinkType
<1>2. seen' \subseteq 0..blink.blinked
  BY <1>1 DEF FlashOver, LedInv, LostInv
<1>3. blink.blinked \in seen' \/ Spoils(blink.blinked)
  <2>1. led => Spoils(blink.blinked)
    BY <1>1 DEF LedInv, ShowInv, BlinkType, Phase, Spoils
  <2> QED
    BY <1>1, <2>1 DEF FlashOver, LedInv, LostInv
<1>4. \A i \in 0..(blink.blinked - 1) : i \in seen' \/ Spoils(i)
  BY DEF FlashOver, LedInv, LostInv
<1> QED
  BY <1>1, <1>2, <1>3, <1>4

\* poll() takes up a blink and goes through its phases.
LEMMA PollLedInv ==
    ASSUME LedInv, PollLed
    PROVE  LedInv'
<1> USE DEF LedInv
<1>1. CASE StartBlink
  <2>1. /\ blink' = [times |-> Head(blink_queue), on_phase |-> TRUE, blinked |-> 0,
                     ending |-> FALSE]
        /\ blink_queue # <<>> /\ blink_queue' = Tail(blink_queue)
        /\ led' = TRUE /\ starting' = TRUE /\ ~blinking /\ blinking' = blinking
        /\ shown' = FALSE /\ seen' = {} /\ spoiled' = {} /\ pc0' = pc0
    BY <1>1 DEF StartBlink
  <2>2. /\ Head(blink_queue) \in 1..ErasedByte
        /\ blink_queue' \in Seq(1..ErasedByte) /\ Len(blink_queue') <= BlinkQueueLength
    BY <2>1, QueueSteps DEF LedTypeOK
  <2>3. BlinkType' /\ CountInv'
    BY <2>1, <2>2 DEF BlinkType, CountInv
  <2>4. LedTypeOK'
    BY <2>1, <2>2 DEF LedTypeOK
  <2>5. SpoilInv' /\ ShowInv' /\ LostInv'
    BY <2>1 DEF SpoilInv, ShowInv, LostInv, Phase, FirstFlash
  <2> QED
    BY <2>3, <2>4, <2>5
<1>2. CASE SetBlinking
  <2>1. /\ starting /\ starting' = FALSE /\ blinking' = TRUE
        /\ UNCHANGED <<led, pc0, blink_queue, blink, shown, seen, spoiled>>
    BY <1>2 DEF SetBlinking
  <2> QED
    BY <2>1 DEF LedTypeOK, BlinkType, CountInv, SpoilInv, ShowInv, LostInv, Spoils, Phase
<1>3. CASE DarkPhase
  <2> DEFINE last == LastFlash
  <2>1. /\ ~starting /\ blinking /\ ~blink.ending /\ blink.on_phase
        /\ led' = FALSE /\ blink' = [[blink EXCEPT !.on_phase = FALSE] EXCEPT !.ending = last]
        /\ shown' = led /\ UNCHANGED <<pc0, blink_queue, starting, blinking, seen, spoiled>>
    BY <1>3 DEF DarkPhase, Polls
  <2>2. last <=> blink.blinked + 1 >= blink.times
    BY DEF LastFlash
  <2>3. last \in BOOLEAN
    BY DEF LastFlash
  <2> HIDE DEF last
  <2>4. /\ BlinkType' /\ blink'.times = blink.times /\ blink'.blinked = blink.blinked
        /\ blink'.on_phase = FALSE /\ blink'.ending = last
    BY <2>1, <2>3 DEF BlinkType
  <2>5. CountInv'
    BY <2>1, <2>2, <2>4 DEF CountInv, BlinkType
  <2>6. LedTypeOK'
    BY <2>1, <2>4 DEF LedTypeOK
  <2>7. SpoilInv' /\ ShowInv'
    BY <2>1, <2>4 DEF SpoilInv, ShowInv
  <2>8. ~led => Spoils(blink.blinked)
    BY <2>1 DEF ShowInv, Phase, Spoils
  <2>9. LostInv'
    <3>1. ~shown' => Spoils(blink.blinked)
      BY <2>1, <2>8, Zenon
    <3>2. \A i : Spoils(i) => Spoils(i)'
      BY <2>1 DEF Spoils
    <3>3. /\ seen \subseteq 0..(blink.blinked - 1)
          /\ \A i \in 0..(blink.blinked - 1) : i \in seen \/ Spoils(i)
      BY <2>1 DEF LostInv
    <3> QED
      BY <2>1, <2>4, <3>1, <3>2, <3>3 DEF LostInv
  <2> QED
    BY <2>4, <2>5, <2>6, <2>7, <2>9
<1>4. CASE LightPhase
  <2>1. /\ ~starting /\ blinking /\ ~blink.ending /\ ~blink.on_phase
        /\ led' = TRUE /\ FlashOver
        /\ blink' = [blink EXCEPT !.on_phase = TRUE, !.blinked = @ + 1]
        /\ UNCHANGED <<pc0, blink_queue, starting, blinking, shown, spoiled>>
    BY <1>4 DEF LightPhase, Polls
  <2>2. /\ BlinkType' /\ blink'.times = blink.times /\ blink'.blinked = blink.blinked + 1
        /\ blink'.on_phase = TRUE /\ blink'.ending = blink.ending
    <3>1. blink.blinked + 1 \in Nat
      BY DEF BlinkType
    <3>2. blink' = [times |-> blink.times, on_phase |-> TRUE, blinked |-> blink.blinked + 1,
                    ending |-> blink.ending]
      BY <2>1 DEF BlinkType
    <3> QED
      BY <3>1, <3>2 DEF BlinkType
  <2>3. CountInv'
    BY <2>1, <2>2 DEF CountInv, BlinkType
  <2>4. /\ seen' \subseteq 0..blink.blinked
        /\ \A i \in 0..blink.blinked : i \in seen' \/ Spoils(i)
    BY <2>1, FlashOverInv
  <2>5. LedTypeOK'
    BY <2>1, <2>2, <2>4 DEF LedTypeOK, CountInv, BlinkType
  <2>6. SpoilInv' /\ ShowInv'
    BY <2>1, <2>2 DEF SpoilInv, ShowInv
  <2>7. LostInv'
    <3>1. \A i : Spoils(i) => Spoils(i)'
      BY <2>1 DEF Spoils
    <3>2. 0..(blink'.blinked - 1) = 0..blink.blinked
      BY <2>2 DEF BlinkType
    <3> QED
      BY <2>2, <2>4, <3>1, <3>2 DEF LostInv
  <2> QED
    BY <2>2, <2>3, <2>5, <2>6, <2>7
<1>5. CASE EndBlink
  <2>1. /\ ~starting /\ starting' = starting /\ blinking' = FALSE
        /\ blink' = [blink EXCEPT !.ending = FALSE]
        /\ blinking /\ blink.ending /\ FlashOver
        /\ UNCHANGED <<led, pc0, blink_queue, shown, spoiled>>
    BY <1>5 DEF EndBlink, Polls
  <2>2. BlinkType' /\ blink'.times = blink.times
    BY <2>1 DEF BlinkType
  <2>3. seen' \subseteq 0..(blink.times - 1)
    BY <2>1, FlashOverInv DEF CountInv, BlinkType
  <2> QED
    BY <2>1, <2>2, <2>3 DEF LedTypeOK, CountInv, SpoilInv, ShowInv, LostInv
<1> QED
  BY <1>1, <1>2, <1>3, <1>4, <1>5 DEF PollLed

\* The USB task asks for blinks of at least one flash: a divisor is never zero.
LEMMA UsbLedInv ==
    ASSUME IInv, LedInv, Mount \/ Unmount \/ Combination \/ LedBoot
    PROVE  LedInv'
<1>1. ASSUME UNCHANGED ledVars PROVE LedInv'
  BY <1>1, LedUnchanged DEF ledVars, core1Vars, LedInv, LedTypeOK
<1>2. CASE Mount \/ Unmount \/ LedBoot
  BY <1>1, <1>2, RequestInv DEF Mount, Unmount, LedBoot
<1>3. CASE Combination
  <2>1. CASE Faster \/ Slower
    <3>1. settings'.divisor \in 1..ErasedByte
      BY <2>1 DEF Faster, Slower, IInv, TypeOK, PageInv, Pages, Divisors
    <3>2. UNCHANGED ledVars \/ Request(settings'.divisor)
      BY <1>3, <2>1 DEF Combination, Finish, Faster, Slower
    <3> QED
      BY <1>1, <3>1, <3>2, RequestInv
  <2>2. CASE ~(Faster \/ Slower)
    <3>1. UNCHANGED ledVars \/ Request(SaveBlinks) \/ Request(ClearBlinks)
      BY <1>3, <2>2 DEF Combination
    <3> QED
      BY <1>1, <3>1, RequestInv
  <2> QED
    BY <2>1, <2>2
<1> QED
  BY <1>2, <1>3

LEMMA LedNextInv == IInv /\ LedInv /\ [LedNext]_allVars => LedInv'
<1> SUFFICES ASSUME IInv, LedInv, [LedNext]_allVars PROVE LedInv'
  OBVIOUS
<1>1. CASE UNCHANGED allVars
  BY <1>1, LedUnchanged DEF allVars, ledVars, core1Vars, LedInv, LedTypeOK
<1>2. CASE Core0Led
  BY <1>2, LedTestInv, LedDriveInv DEF Core0Led
<1>3. CASE LedPowerLoss
  <2>1. /\ led' = FALSE /\ starting' = FALSE /\ blinking' = FALSE /\ spoiled' = {}
        /\ shown' = FALSE /\ seen' = {}
    BY <1>3, Zenon DEF LedPowerLoss
  <2>2. pc0' = "led_off" /\ blink_queue' = <<>> /\ blink' = NoBlink
    BY <1>3 DEF LedPowerLoss
  <2>3. BlinkType'
    BY <2>2 DEF BlinkType, NoBlink
  <2>4. LedTypeOK' /\ CountInv'
    <3>1. blink'.times = 1
      BY <2>2 DEF NoBlink
    <3>2. blink_queue' \in Seq(1..ErasedByte) /\ Len(blink_queue') = 0
      BY <2>2, EmptyQueue, Zenon
    <3>3. Len(blink_queue') <= BlinkQueueLength
      BY <3>2
    <3> QED
      BY <2>1, <2>2, <3>2, <3>3, Zenon DEF LedTypeOK, CountInv
  <2> QED
    BY <2>1, <2>3, <2>4 DEF LedInv, SpoilInv, ShowInv, LostInv
<1> QED
  BY <1>1, <1>2, <1>3, PollLedInv, UsbLedInv DEF LedNext

LEMMA LedInductive == LedSpec => [](IInv /\ LedInv)
BY LedImplementsSettings, Inductive, LedInitInv, LedNextInv, PTL DEF LedSpec

\* A blink shows but for its first flash and one more phase, although core 0
\* drives the LED after a test of blinking that may be stale (blink.cpp:38-52).
THEOREM BlinkShowsTheorem == LedSpec => []BlinkShows
<1>1. ASSUME IInv, LedInv PROVE BlinkShows
  <2>1. Cardinality(spoiled \ {FirstFlash}) <= 1
    <3>1. CASE spoiled \ {FirstFlash} = {}
      BY <3>1, FS_EmptySet
    <3>2. CASE spoiled \ {FirstFlash} # {}
      <4>1. PICK p : p \in spoiled \ {FirstFlash}
        BY <3>2
      <4>2. spoiled \ {FirstFlash} = {p}
        BY <1>1, <4>1 DEF LedInv, SpoilInv
      <4> QED
        BY <4>2, FS_Singleton
    <3> QED
      BY <3>1, <3>2
  <2>2. TypeOK /\ LedTypeOK /\ (blinking /\ Phase \notin spoiled => led = blink.on_phase)
    BY <1>1 DEF IInv, LedInv, ShowInv
  <2> QED
    BY <2>1, <2>2 DEF BlinkShows
<1> QED
  BY <1>1, LedInductive, PTL

\* A blink has the flashes that were asked for, and a user can count them but for
\* the first one and one more, although core 0 drives the LED after a test of
\* blinking that may be stale (blink.cpp:38-52).
THEOREM FlashesSeenTheorem == LedSpec => FlashesSeen
<1> DEFINE Missed(i) == 0..blink.blinked \subseteq seen' \cup {0, i}
<1>1. ASSUME LedInv, EndBlink
      PROVE  blink.blinked + 1 = blink.times /\ \E i \in 0..blink.blinked : Missed(i)
  <2>1. blinking /\ blink.ending /\ FlashOver
    BY <1>1 DEF EndBlink
  <2>2. blink.blinked + 1 = blink.times /\ blink.blinked \in Nat
    BY <1>1, <2>1 DEF LedInv, CountInv, BlinkType
  <2>3. \A i \in 0..blink.blinked : i \in seen' \/ Spoils(i)
    BY <1>1, <2>1, FlashOverInv
  <2>4. CASE \A i \in 0..blink.blinked : i \in seen' \/ i = 0
    <3>1. 0 \in 0..blink.blinked
      BY <2>2
    <3>2. Missed(0)
      BY <2>4
    <3> QED
      BY <2>2, <3>1, <3>2
  <2>5. ASSUME NEW i \in 0..blink.blinked, i \notin seen', i # 0
        PROVE  \E j \in 0..blink.blinked : Missed(j)
    <3>1. ASSUME NEW k \in 0..blink.blinked, k \notin seen', k # 0
          PROVE  \/ <<k, TRUE>> \in spoiled \ {FirstFlash}
                 \/ <<k, FALSE>> \in spoiled \ {FirstFlash}
      <4>1. <<k, TRUE>> # FirstFlash /\ <<k, FALSE>> # FirstFlash
        BY <3>1 DEF FirstFlash
      <4> QED
        BY <2>3, <3>1, <4>1 DEF Spoils
    <3>2. ASSUME NEW k \in 0..blink.blinked, k \notin seen', k # 0 PROVE k = i
      <4>1. \A p, q \in spoiled \ {FirstFlash} : p = q
        BY <1>1 DEF LedInv, SpoilInv
      <4>2. \A a, b, c, d : <<a, b>> = <<c, d>> => a = c
        OBVIOUS
      <4> QED
        BY <2>5, <3>1, <3>2, <4>1, <4>2
    <3>3. Missed(i)
      BY <3>2
    <3> QED
      BY <3>3
  <2> QED
    BY <2>2, <2>4, <2>5
<1> HIDE DEF Missed
<1>2. ASSUME LedInv, [LedNext]_allVars
      PROVE  [blinking /\ ~blinking' /\ pc' # "off" =>
                 /\ blink.blinked + 1 = blink.times
                 /\ \E i \in 0..blink.blinked : Missed(i)]_allVars
  <2> SUFFICES ASSUME blinking, ~blinking', pc' # "off" PROVE EndBlink
    BY <1>1, <1>2
  <2>1. ~LedPowerLoss
    BY DEF LedPowerLoss, PowerLoss
  <2>2. ASSUME ~EndBlink PROVE blinking'
    BY <1>2, <2>1, <2>2 DEF LedNext, Core0Led, LedOffTest, LedOff, CommandReceived, LedOnTest,
       LedOn, Drive, PollLed, StartBlink, SetBlinking, DarkPhase, LightPhase, Mount, Unmount,
       Combination, LedBoot, Request, allVars, ledVars, core1Vars
  <2> QED
    BY <2>2
<1> QED
  BY <1>2, LedInductive, PTL DEF LedSpec, FlashesSeen, Missed

\* The divisor is never zero and a boot keeps the promise of the last completed
\* save also with the blinks in between: StatusLed implements FlashSettings.
THEOREM LedKeepsSettings == LedSpec => []DivisorNonZero /\ BootKeepsPromise
BY LedImplementsSettings, DivisorTheorem, PromiseTheorem, PTL
=============================================================================
