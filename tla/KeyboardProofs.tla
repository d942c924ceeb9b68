---------------------------- MODULE KeyboardProofs ----------------------------
(***************************************************************************)
(* The USB keyboards, for any keys, report size, queue capacity and number *)
(* of reports: the Macintosh follows the reports, Caps Lock follows its    *)
(* LED, and a text is typed unmodified (KbdParser); one LED report is in   *)
(* flight at a time, and a scan serves every keyboard whose LEDs are read  *)
(* after the last store to them (KbdLeds).                                 *)
(***************************************************************************)
EXTENDS KbdLeds, KbdParser, SequenceTheorems, WellFoundedInduction, TLAPS

-----------------------------------------------------------------------------
(* Sequences put together. *)

LEMMA Least ==
    ASSUME NEW T \in SUBSET Nat, T # {}
    PROVE  \E x \in T : \A y \in T : x <= y
<1> DEFINE Less == OpToRel(<, Nat)
<1>1. IsWellFoundedOn(Less, Nat)
  BY NatLessThanWellFounded
<1>3. \A x, y \in Nat : <<y, x>> \in Less <=> y < x
  BY DEF OpToRel
<1> HIDE DEF Less
<1>2. \E x \in T : \A y \in T : ~ (<<y, x>> \in Less)
  BY <1>1, WFMin
<1> QED
  <2>1. PICK x \in T : \A y \in T : ~ (<<y, x>> \in Less)
    BY <1>2
  <2>2. \A y \in T : ~(y < x)
    BY <1>3, <2>1
  <2>3. \A y \in T : x <= y
    BY <2>2
  <2> QED
    BY <2>3

\* A set that has 1 and with a number the next one has every number up to n.
LEMMA UpTo ==
    ASSUME NEW n \in Nat, NEW S, 1 \in S, \A i \in 1..n : i \in S /\ i < n => i + 1 \in S
    PROVE  \A i \in 1..n : i \in S
<1> DEFINE T == {i \in 1..n : i \notin S}
<1>1. SUFFICES ASSUME T # {} PROVE FALSE
  OBVIOUS
<1>2. T \in SUBSET Nat
  OBVIOUS
<1>3. PICK x \in T : \A y \in T : x <= y
  <2> HIDE DEF T
  <2> QED
    BY <1>1, <1>2, Least
<1>4. x \in 1..n /\ x \notin S /\ x # 1
  OBVIOUS
<1>5. x - 1 \in 1..n /\ x - 1 < n /\ (x - 1) + 1 = x
  BY <1>4
<1>6. x - 1 \notin T
  BY <1>3, <1>5
<1> QED
  BY <1>4, <1>5, <1>6

LEMMA FlattenRec ==
    ASSUME NEW ss, DOMAIN ss = 1..Len(ss), Len(ss) \in Nat \ {0}
    PROVE  \E g : /\ FlattenSeq(ss) = g[Len(ss)] /\ g[1] = ss[1]
                  /\ \A i \in 2..Len(ss) : g[i] = g[i - 1] \o ss[i]
<1> DEFINE n == Len(ss)
<1> DEFINE E(f, m) == f = [i \in 1..m |-> IF i = 1 THEN ss[i] ELSE f[i - 1] \o ss[i]]
           S == {m \in 1..n : \E f : E(f, m)}
<1>1. 1 \in S
  <2> DEFINE f == [i \in 1..1 |-> ss[i]]
  <2>1. f = [i \in 1..1 |-> IF i = 1 THEN ss[i] ELSE f[i - 1] \o ss[i]]
    OBVIOUS
  <2>2. E(f, 1)
    BY <2>1
  <2> HIDE DEF f, E
  <2> QED
    BY <2>2
<1>2. ASSUME NEW m \in 1..n, m \in S, m < n PROVE m + 1 \in S
  <2>1. PICK f : E(f, m)
    BY <1>2
  <2> DEFINE h == [i \in 1..(m + 1) |-> IF i = m + 1 THEN f[m] \o ss[m + 1] ELSE f[i]]
  <2>2. ASSUME NEW i \in 1..(m + 1)
        PROVE  h[i] = IF i = 1 THEN ss[i] ELSE h[i - 1] \o ss[i]
    <3>1. CASE i = m + 1
      <4>1. i - 1 = m /\ i # 1
        BY <3>1
      <4>3. h[i] = f[m] \o ss[m + 1]
        BY <3>1
      <4>2. h[m] = f[m]
        OBVIOUS
      <4> HIDE DEF h
      <4> QED
        BY <3>1, <4>1, <4>2, <4>3
    <3>2. CASE i # m + 1
      <4>1. i \in 1..m /\ h[i] = f[i]
        BY <3>2
      <4>2. f[i] = IF i = 1 THEN ss[i] ELSE f[i - 1] \o ss[i]
        BY <2>1, <4>1
      <4>3. i # 1 => h[i - 1] = f[i - 1]
        BY <4>1
      <4> HIDE DEF h
      <4> QED
        BY <4>1, <4>2, <4>3
    <3> QED
      BY <3>1, <3>2
  <2>3. h = [i \in 1..(m + 1) |-> h[i]]
    OBVIOUS
  <2> HIDE DEF h
  <2>4. E(h, m + 1)
    BY <2>2, <2>3
  <2>5. m + 1 \in 1..n
    BY <1>2
  <2> HIDE DEF E
  <2> QED
    BY <2>4, <2>5
<1>3. \E f : E(f, n)
  <2> HIDE DEF S
  <2>1. \A i \in 1..n : i \in S
    BY <1>1, <1>2, UpTo
  <2>2. n \in 1..n
    OBVIOUS
  <2> USE DEF S
  <2> QED
    BY <2>1, <2>2
<1> DEFINE g == CHOOSE f : E(f, n)
<1>4. E(g, n)
  BY <1>3
<1>5. FlattenSeq(ss) = g[n]
  BY DEF FlattenSeq
<1> HIDE DEF g
<1>6. \A i \in 1..n : g[i] = IF i = 1 THEN ss[i] ELSE g[i - 1] \o ss[i]
  BY <1>4
<1>7. g[1] = ss[1]
  BY <1>6
<1>8. ASSUME NEW i \in 2..n PROVE g[i] = g[i - 1] \o ss[i]
  <2>1. i \in 1..n /\ i # 1
    OBVIOUS
  <2> QED
    BY <1>6, <2>1
<1> QED
  BY <1>5, <1>7, <1>8

\* What holds of the parts and of two sequences one after the other holds of
\* all of them together.
LEMMA FlattenIn ==
    ASSUME NEW W, NEW ss, DOMAIN ss = 1..Len(ss), Len(ss) \in Nat \ {0},
           \A i \in 1..Len(ss) : ss[i] \in W, \A s, t \in W : s \o t \in W
    PROVE  FlattenSeq(ss) \in W
<1> DEFINE n == Len(ss)
<1>1. PICK g : /\ FlattenSeq(ss) = g[n] /\ g[1] = ss[1]
               /\ \A i \in 2..n : g[i] = g[i - 1] \o ss[i]
  BY FlattenRec
<1> DEFINE S == {i \in 1..n : g[i] \in W}
<1> HIDE DEF n
<1>2. n \in Nat \ {0} /\ 1 \in S
  BY <1>1 DEF n
<1>3. ASSUME NEW i \in 1..n, i \in S, i < n PROVE i + 1 \in S
  <2>1. i + 1 \in 2..n /\ (i + 1) - 1 = i /\ i + 1 \in 1..n
    BY <1>2, <1>3
  <2>2. g[i + 1] = g[i] \o ss[i + 1]
    BY <1>1, <2>1
  <2>3. ss[i + 1] \in W /\ g[i] \in W
    BY <1>3, <2>1 DEF n
  <2> QED
    BY <2>1, <2>2, <2>3
<1> HIDE DEF S
<1>4. n \in S
  <2>1. \A i \in 1..n : i \in S
    BY <1>2, <1>3, UpTo
  <2> QED
    BY <1>2, <2>1
<1> QED
  BY <1>1, <1>4 DEF S

\* All of s is somewhere in t.
Within(s, t) == \A i \in 1..Len(s) : \E j \in 1..Len(t) : t[j] = s[i]

LEMMA ConcatHas ==
    ASSUME NEW A, NEW s \in Seq(A), NEW t \in Seq(A)
    PROVE  Within(s, s \o t) /\ Within(t, s \o t)
<1>0. Len(s) \in Nat /\ Len(t) \in Nat
  BY LenProperties
<1>1. ASSUME NEW i \in 1..Len(s)
      PROVE  i \in 1..Len(s \o t) /\ (s \o t)[i] = s[i]
  BY <1>0, ConcatProperties
<1>2. ASSUME NEW i \in 1..Len(t)
      PROVE  Len(s) + i \in 1..Len(s \o t) /\ (s \o t)[Len(s) + i] = t[i]
  BY <1>0, ConcatProperties
<1> QED
  BY <1>1, <1>2 DEF Within

\* Nothing is lost.
LEMMA FlattenHas ==
    ASSUME NEW A, NEW ss \in Seq(Seq(A)), Len(ss) # 0, NEW k \in 1..Len(ss), NEW j \in 1..Len(ss[k])
    PROVE  \E i \in 1..Len(FlattenSeq(ss)) : FlattenSeq(ss)[i] = ss[k][j]
<1>9. DOMAIN ss = 1..Len(ss) /\ Len(ss) \in Nat \ {0} /\ \A i \in 1..Len(ss) : ss[i] \in Seq(A)
  BY LenProperties
<1> DEFINE n == Len(ss)
           x == ss[k][j]
           Has(s) == \E i \in 1..Len(s) : s[i] = x
<1>1. PICK g : /\ FlattenSeq(ss) = g[n] /\ g[1] = ss[1]
               /\ \A i \in 2..n : g[i] = g[i - 1] \o ss[i]
  BY <1>9, FlattenRec
<1> DEFINE S == {i \in 1..n : g[i] \in Seq(A) /\ (i >= k => Has(g[i]))}
<1>0. n \in Nat \ {0} /\ Has(ss[k]) /\ k \in 1..n
  BY <1>9
<1>2. ASSUME NEW s \in Seq(A), NEW t \in Seq(A), Has(s) \/ Has(t) PROVE Has(s \o t)
  <2> HIDE DEF x
  <2>1. Within(s, s \o t) /\ Within(t, s \o t)
    BY ConcatHas
  <2> QED
    BY <1>2, <2>1 DEF Within
<1> HIDE DEF n, Has, x
<1>3. 1 \in S
  BY <1>0, <1>1, <1>9 DEF n
<1>4. ASSUME NEW i \in 1..n, i \in S, i < n PROVE i + 1 \in S
  <2>1. i + 1 \in 2..n /\ (i + 1) - 1 = i /\ i + 1 \in 1..n
    BY <1>0, <1>4
  <2>2. g[i + 1] = g[i] \o ss[i + 1]
    BY <1>1, <2>1
  <2>3. ss[i + 1] \in Seq(A) /\ g[i] \in Seq(A)
    BY <1>4, <1>9, <2>1 DEF n
  <2>4. g[i + 1] \in Seq(A)
    BY <2>2, <2>3, ConcatProperties
  <2>5. i + 1 >= k => Has(g[i]) \/ Has(ss[i + 1])
    BY <1>0, <1>4, <2>1
  <2>6. i + 1 >= k => Has(g[i + 1])
    BY <1>2, <2>2, <2>3, <2>5
  <2> QED
    BY <2>1, <2>4, <2>6
<1> HIDE DEF S
<1>5. n \in S
  <2>1. \A i \in 1..n : i \in S
    BY <1>0, <1>3, <1>4, UpTo
  <2> QED
    BY <1>0, <2>1
<1>6. Has(g[n])
  BY <1>0, <1>5 DEF S
<1> QED
  BY <1>1, <1>6 DEF Has, x

-----------------------------------------------------------------------------
(* Codes and events. *)

USE KeysAssumption, SizeAssumption

LEMMA ModsAre == Mods = {"leftCtrl", "leftShift", "rightShift"} /\ Len(Modifiers) = 3
                 /\ DOMAIN Modifiers = 1..3
<1>1. Len(Modifiers) = 3 /\ DOMAIN Modifiers = 1..3
  BY DEF Modifiers
<1>2. Range(Modifiers) = {Modifiers[i] : i \in 1..3}
  BY <1>1 DEF Range
<1>3. Modifiers[1] = "leftCtrl" /\ Modifiers[2] = "leftShift" /\ Modifiers[3] = "rightShift"
  BY DEF Modifiers
<1>4. 1..3 = {1, 2, 3}
  OBVIOUS
<1> HIDE DEF Mods
<1>5. Mods = {Modifiers[i] : i \in {1, 2, 3}}
  BY <1>2, <1>4 DEF Mods
<1> QED
  BY <1>1, <1>3, <1>5

LEMMA CodeCases ==
    ASSUME NEW k \in Keys \cup Mods
    PROVE  /\ AdbCode(k) \in AdbCodes
           /\ AdbCode(k) = Caps <=> k = Caps
           /\ k \in Keys => AdbCode(k) \notin Mods
           /\ k \in TextChars => AdbCode(k) = k
           /\ k \in {"leftCtrl", "leftShift"} => AdbCode(k) = k
           /\ k = "rightShift" => AdbCode(k) = IF extended THEN "rightShift" ELSE "leftShift"
           /\ AdbCode(k) = "rightShift" => k = "rightShift" /\ extended
<1> USE ModsAre DEF KeysAssumption
<1>1. CASE k = "rightShift" /\ ~extended
  <2>1. AdbCode(k) = "leftShift"
    <3>1. k \notin PowerKeys /\ k \notin TwiceKeys
      BY <1>1 DEF Keys
    <3> QED
      BY <1>1, <3>1 DEF AdbCode
  <2> QED
    BY <1>1, <2>1 DEF AdbCodes, Keys
<1>2. CASE k \in PowerKeys
  <2>1. AdbCode(k) = "power"
    <3>1. k \notin TwiceKeys /\ k # "rightShift"
      BY <1>2 DEF Keys
    <3> QED
      BY <1>2, <3>1 DEF AdbCode
  <2> QED
    BY <1>2, <2>1 DEF AdbCodes, Keys, SharedCodes
<1>3. CASE k \in TwiceKeys
  <2>1. AdbCode(k) = "f15"
    <3>1. k \notin PowerKeys /\ k # "rightShift"
      BY <1>3 DEF Keys
    <3> QED
      BY <1>3, <3>1 DEF AdbCode
  <2> QED
    BY <1>3, <2>1 DEF AdbCodes, Keys, SharedCodes
<1>4. CASE ~(k = "rightShift" /\ ~extended) /\ k \notin PowerKeys /\ k \notin TwiceKeys
  <2>1. AdbCode(k) = k
    BY <1>4 DEF AdbCode
  <2> QED
    BY <1>4, <2>1 DEF AdbCodes, Keys
<1> QED
  BY <1>1, <1>2, <1>3, <1>4

\* Only the right Shift key's code depends on the handler.
LEMMA CodeSame ==
    ASSUME NEW k \in Keys \cup Mods, k # "rightShift" \/ extended' = extended
    PROVE  AdbCode(k)' = AdbCode(k)
  BY DEF AdbCode

\* What one event makes of the keys.
LEMMA AfterOne ==
    ASSUME NEW keys \in SUBSET AdbCodes, NEW e, e.key \in Keys \cup Mods
    PROVE  /\ AfterEvent(keys, e) \in SUBSET AdbCodes
           /\ \A c : c \in AfterEvent(keys, e) <=>
                 IF AdbCode(e.key) = c THEN e.do = "down" \/ c = "power" ELSE c \in keys
  BY CodeCases DEF AfterEvent

LEMMA AfterMember ==
    ASSUME NEW keys, NEW s, DOMAIN s = 1..Len(s)
    PROVE  /\ After(keys, s) \in SUBSET AdbCodes
           /\ \A c \in AdbCodes : c \in After(keys, s) <=>
                 \/ c \in keys /\ \A i \in 1..Len(s) : AdbCode(s[i].key) # c
                 \/ \E i \in 1..Len(s) : /\ AdbCode(s[i].key) = c
                                         /\ s[i].do = "down" \/ c = "power"
                                         /\ \A j \in 1..Len(s) : AdbCode(s[j].key) = c => j <= i
  BY DEF After

LEMMA AfterNothing ==
    ASSUME NEW keys \in SUBSET AdbCodes
    PROVE  After(keys, <<>>) = keys
<1>1. DOMAIN <<>> = 1..Len(<<>>) /\ Len(<<>>) = 0
  OBVIOUS
<1>2. \A c \in AdbCodes : c \in After(keys, <<>>) <=> c \in keys
  BY <1>1, AfterMember
<1> QED
  BY <1>1, <1>2, AfterMember

\* The first event can be heard first.
LEMMA AfterTail ==
    ASSUME NEW keys \in SUBSET AdbCodes, NEW A, \A x \in A : x.key \in Keys \cup Mods,
           NEW s \in Seq(A), s # <<>>
    PROVE  After(keys, s) = After(AfterEvent(keys, Head(s)), Tail(s))
<1>0. PICK first, t : first = AfterEvent(keys, Head(s)) /\ t = Tail(s)
  OBVIOUS
<1>1. /\ Len(s) \in Nat \ {0} /\ t \in Seq(A) /\ Len(t) = Len(s) - 1
      /\ \A i \in 1..Len(t) : t[i] = s[i + 1]
      /\ Head(s) = s[1] /\ s[1] \in A /\ DOMAIN s = 1..Len(s) /\ DOMAIN t = 1..Len(t)
  BY <1>0, EmptySeq, HeadTailProperties, LenProperties
<1>2. \A c : c \in first <=>
                 IF AdbCode(s[1].key) = c THEN s[1].do = "down" \/ c = "power" ELSE c \in keys
  BY <1>0, <1>1, AfterOne
<1>5. \A c \in AdbCodes : c \in After(first, t) <=>
             \/ c \in first /\ \A i \in 1..Len(t) : AdbCode(t[i].key) # c
             \/ \E i \in 1..Len(t) : /\ AdbCode(t[i].key) = c
                                     /\ t[i].do = "down" \/ c = "power"
                                     /\ \A j \in 1..Len(t) : AdbCode(t[j].key) = c => j <= i
  <2>1. DOMAIN t = 1..Len(t)
    BY <1>1
  <2> QED
    BY <2>1, AfterMember
<1>3. ASSUME NEW c \in AdbCodes PROVE c \in After(keys, s) <=> c \in After(first, t)
  <2> DEFINE Is(i) == AdbCode(s[i].key) = c
             On(i) == s[i].do = "down" \/ c = "power"
  <2>1. c \in After(keys, s) <=>
           \/ c \in keys /\ \A i \in 1..Len(s) : ~Is(i)
           \/ \E i \in 1..Len(s) : Is(i) /\ On(i) /\ \A j \in 1..Len(s) : Is(j) => j <= i
    <3>1. DOMAIN s = 1..Len(s)
      BY <1>1
    <3> QED
      BY <3>1, AfterMember
  <2>2. c \in After(first, t) <=>
           \/ c \in first /\ \A i \in 1..Len(t) : ~Is(i + 1)
           \/ \E i \in 1..Len(t) : Is(i + 1) /\ On(i + 1) /\ \A j \in 1..Len(t) : Is(j + 1) => j <= i
    <3>1. c \in After(first, t) <=>
             \/ c \in first /\ \A i \in 1..Len(t) : AdbCode(t[i].key) # c
             \/ \E i \in 1..Len(t) : /\ AdbCode(t[i].key) = c
                                     /\ t[i].do = "down" \/ c = "power"
                                     /\ \A j \in 1..Len(t) : AdbCode(t[j].key) = c => j <= i
      BY <1>5
    <3>2. \A i \in 1..Len(t) : t[i] = s[i + 1]
      BY <1>1
    <3> QED
      BY <3>1, <3>2
  <2>3. c \in first <=> IF Is(1) THEN On(1) ELSE c \in keys
    BY <1>2
  <2> HIDE DEF Is, On
  <2>4. \A i \in 1..Len(s) : i = 1 \/ (i - 1 \in 1..Len(t) /\ i = (i - 1) + 1)
    BY <1>1
  <2>5. \A i \in 1..Len(t) : i + 1 \in 1..Len(s) /\ i + 1 > 1
    BY <1>1
  <2>6. 1 \in 1..Len(s)
    BY <1>1
  <2>7. ASSUME c \in After(keys, s) PROVE c \in After(first, t)
    <3>1. CASE c \in keys /\ \A i \in 1..Len(s) : ~Is(i)
      BY <2>2, <2>3, <2>5, <2>6, <3>1
    <3>2. ASSUME NEW i \in 1..Len(s), Is(i), On(i), \A j \in 1..Len(s) : Is(j) => j <= i
          PROVE  c \in After(first, t)
      <4>1. CASE i = 1
        <5>1. \A j \in 1..Len(t) : ~Is(j + 1)
          BY <1>1, <2>5, <3>2, <4>1
        <5> QED
          BY <2>2, <2>3, <3>2, <4>1, <5>1
      <4>2. CASE i # 1
        <5>1. i - 1 \in 1..Len(t) /\ i = (i - 1) + 1
          BY <2>4, <4>2
        <5>2. \A j \in 1..Len(t) : Is(j + 1) => j <= i - 1
          BY <1>1, <2>5, <3>2
        <5> QED
          BY <2>2, <3>2, <5>1, <5>2
      <4> QED
        BY <4>1, <4>2
    <3> QED
      BY <2>1, <2>7, <3>1, <3>2
  <2>8. ASSUME c \in After(first, t) PROVE c \in After(keys, s)
    <3>1. CASE c \in first /\ \A i \in 1..Len(t) : ~Is(i + 1)
      <4>1. \A j \in 1..Len(s) : Is(j) => j = 1
        BY <2>4, <3>1
      <4> QED
        BY <1>1, <2>1, <2>3, <2>6, <3>1, <4>1
    <3>2. ASSUME NEW i \in 1..Len(t), Is(i + 1), On(i + 1), \A j \in 1..Len(t) : Is(j + 1) => j <= i
          PROVE  c \in After(keys, s)
      <4>1. \A j \in 1..Len(s) : Is(j) => j <= i + 1
        <5> TAKE j \in 1..Len(s)
        <5>1. CASE j = 1
          BY <1>1, <5>1
        <5>2. CASE j # 1
          <6>1. j - 1 \in 1..Len(t) /\ j = (j - 1) + 1
            BY <2>4, <5>2
          <6>2. Is(j) => j - 1 <= i
            BY <3>2, <6>1
          <6> QED
            BY <1>1, <6>1, <6>2
        <5> QED
          BY <5>1, <5>2
      <4> QED
        BY <2>1, <2>5, <3>2, <4>1
    <3> QED
      BY <2>2, <2>8, <3>1, <3>2
  <2> QED
    BY <2>7, <2>8
<1>4. After(keys, s) \in SUBSET AdbCodes /\ After(first, t) \in SUBSET AdbCodes
  BY <1>1, AfterMember
<1> QED
  BY <1>0, <1>3, <1>4

\* An event put at the end is heard last.
LEMMA AfterAppend ==
    ASSUME NEW keys \in SUBSET AdbCodes, NEW A, \A x \in A : x.key \in Keys \cup Mods,
           NEW s \in Seq(A), NEW e \in A
    PROVE  After(keys, Append(s, e)) = AfterEvent(After(keys, s), e)
<1> DEFINE t == Append(s, e)
           n == Len(s)
<1>1. /\ n \in Nat /\ t \in Seq(A) /\ Len(t) = n + 1
      /\ \A i \in 1..n : t[i] = s[i]
      /\ t[n + 1] = e
      /\ DOMAIN s = 1..n /\ DOMAIN t = 1..Len(t)
  BY AppendProperties, LenProperties
<1>2. After(keys, s) \in SUBSET AdbCodes /\ After(keys, t) \in SUBSET AdbCodes
  BY <1>1, AfterMember
<1>3. /\ AfterEvent(After(keys, s), e) \in SUBSET AdbCodes
      /\ \A c : c \in AfterEvent(After(keys, s), e) <=>
             IF AdbCode(e.key) = c THEN e.do = "down" \/ c = "power" ELSE c \in After(keys, s)
  BY <1>2, AfterOne
<1> HIDE DEF t
<1>4. ASSUME NEW c \in AdbCodes PROVE c \in After(keys, t) <=> c \in AfterEvent(After(keys, s), e)
  <2> DEFINE Is(i) == AdbCode(t[i].key) = c
             On(i) == t[i].do = "down" \/ c = "power"
  <2>1. c \in After(keys, t) <=>
           \/ c \in keys /\ \A i \in 1..(n + 1) : ~Is(i)
           \/ \E i \in 1..(n + 1) : Is(i) /\ On(i) /\ \A j \in 1..(n + 1) : Is(j) => j <= i
    <3>1. DOMAIN t = 1..Len(t) /\ Len(t) = n + 1
      BY <1>1
    <3>2. c \in After(keys, t) <=>
             \/ c \in keys /\ \A i \in 1..Len(t) : ~Is(i)
             \/ \E i \in 1..Len(t) : Is(i) /\ On(i) /\ \A j \in 1..Len(t) : Is(j) => j <= i
      <4> HIDE DEF n
      <4> QED
        BY <3>1, AfterMember
    <3> HIDE DEF Is, On, n
    <3> QED
      BY <3>1, <3>2
  <2>2. c \in After(keys, s) <=>
           \/ c \in keys /\ \A i \in 1..n : ~Is(i)
           \/ \E i \in 1..n : Is(i) /\ On(i) /\ \A j \in 1..n : Is(j) => j <= i
    <3>1. c \in After(keys, s) <=>
             \/ c \in keys /\ \A i \in 1..n : AdbCode(s[i].key) # c
             \/ \E i \in 1..n : /\ AdbCode(s[i].key) = c
                                /\ s[i].do = "down" \/ c = "power"
                                /\ \A j \in 1..n : AdbCode(s[j].key) = c => j <= i
      BY <1>1, AfterMember
    <3>2. \A i \in 1..n : s[i] = t[i]
      BY <1>1
    <3> QED
      BY <3>1, <3>2
  <2>3. c \in AfterEvent(After(keys, s), e) <=> IF Is(n + 1) THEN On(n + 1) ELSE c \in After(keys, s)
    BY <1>1, <1>3
  <2> HIDE DEF Is, On, n
  <2>4. n + 1 \in 1..(n + 1) /\ \A i \in 1..(n + 1) : i <= n + 1 /\ (i \in 1..n \/ i = n + 1)
    BY <1>1
  <2>5. \A i \in 1..n : i \in 1..(n + 1) /\ ~(n + 1 <= i)
    BY <1>1
  <2>6. CASE Is(n + 1)
    BY <2>1, <2>3, <2>4, <2>5, <2>6
  <2>7. CASE ~Is(n + 1)
    BY <2>1, <2>2, <2>3, <2>4, <2>5, <2>7
  <2> QED
    BY <2>6, <2>7
<1> QED
  BY <1>2, <1>3, <1>4 DEF t

\* What was said before only matters for the same code.
LEMMA AfterLocal ==
    ASSUME NEW k1, NEW k2, NEW s, DOMAIN s = 1..Len(s), NEW c, c \in k1 => c \in k2
    PROVE  c \in After(k1, s) => c \in After(k2, s)
  BY AfterMember

Target == IF pc1 = "parse" THEN report ELSE prevState
Outlook == After(Believed, todo)

\* With the same handler the codes are the same.
LEMMA HeardNext ==
    ASSUME extended' = extended
    PROVE  Believed' = After(down', queue') /\ Outlook' = After(Believed', todo')
  BY DEF Believed, Outlook, After, AdbCode

\* A handler that does not concern any event in the queue changes nothing.
LEMMA HandlerKeepsQueue ==
    ASSUME UNCHANGED <<down, queue>>, \A i \in DOMAIN queue : queue[i].key # "rightShift"
    PROVE  Believed' = Believed
  BY DEF Believed, After, AdbCode

LEMMA HandlerKeepsCalls ==
    ASSUME Believed' = Believed, UNCHANGED todo, \A i \in DOMAIN todo : todo[i].key # "rightShift"
    PROVE  Outlook' = Outlook
  BY DEF Outlook, After, AdbCode

-----------------------------------------------------------------------------
(* The calls for a report. *)

LEMMA ReportKeys ==
    ASSUME NEW r \in AllReports
    PROVE  /\ r.mods \in SUBSET Mods /\ DOMAIN r.keys = 1..Slots
           /\ KeysOf(r) \in SUBSET Keys /\ Pressed(r) \in SUBSET (Keys \cup Mods)
           /\ \A i \in 1..Slots : r.keys[i] \in Keys => r.keys[i] \in KeysOf(r)
           /\ \A k \in KeysOf(r) : \E i \in 1..Slots : r.keys[i] = k
           /\ \A m \in Mods : m \in Pressed(r) <=> m \in r.mods
           /\ \A k \in Keys : k \in Pressed(r) <=> k \in KeysOf(r)
<1> USE DEF KeysAssumption
<1>1. r.mods \in SUBSET Mods /\ r.keys \in KeyLists
  BY DEF AllReports
<1>2. r.keys \in [1..Slots -> Keys \cup {NoKey, Overflow}]
  BY <1>1 DEF KeyLists
<1>3. KeysOf(r) = {r.keys[i] : i \in 1..Slots} \ {NoKey, Overflow}
  BY <1>2 DEF KeysOf, Range
<1> QED
  BY <1>1, <1>2, <1>3 DEF Pressed

\* A lock call stands right before the Caps Lock call it belongs to.
Paired(calls) ==
    \A i \in 1..Len(calls) :
        /\ calls[i].do = "lock" => /\ calls[i].key = Caps
                                   /\ i < Len(calls) /\ calls[i + 1] = Call("down", Caps)
        /\ calls[i] = Call("down", Caps) => i > 1 /\ calls[i - 1].do = "lock"

\* The calls that one report after another can give rise to.
CallsFor(before, after) ==
    {Call("down", k) : k \in Pressed(after) \ Pressed(before)}
    \cup {Call("up", k) : k \in Pressed(before) \ (Pressed(after) \cup {Caps})}
    \cup {Call("lock", Caps)}

Lists(before, after) == {s \in Seq(CallsFor(before, after)) : Paired(s)}

LEMMA CallFields ==
    \A do, k : Call(do, k).do = do /\ Call(do, k).key = k /\ Call(do, k).second = FALSE
  BY DEF Call

LEMMA ListsConcat ==
    ASSUME NEW b, NEW a, NEW s \in Lists(b, a), NEW t \in Lists(b, a)
    PROVE  s \o t \in Lists(b, a)
<1> DEFINE R == CallsFor(b, a)
           u == s \o t
<1>1. s \in Seq(R) /\ t \in Seq(R) /\ Paired(s) /\ Paired(t)
  BY DEF Lists
<1> HIDE DEF R
<1>2. /\ u \in Seq(R) /\ Len(u) = Len(s) + Len(t)
      /\ \A i \in 1..(Len(s) + Len(t)) : u[i] = IF i <= Len(s) THEN s[i] ELSE t[i - Len(s)]
      /\ Len(s) \in Nat /\ Len(t) \in Nat
  BY <1>1, ConcatProperties, LenProperties
<1> HIDE DEF u
<1>3. Paired(u)
  <2> SUFFICES ASSUME NEW i \in 1..Len(u)
               PROVE  /\ u[i].do = "lock" => /\ u[i].key = Caps
                                             /\ i < Len(u) /\ u[i + 1] = Call("down", Caps)
                      /\ u[i] = Call("down", Caps) => i > 1 /\ u[i - 1].do = "lock"
    BY DEF Paired
  <2>1. CASE i <= Len(s)
    <3>1. i \in 1..Len(s) /\ u[i] = s[i]
      BY <1>2, <2>1
    <3>2. /\ s[i].do = "lock" => s[i].key = Caps /\ i < Len(s) /\ s[i + 1] = Call("down", Caps)
          /\ s[i] = Call("down", Caps) => i > 1 /\ s[i - 1].do = "lock"
      BY <1>1, <3>1 DEF Paired
    <3>3. i < Len(s) => u[i + 1] = s[i + 1] /\ i < Len(u)
      BY <1>2, <3>1
    <3>4. i > 1 => u[i - 1] = s[i - 1]
      BY <1>2, <3>1
    <3> QED
      BY <3>1, <3>2, <3>3, <3>4
  <2>2. CASE ~(i <= Len(s))
    <3> DEFINE j == i - Len(s)
    <3>1. j \in 1..Len(t) /\ u[i] = t[j]
      BY <1>2, <2>2
    <3>3. j < Len(t) => u[i + 1] = t[j + 1] /\ i < Len(u)
      <4>1. j < Len(t) => i + 1 \in 1..(Len(s) + Len(t)) /\ ~(i + 1 <= Len(s)) /\ (i + 1) - Len(s) = j + 1
        BY <1>2, <2>2
      <4> QED
        BY <1>2, <4>1
    <3>4. j > 1 => u[i - 1] = t[j - 1] /\ i > 1
      <4>1. j > 1 => i - 1 \in 1..(Len(s) + Len(t)) /\ ~(i - 1 <= Len(s)) /\ (i - 1) - Len(s) = j - 1 /\ i > 1
        BY <1>2, <2>2
      <4> QED
        BY <1>2, <4>1
    <3> HIDE DEF j
    <3>2. /\ t[j].do = "lock" => t[j].key = Caps /\ j < Len(t) /\ t[j + 1] = Call("down", Caps)
          /\ t[j] = Call("down", Caps) => j > 1 /\ t[j - 1].do = "lock"
      BY <1>1, <3>1 DEF Paired
    <3> QED
      BY <3>1, <3>2, <3>3, <3>4
  <2> QED
    BY <2>1, <2>2
<1> QED
  BY <1>2, <1>3 DEF Lists, R, u

LEMMA ShortLists ==
    ASSUME NEW b, NEW a
    PROVE  /\ <<>> \in Lists(b, a)
           /\ \A c \in CallsFor(b, a) :
                 c.do # "lock" /\ c # Call("down", Caps) => <<c>> \in Lists(b, a)
           /\ Call("down", Caps) \in CallsFor(b, a)
                 => <<Call("lock", Caps), Call("down", Caps)>> \in Lists(b, a)
<1> DEFINE R == CallsFor(b, a)
<1>1. <<>> \in Lists(b, a)
  BY DEF Lists, Paired
<1>2. ASSUME NEW c \in R, c.do # "lock", c # Call("down", Caps)
      PROVE  <<c>> \in Lists(b, a)
  <2>1. <<c>> \in Seq(R) /\ Len(<<c>>) = 1 /\ \A i \in 1..1 : <<c>>[i] = c
    OBVIOUS
  <2> QED
    BY <1>2, <2>1 DEF Lists, Paired
<1>3. ASSUME Call("down", Caps) \in R
      PROVE  <<Call("lock", Caps), Call("down", Caps)>> \in Lists(b, a)
  <2> DEFINE x == Call("lock", Caps)
             y == Call("down", Caps)
             s == <<x, y>>
  <2>1. x \in R /\ y \in R
    BY <1>3 DEF CallsFor
  <2>2. x.do = "lock" /\ x.key = Caps /\ y.do = "down" /\ x # y
    BY CallFields
  <2> HIDE DEF x, y, R
  <2>3. s \in Seq(R) /\ Len(s) = 2 /\ s[1] = x /\ s[2] = y
    BY <2>1
  <2> HIDE DEF s
  <2>4. \A i \in 1..2 : i = 1 \/ i = 2
    OBVIOUS
  <2>5. /\ s[1].do = "lock" => s[1].key = Caps /\ 1 < Len(s) /\ s[1 + 1] = y
        /\ s[1] # y
        /\ s[2].do # "lock"
        /\ s[2] = y => 2 > 1 /\ s[2 - 1].do = "lock"
    BY <2>2, <2>3
  <2>6. Paired(s)
    BY <2>3, <2>4, <2>5 DEF Paired, y
  <2> QED
    BY <2>3, <2>6 DEF Lists, R, s, x, y
<1> QED
  BY <1>1, <1>2, <1>3

\* The calls of OnControlKeysChanged: each modifier that changed has one.
LEMMA ModCallsList ==
    ASSUME NEW b \in AllReports, NEW a \in AllReports
    PROVE  LET s == ModCalls(b.mods, a.mods)
           IN  /\ s \in Lists(b, a)
               /\ \A m \in a.mods \ b.mods : \E i \in 1..Len(s) : s[i] = Call("down", m)
               /\ \A m \in b.mods \ a.mods : \E i \in 1..Len(s) : s[i] = Call("up", m)
<1> DEFINE CallsOf(m) == IF m \in a.mods \ b.mods THEN <<Call("down", m)>>
                         ELSE IF m \in b.mods \ a.mods THEN <<Call("up", m)>>
                         ELSE <<>>
           ss == [i \in 1..3 |-> CallsOf(Modifiers[i])]
           s == ModCalls(b.mods, a.mods)
<1>1. s = FlattenSeq(ss)
  BY ModsAre DEF ModCalls
<1>2. \A m \in Mods : CallsOf(m) \in Lists(b, a)
  <2> TAKE m \in Mods
  <2>0. Caps \notin Mods
    BY DEF KeysAssumption, Keys
  <2>1. m \in a.mods \ b.mods => Call("down", m) \in CallsFor(b, a)
    BY ReportKeys DEF CallsFor
  <2>2. m \in b.mods \ a.mods => Call("up", m) \in CallsFor(b, a)
    BY <2>0, ReportKeys DEF CallsFor
  <2>3. Call("down", m).do # "lock" /\ Call("up", m).do # "lock"
        /\ Call("down", m) # Call("down", Caps) /\ Call("up", m) # Call("down", Caps)
    BY <2>0, CallFields
  <2> QED
    BY <2>1, <2>2, <2>3, ShortLists
<1>3. \A m \in Mods : \E i \in 1..3 : Modifiers[i] = m
  <2>1. Modifiers[1] = "leftCtrl" /\ Modifiers[2] = "leftShift" /\ Modifiers[3] = "rightShift"
    BY DEF Modifiers
  <2> QED
    BY <2>1, ModsAre
<1>4. \A i \in 1..3 : Modifiers[i] \in Mods
  <2>1. Modifiers[1] = "leftCtrl" /\ Modifiers[2] = "leftShift" /\ Modifiers[3] = "rightShift"
    BY DEF Modifiers
  <2> QED
    BY <2>1, ModsAre
<1>5. DOMAIN ss = 1..Len(ss) /\ Len(ss) \in Nat \ {0} /\ Len(ss) = 3
  <2> HIDE DEF CallsOf
  <2> QED
    OBVIOUS
<1>6. \A i \in 1..Len(ss) : ss[i] = CallsOf(Modifiers[i]) /\ ss[i] \in Lists(b, a)
  <2> HIDE DEF CallsOf
  <2> QED
    BY <1>2, <1>4, <1>5
<1> HIDE DEF ss, s
<1>7. s \in Lists(b, a)
  BY <1>1, <1>5, <1>6, ListsConcat, FlattenIn
<1>8. ASSUME NEW m \in Mods, NEW c, CallsOf(m) = <<c>>
      PROVE  \E i \in 1..Len(s) : s[i] = c
  <2>1. PICK k \in 1..3 : Modifiers[k] = m
    BY <1>3
  <2> HIDE DEF CallsOf
  <2>2. ss[k] = <<c>> /\ k \in 1..Len(ss)
    BY <1>5, <1>6, <1>8, <2>1
  <2>3. 1 \in 1..Len(ss[k]) /\ ss[k][1] = c
    BY <2>2
  <2> DEFINE R == CallsFor(b, a)
             j == 1
  <2>4. ss \in Seq(Seq(R)) /\ Len(ss) # 0
    <3>1. \A i \in 1..3 : CallsOf(Modifiers[i]) \in Seq(R)
      BY <1>2, <1>4 DEF Lists
    <3> QED
      BY <1>5, <3>1 DEF ss
  <2>6. k \in 1..Len(ss) /\ j \in 1..Len(ss[k])
    BY <2>2, <2>3
  <2> HIDE DEF R, j
  <2>5. \E i \in 1..Len(FlattenSeq(ss)) : FlattenSeq(ss)[i] = ss[k][j]
    BY <2>4, <2>6, FlattenHas
  <2> USE DEF j
  <2> QED
    BY <1>1, <2>3, <2>5
<1>9. \A m \in a.mods \ b.mods : m \in Mods /\ CallsOf(m) = <<Call("down", m)>>
  BY ReportKeys
<1>10. \A m \in b.mods \ a.mods : m \in Mods /\ CallsOf(m) = <<Call("up", m)>>
  BY ReportKeys
<1> HIDE DEF CallsOf
<1> QED
  BY <1>7, <1>8, <1>9, <1>10 DEF s

\* The calls of one slot: the new key, then the old one.
LEMMA SlotCallsList ==
    ASSUME NEW b \in AllReports, NEW a \in AllReports, NEW i \in 1..Slots
    PROVE  LET s == KeyDowns(a.keys[i], b) \o KeyUps(b.keys[i], a, i)
           IN  /\ s \in Lists(b, a)
               /\ a.keys[i] \in KeysOf(a) \ KeysOf(b)
                     => \E j \in 1..Len(s) : s[j] = Call("down", a.keys[i])
               /\ b.keys[i] \in KeysOf(b) \ (KeysOf(a) \cup {Caps})
                     => \E j \in 1..Len(s) : s[j] = Call("up", b.keys[i])
<1> DEFINE x == a.keys[i]
           y == b.keys[i]
           s == KeyDowns(x, b)
           t == KeyUps(y, a, i)
           R == CallsFor(b, a)
<1>1. /\ x \in Keys => x \in KeysOf(a)
      /\ y \in Keys => y \in KeysOf(b)
      /\ KeysOf(a) \in SUBSET Keys /\ KeysOf(b) \in SUBSET Keys
      /\ \A k \in Keys : k \in Pressed(a) <=> k \in KeysOf(a)
      /\ \A k \in Keys : k \in Pressed(b) <=> k \in KeysOf(b)
  BY ReportKeys
<1> HIDE DEF x, y
<1>2. x \in Keys \ KeysOf(b) => Call("down", x) \in R
  BY <1>1 DEF CallsFor
<1>3. y \in Keys \ ({Caps} \cup KeysOf(a)) => Call("up", y) \in R
  BY <1>1 DEF CallsFor
<1>4. s \in Lists(b, a)
  <2>1. CASE x \notin Keys \ KeysOf(b)
    BY <2>1, ShortLists DEF KeyDowns
  <2>2. CASE x \in Keys \ KeysOf(b) /\ x = Caps
    BY <1>2, <2>2, ShortLists DEF KeyDowns
  <2>3. CASE x \in Keys \ KeysOf(b) /\ x # Caps
    <3>1. Call("down", x).do # "lock" /\ Call("down", x) # Call("down", Caps)
      BY <2>3, CallFields
    <3> QED
      BY <1>2, <2>3, <3>1, ShortLists DEF KeyDowns
  <2> QED
    BY <2>1, <2>2, <2>3
<1>5. t \in Lists(b, a)
  <2>1. CASE y \notin Keys \ ({Caps} \cup KeysOf(a))
    BY <2>1, ShortLists DEF KeyUps
  <2>2. CASE y \in Keys \ ({Caps} \cup KeysOf(a))
    <3>1. Call("up", y).do # "lock" /\ Call("up", y) # Call("down", Caps)
      BY CallFields
    <3> QED
      BY <1>3, <2>2, <3>1, ShortLists DEF KeyUps
  <2> QED
    BY <2>1, <2>2
<1>6. x \in KeysOf(a) \ KeysOf(b) => \E j \in 1..Len(s) : s[j] = Call("down", x)
  <2>1. CASE x \in KeysOf(a) \ KeysOf(b) /\ x = Caps
    <3>1. s = <<Call("lock", x), Call("down", x)>>
      BY <1>1, <2>1 DEF KeyDowns
    <3>2. Len(s) = 2 /\ s[2] = Call("down", x)
      BY <3>1
    <3> QED
      BY <3>2
  <2>2. CASE x \in KeysOf(a) \ KeysOf(b) /\ x # Caps
    <3>1. s = <<Call("down", x)>>
      BY <1>1, <2>2 DEF KeyDowns
    <3>2. Len(s) = 1 /\ s[1] = Call("down", x)
      BY <3>1
    <3> QED
      BY <3>2
  <2> QED
    BY <2>1, <2>2
<1>7. y \in KeysOf(b) \ (KeysOf(a) \cup {Caps}) => \E j \in 1..Len(t) : t[j] = Call("up", y)
  <2>1. CASE y \in KeysOf(b) \ (KeysOf(a) \cup {Caps})
    <3>1. t = <<Call("up", y)>>
      BY <1>1, <2>1 DEF KeyUps
    <3>2. Len(t) = 1 /\ t[1] = Call("up", y)
      BY <3>1
    <3> QED
      BY <3>2
  <2> QED
    BY <2>1
<1>8. s \in Seq(R) /\ t \in Seq(R)
  BY <1>4, <1>5 DEF Lists
<1> HIDE DEF s, t, R
<1>9. s \o t \in Lists(b, a)
  BY <1>4, <1>5, ListsConcat
<1>10. \A c : (\E j \in 1..Len(s) : s[j] = c) \/ (\E j \in 1..Len(t) : t[j] = c)
               => \E j \in 1..Len(s \o t) : (s \o t)[j] = c
  <2>1. Within(s, s \o t) /\ Within(t, s \o t)
    BY <1>8, ConcatHas
  <2> QED
    BY <2>1 DEF Within
<1> QED
  BY <1>6, <1>7, <1>9, <1>10 DEF s, t, x, y

\* Parse's calls: each key and modifier that changed has one, and there are no
\* others.
LEMMA ReportCallsList ==
    ASSUME NEW b \in AllReports, NEW a \in AllReports
    PROVE  LET s == ReportCalls(b, a)
           IN  /\ s \in Lists(b, a)
               /\ \A k \in Pressed(a) \ Pressed(b) : \E i \in 1..Len(s) : s[i] = Call("down", k)
               /\ \A k \in Pressed(b) \ (Pressed(a) \cup {Caps}) :
                     \E i \in 1..Len(s) : s[i] = Call("up", k)
<1> DEFINE slot(i) == KeyDowns(a.keys[i], b) \o KeyUps(b.keys[i], a, i)
           ss == [i \in 1..Slots |-> slot(i)]
           m == ModCalls(b.mods, a.mods)
           f == FlattenSeq(ss)
           R == CallsFor(b, a)
           s == ReportCalls(b, a)
<1>1. s = m \o f
  BY DEF ReportCalls
<1>2. \A i \in 1..Slots : slot(i) \in Lists(b, a) /\ slot(i) \in Seq(R)
  BY SlotCallsList DEF Lists
<1>3. /\ \A i \in 1..Slots : a.keys[i] \in KeysOf(a) \ KeysOf(b)
            => \E j \in 1..Len(slot(i)) : slot(i)[j] = Call("down", a.keys[i])
      /\ \A i \in 1..Slots : b.keys[i] \in KeysOf(b) \ (KeysOf(a) \cup {Caps})
            => \E j \in 1..Len(slot(i)) : slot(i)[j] = Call("up", b.keys[i])
  BY SlotCallsList
<1> HIDE DEF slot
<1>4. Slots \in Nat \ {0}
  BY DEF SizeAssumption
<1>5. DOMAIN ss = 1..Len(ss) /\ Len(ss) \in Nat \ {0} /\ Len(ss) = Slots
  BY <1>4
<1>6. \A i \in 1..Len(ss) : ss[i] = slot(i) /\ ss[i] \in Lists(b, a)
  BY <1>2, <1>5
<1>7. ss \in Seq(Seq(R)) /\ Len(ss) # 0
  <2> HIDE DEF R
  <2> QED
    BY <1>2, <1>4, <1>5
<1> HIDE DEF ss
<1>8. f \in Lists(b, a)
  BY <1>5, <1>6, ListsConcat, FlattenIn
<1>9. m \in Lists(b, a)
  BY ModCallsList
<1> HIDE DEF f, R, s
<1>10. s \in Lists(b, a) /\ m \in Seq(R) /\ f \in Seq(R)
  BY <1>1, <1>8, <1>9, ListsConcat DEF Lists, R
<1>11. \A c : (\E j \in 1..Len(m) : m[j] = c) \/ (\E j \in 1..Len(f) : f[j] = c)
               => \E j \in 1..Len(s) : s[j] = c
  <2> HIDE DEF m
  <2>1. Within(m, m \o f) /\ Within(f, m \o f)
    BY <1>10, ConcatHas
  <2> QED
    BY <1>1, <2>1 DEF Within
<1>12. ASSUME NEW i \in 1..Slots, NEW c, \E j \in 1..Len(slot(i)) : slot(i)[j] = c
       PROVE  \E j \in 1..Len(s) : s[j] = c
  <2>1. PICK j \in 1..Len(slot(i)) : slot(i)[j] = c
    BY <1>12
  <2>2. i \in 1..Len(ss) /\ ss[i] = slot(i)
    BY <1>5, <1>6
  <2>3. j \in 1..Len(ss[i]) /\ ss[i][j] = c
    BY <2>1, <2>2
  <2>4. \E h \in 1..Len(FlattenSeq(ss)) : FlattenSeq(ss)[h] = ss[i][j]
    BY <1>7, <2>2, <2>3, FlattenHas
  <2> QED
    BY <1>11, <2>3, <2>4 DEF f
<1>13. ASSUME NEW k \in Pressed(a) \ Pressed(b)
       PROVE  \E i \in 1..Len(s) : s[i] = Call("down", k)
  <2>1. CASE k \in Mods
    <3>1. k \in a.mods \ b.mods
      BY <2>1, ReportKeys
    <3> QED
      BY <1>11, <3>1, ModCallsList
  <2>2. CASE k \notin Mods
    <3>1. k \in KeysOf(a) \ KeysOf(b)
      BY <2>2, ReportKeys DEF Pressed
    <3>2. PICK i \in 1..Slots : a.keys[i] = k
      BY <3>1, ReportKeys
    <3> QED
      BY <1>3, <1>12, <3>1, <3>2
  <2> QED
    BY <2>1, <2>2
<1>14. ASSUME NEW k \in Pressed(b) \ (Pressed(a) \cup {Caps})
       PROVE  \E i \in 1..Len(s) : s[i] = Call("up", k)
  <2>1. CASE k \in Mods
    <3>1. k \in b.mods \ a.mods
      BY <2>1, ReportKeys
    <3> QED
      BY <1>11, <3>1, ModCallsList
  <2>2. CASE k \notin Mods
    <3>1. k \in KeysOf(b) \ (KeysOf(a) \cup {Caps})
      BY <2>2, ReportKeys DEF Pressed
    <3>2. PICK i \in 1..Slots : b.keys[i] = k
      BY <3>1, ReportKeys
    <3> QED
      BY <1>3, <1>12, <3>1, <3>2
  <2> QED
    BY <2>1, <2>2
<1> QED
  BY <1>10, <1>13, <1>14 DEF s

-----------------------------------------------------------------------------
(* The inductive invariant. *)

Typing == pc1 \in {"waitText", "forceUp", "waitChar", "type"}

\* What is left of the three modifier key-ups.
ForcedRests == {ForcedUps, <<Call("up", "rightShift"), Call("up", "leftCtrl")>>,
                <<Call("up", "leftCtrl")>>, <<>>}

\* As Paired, except that the first lock call may have been made.
HalfPaired(calls) ==
    \A i \in 1..Len(calls) :
        /\ calls[i].do = "lock" => /\ calls[i].key = Caps
                                   /\ i < Len(calls) /\ calls[i + 1] = Call("down", Caps)
        /\ i > 1 /\ calls[i] = Call("down", Caps) => calls[i - 1].do = "lock"

\* The calls still to be made belong to what core 1 is doing.
TodoInv ==
    /\ pc1 \notin {"parse", "forceUp", "type"} => todo = <<>>
    /\ pc1 = "parse" =>
          /\ HalfPaired(todo)
          /\ \A i \in 1..Len(todo) : todo[i].key \in Pressed(prevState) \cup Pressed(report)
    /\ pc1 = "type" =>
          \A i \in 1..Len(todo) : /\ todo[i].key \in TextChars \cup {"leftShift"}
                                  /\ todo[i].do \in {"down", "up"}
    /\ pc1 = "forceUp" => todo \in ForcedRests
    /\ Typing => partial

LEMMA TodoParts ==
    ASSUME TypeOK, todo # <<>>
    PROVE  /\ Head(todo) = todo[1] /\ todo[1] \in Calls
           /\ Len(todo) \in Nat \ {0} /\ Tail(todo) \in Seq(Calls) /\ Len(Tail(todo)) = Len(todo) - 1
           /\ \A i \in 1..Len(Tail(todo)) : i + 1 \in 1..Len(todo) /\ Tail(todo)[i] = todo[i + 1]
           /\ pc1 \in {"parse", "forceUp", "type"} \/ ~TodoInv
<1>1. todo \in Seq(Calls)
  BY DEF TypeOK
<1>2. Len(todo) \in Nat \ {0}
  BY <1>1, EmptySeq, LenProperties
<1>3. /\ Head(todo) = todo[1] /\ todo[1] \in Calls
      /\ Tail(todo) \in Seq(Calls) /\ Len(Tail(todo)) = Len(todo) - 1
      /\ \A i \in 1..Len(Tail(todo)) : i + 1 \in 1..Len(todo) /\ Tail(todo)[i] = todo[i + 1]
  BY <1>1, <1>2, HeadTailProperties
<1> QED
  BY <1>2, <1>3 DEF TodoInv

LEMMA EnqueueType ==
    ASSUME TypeOK, NEW e \in Events, Enqueue(e)
    PROVE  queue' \in Seq(Events) /\ Len(queue') <= Capacity /\ disturbed' \in BOOLEAN
<1>1. queue \in Seq(Events) /\ Len(queue) <= Capacity /\ disturbed \in BOOLEAN /\ Len(queue) \in Nat
      /\ Capacity \in Nat
  BY LenProperties DEF TypeOK, SizeAssumption
<1>2. CASE Len(queue) < Capacity
  <2>1. queue' = Append(queue, e) /\ disturbed' = disturbed
    BY <1>2 DEF Enqueue
  <2>2. queue' \in Seq(Events) /\ Len(queue') = Len(queue) + 1
    BY <1>1, <2>1, AppendProperties
  <2> QED
    BY <1>1, <1>2, <2>1, <2>2
<1>3. CASE ~(Len(queue) < Capacity)
  BY <1>1, <1>3 DEF Enqueue
<1> QED
  BY <1>2, <1>3

LEMMA TakenType ==
    ASSUME TypeOK, queue # <<>>, queue' = Tail(queue)
    PROVE  /\ queue' \in Seq(Events) /\ Len(queue') <= Capacity /\ Head(queue) \in Events
           /\ Len(queue') = Len(queue) - 1 /\ Len(queue) \in Nat
<1>1. queue \in Seq(Events) /\ Len(queue) <= Capacity /\ Capacity \in Nat
  BY DEF TypeOK, SizeAssumption
<1>2. Len(queue) \in Nat \ {0}
  BY <1>1, EmptySeq, LenProperties
<1>3. Tail(queue) \in Seq(Events) /\ Len(Tail(queue)) = Len(queue) - 1 /\ Head(queue) \in Events
  BY <1>1, <1>2, HeadTailProperties
<1> QED
  BY <1>1, <1>2, <1>3

LEMMA CharCallsList ==
    ASSUME NEW char \in CharKeys
    PROVE  LET s == CharCalls(char)
           IN  /\ s \in Seq(Calls) /\ Len(s) <= 4 /\ Len(s) \in Nat \ {0}
               /\ \A i \in 1..Len(s) : /\ s[i].key \in TextChars \cup {"leftShift"}
                                       /\ s[i].do \in {"down", "up"}
               /\ \A i \in 1..Len(s) : s[i].do = "down" =>
                     \E j \in 1..Len(s) : j > i /\ s[j].do = "up" /\ s[j].key = s[i].key
<1> DEFINE k == char.key
           a == Call("down", k)
           b == Call("up", k)
           c == Call("down", "leftShift")
           d == Call("up", "leftShift")
<1>1. k \in TextChars /\ k \in Keys /\ "leftShift" \in Mods /\ char.shift \in BOOLEAN
  BY ModsAre DEF CharKeys, KeysAssumption
<1>2. a \in Calls /\ b \in Calls /\ c \in Calls /\ d \in Calls
  BY <1>1 DEF Call, Calls
<1>3. /\ a.do = "down" /\ a.key = k /\ b.do = "up" /\ b.key = k
      /\ c.do = "down" /\ c.key = "leftShift" /\ d.do = "up" /\ d.key = "leftShift"
  BY CallFields
<1> HIDE DEF a, b, c, d, k
<1>6. PICK p, q : p = <<c>> /\ q = <<a, b>>
  OBVIOUS
<1>7. /\ p \in Seq(Calls) /\ Len(p) = 1 /\ p[1] = c
      /\ q \in Seq(Calls) /\ Len(q) = 2 /\ q[1] = a /\ q[2] = b
  BY <1>2, <1>6
<1>4. CASE char.shift
  <2>0. PICK e : e = <<d>>
    OBVIOUS
  <2>1. PICK u, s : u = p \o q /\ s = u \o e
    OBVIOUS
  <2>2. CharCalls(char) = s
    BY <1>4, <1>6, <2>0, <2>1 DEF CharCalls, a, b, c, d, k
  <2>3. e \in Seq(Calls) /\ Len(e) = 1 /\ e[1] = d
    BY <1>2, <2>0
  <2>4. u \in Seq(Calls) /\ Len(u) = 3 /\ u[1] = c /\ u[2] = a /\ u[3] = b
    <3>0. /\ u \in Seq(Calls) /\ Len(u) = Len(p) + Len(q)
          /\ \A i \in 1..(Len(p) + Len(q)) :
                u[i] = IF i <= Len(p) THEN p[i] ELSE q[i - Len(p)]
      <4>1. p \in Seq(Calls) /\ q \in Seq(Calls)
        BY <1>7
      <4> QED
        BY <2>1, <4>1, ConcatProperties
    <3>1. u \in Seq(Calls) /\ Len(u) = 3 /\ \A i \in 1..3 : u[i] = IF i <= 1 THEN p[i] ELSE q[i - 1]
      BY <1>7, <2>3, <3>0
    <3>2. u[1] = p[1] /\ u[2] = q[2 - 1] /\ u[3] = q[3 - 1]
      BY <3>1
    <3> QED
      BY <1>7, <3>1, <3>2
  <2>5. s \in Seq(Calls) /\ Len(s) = 4 /\ s[1] = c /\ s[2] = a /\ s[3] = b /\ s[4] = d
    <3>0. /\ s \in Seq(Calls) /\ Len(s) = Len(u) + Len(e)
          /\ \A i \in 1..(Len(u) + Len(e)) :
                s[i] = IF i <= Len(u) THEN u[i] ELSE e[i - Len(u)]
      <4>1. u \in Seq(Calls) /\ e \in Seq(Calls)
        BY <2>3, <2>4
      <4> QED
        BY <2>1, <4>1, ConcatProperties
    <3>1. s \in Seq(Calls) /\ Len(s) = 4 /\ \A i \in 1..4 : s[i] = IF i <= 3 THEN u[i] ELSE e[i - 3]
      BY <1>7, <2>3, <2>4, <3>0
    <3>2. s[1] = u[1] /\ s[2] = u[2] /\ s[3] = u[3] /\ s[4] = e[4 - 3]
      BY <3>1
    <3> QED
      BY <2>3, <2>4, <3>1, <3>2
  <2>6. \A i \in 1..4 : i = 1 \/ i = 2 \/ i = 3 \/ i = 4
    OBVIOUS
  <2> QED
    BY <1>1, <1>3, <2>2, <2>5, <2>6
<1>5. CASE ~char.shift
  <2>0. PICK e : e = <<>>
    OBVIOUS
  <2>1. PICK u, s : u = e \o q /\ s = u \o e
    OBVIOUS
  <2>2. CharCalls(char) = s
    BY <1>5, <1>6, <2>0, <2>1 DEF CharCalls, a, b, c, d, k
  <2>3. e \in Seq(Calls) /\ Len(e) = 0
    BY <2>0
  <2>4. u \in Seq(Calls) /\ Len(u) = 2 /\ u[1] = a /\ u[2] = b
    BY <1>7, <2>1, <2>3, ConcatProperties
  <2>5. s \in Seq(Calls) /\ Len(s) = 2 /\ s[1] = a /\ s[2] = b
    BY <2>1, <2>3, <2>4, ConcatProperties
  <2>6. \A i \in 1..2 : i = 1 \/ i = 2
    OBVIOUS
  <2> QED
    BY <1>1, <1>3, <2>2, <2>5, <2>6
<1> QED
  BY <1>1, <1>4, <1>5

LEMMA CallsForType ==
    ASSUME NEW b \in AllReports, NEW a \in AllReports
    PROVE  Lists(b, a) \subseteq Seq(Calls)
<1>1. Pressed(b) \in SUBSET (Keys \cup Mods) /\ Pressed(a) \in SUBSET (Keys \cup Mods)
  BY ReportKeys
<1>2. CallsFor(b, a) \subseteq Calls
  <2>1. \A k \in Keys \cup Mods : /\ Call("down", k) \in Calls /\ Call("up", k) \in Calls
                                  /\ Call("lock", k) \in Calls
    BY DEF Call, Calls
  <2>2. Caps \in Keys
    BY DEF Keys
  <2> QED
    BY <1>1, <2>1, <2>2 DEF CallsFor
<1>3. \A s \in Seq(CallsFor(b, a)) : s \in Seq(Calls)
  BY <1>2
<1> QED
  BY <1>3 DEF Lists

LEMMA NoReportIn == NoReport \in AllReports
<1>1. [i \in 1..Slots |-> NoKey] \in KeyLists
  BY DEF KeyLists
<1> QED
  BY <1>1 DEF NoReport, AllReports


LEMMA Prepend ==
    ASSUME NEW A, NEW d \in A, NEW t \in Seq(A)
    PROVE  LET u == <<d>> \o t
           IN  /\ u \in Seq(A) /\ Len(u) = Len(t) + 1 /\ u # <<>>
               /\ u[1] = d /\ \A i \in 1..Len(t) : u[i + 1] = t[i]
               /\ Head(u) = d /\ Tail(u) = t
<1> DEFINE u == <<d>> \o t
<1>1. PICK p : p = <<d>>
  OBVIOUS
<1>2. p \in Seq(A) /\ Len(p) = 1 /\ p[1] = d
  BY <1>1
<1>3. u = p \o t
  BY <1>1
<1>4. Len(t) \in Nat
  BY LenProperties
<1> HIDE DEF u
<1>5. /\ u \in Seq(A) /\ Len(u) = Len(p) + Len(t)
      /\ \A i \in 1..(Len(p) + Len(t)) : u[i] = IF i <= Len(p) THEN p[i] ELSE t[i - Len(p)]
  BY <1>2, <1>3, ConcatProperties
<1>6. Len(u) = Len(t) + 1 /\ u[1] = d /\ Len(u) # 0
  BY <1>2, <1>4, <1>5
<1>7. \A i \in 1..Len(t) : u[i + 1] = t[i]
  <2> TAKE i \in 1..Len(t)
  <2>1. i + 1 \in 1..(Len(p) + Len(t)) /\ ~(i + 1 <= Len(p)) /\ (i + 1) - Len(p) = i
    BY <1>2, <1>4
  <2> QED
    BY <1>5, <2>1
<1>8. /\ u # <<>> /\ Head(u) = u[1] /\ Tail(u) \in Seq(A) /\ Len(Tail(u)) = Len(u) - 1
      /\ \A i \in 1..Len(Tail(u)) : Tail(u)[i] = u[i + 1]
  BY <1>5, <1>6, EmptySeq, HeadTailProperties
<1>9. Tail(u) = t
  <2>1. Len(Tail(u)) = Len(t)
    BY <1>4, <1>6, <1>8
  <2>2. \A i \in 1..Len(t) : Tail(u)[i] = t[i]
    BY <1>7, <1>8, <2>1
  <2> QED
    BY <1>8, <2>1, <2>2, SeqEqual
<1> QED
  BY <1>5, <1>6, <1>7, <1>8, <1>9 DEF u

\* OnKey's list of calls: the rest, or the same call again and the rest.
LEMMA OnKeyTodo ==
    ASSUME TypeOK, OnKey
    PROVE  /\ todo # <<>> /\ todo[1].do \in {"down", "up"} /\ todo[1].key \in (Keys \cup Mods) \ {Caps}
           /\ Event(todo[1].key, todo[1].do) \in Events
           /\ Enqueue(Event(todo[1].key, todo[1].do))
           /\ UNCHANGED <<pc1, prevState, report, typed, capsLed, registerVars, hostVars, partial, reports>>
           /\ todo' \in Seq(Calls)
           /\ \/ todo' = Tail(todo)
              \/ /\ todo[1].key \in TwiceKeys /\ Len(queue) < Capacity
                 /\ Len(todo') = Len(todo) /\ todo'[1].do = todo[1].do /\ todo'[1].key = todo[1].key
                 /\ todo' # <<>> /\ Head(todo') = todo'[1] /\ Tail(todo') = Tail(todo)
                 /\ \A i \in 2..Len(todo) : todo'[i] = todo[i]
<1> DEFINE call == todo[1]
           d == [call EXCEPT !.second = TRUE]
           again == call.key \in TwiceKeys /\ ~call.second /\ Len(queue) < Capacity
<1>1. todo # <<>>
  BY DEF OnKey
<1>2. /\ Head(todo) = call /\ call \in Calls
      /\ Len(todo) \in Nat \ {0} /\ Tail(todo) \in Seq(Calls) /\ Len(Tail(todo)) = Len(todo) - 1
      /\ \A i \in 1..Len(Tail(todo)) : i + 1 \in 1..Len(todo) /\ Tail(todo)[i] = todo[i + 1]
  BY <1>1, TodoParts
<1>3. /\ call.do \in {"down", "up"} /\ call.key # Caps
      /\ Enqueue(Event(call.key, call.do))
      /\ todo' = (IF again THEN <<d>> ELSE <<>>) \o Tail(todo)
  BY <1>2 DEF OnKey
<1>4. d \in Calls /\ d.do = call.do /\ d.key = call.key
  BY <1>2 DEF Calls
<1>5. call.key \in (Keys \cup Mods) \ {Caps} /\ Event(call.key, call.do) \in Events
  BY <1>2, <1>3 DEF Calls, Event, Events
<1> HIDE DEF d, call
<1>6. CASE again
  <2> DEFINE t == Tail(todo)
  <2>1. todo' = <<d>> \o t
    BY <1>3, <1>6
  <2>2. t \in Seq(Calls)
    BY <1>2
  <2>3. Len(t) = Len(todo) - 1
    BY <1>2
  <2>4. \A i \in 2..Len(todo) : i - 1 \in 1..Len(t) /\ todo[i] = t[i - 1] /\ (i - 1) + 1 = i
    BY <1>2
  <2> HIDE DEF t
  <2>5. /\ todo' \in Seq(Calls) /\ Len(todo') = Len(t) + 1 /\ todo' # <<>>
        /\ todo'[1] = d /\ \A i \in 1..Len(t) : todo'[i + 1] = t[i]
        /\ Head(todo') = d /\ Tail(todo') = t
    BY <1>4, <2>1, <2>2, Prepend
  <2>6. \A i \in 2..Len(todo) : todo'[i] = todo[i]
    BY <2>4, <2>5
  <2>7. Len(todo') = Len(todo)
    BY <1>2, <2>3, <2>5
  <2> QED
    BY <1>1, <1>3, <1>4, <1>5, <1>6, <2>5, <2>6, <2>7 DEF call, t, OnKey
<1>7. CASE ~again
  <2>1. todo' = Tail(todo)
    BY <1>2, <1>3, <1>7, ConcatEmptySeq
  <2> QED
    BY <1>1, <1>2, <1>3, <1>5, <2>1 DEF call, OnKey
<1> QED
  BY <1>6, <1>7

LEMMA TypeStep ==
    ASSUME TypeOK, Next
    PROVE  TypeOK'
<1> USE DEF TypeOK, registerVars, hostVars
<1>1. ASSUME NEW r \in Reports, ParseCombo(r) PROVE TypeOK'
  <2>1. /\ pc1' \in {pc1, "waitText"} /\ typed' \in {typed, 0} /\ partial' \in {partial, TRUE}
        /\ reports < MaxReports /\ reports' = reports + 1
        /\ UNCHANGED <<prevState, report, todo, capsLed, queue, registerVars, hostVars, disturbed>>
    BY <1>1 DEF ParseCombo
  <2>2. typed' \in 0..TextLength /\ reports' \in 0..MaxReports
    BY <2>1 DEF SizeAssumption
  <2>3. pc1' \in {"usb", "parse", "waitText", "forceUp", "waitChar", "type", "drain"}
        /\ partial' \in BOOLEAN
    BY <2>1
  <2> QED
    BY <2>1, <2>2, <2>3
<1>2. ASSUME NEW r \in Reports, Parse(r) PROVE TypeOK'
  <2>1. r \in AllReports /\ r.mods \in SUBSET Mods
    BY ReportsAssumption, ReportKeys DEF ReportsAssumption
  <2>2. ReportCalls(prevState, r) \in Lists(prevState, r)
    BY <2>1, ReportCallsList
  <2>3. todo' \in Seq(Calls)
    BY <1>2, <2>1, <2>2, CallsForType DEF Parse
  <2>4. partial' \in BOOLEAN
    BY <1>2 DEF Parse, SharedCode
  <2> QED
    BY <1>2, <2>1, <2>3, <2>4 DEF Parse, SizeAssumption
<1>3. CASE ParseDone
  BY <1>3, NoReportIn DEF ParseDone
<1>4. CASE HandleLockingKeys
  BY <1>4, TodoParts DEF HandleLockingKeys
<1>5. CASE OnCapsLock
  <2>1. Event(Caps, IF capsLed THEN "down" ELSE "up") \in Events
    BY DEF Event, Events, Keys
  <2> QED
    BY <1>5, <2>1, TodoParts, EnqueueType DEF OnCapsLock
<1>6. CASE OnKey
  BY <1>6, OnKeyTodo, EnqueueType
<1>7. CASE StartText
  <2>1. ForcedUps \in Seq(Calls)
    BY ModsAre DEF ForcedUps, Call, Calls
  <2> QED
    BY <1>7, <2>1 DEF StartText
<1>8. CASE ForceCapsUp
  <2>1. Event(Caps, "up") \in Events
    BY DEF Event, Events, Keys
  <2> QED
    BY <1>8, <2>1, EnqueueType DEF ForceCapsUp
<1>9. CASE TypeChar
  BY <1>9, CharCallsList DEF TypeChar, SizeAssumption
<1>10. CASE TypeCharDone
  BY <1>10 DEF TypeCharDone
<1>11. CASE TextDone
  BY <1>11 DEF TextDone, SizeAssumption
<1>12. CASE StartReset
  BY <1>12 DEF StartReset
<1>13. CASE Drain
  BY <1>13, TakenType DEF Drain
<1>14. CASE ResetDone
  BY <1>14 DEF ResetDone
<1>15. CASE TakeEvent
  <2>1. Head(queue) \in Events
    BY <1>15, TakenType DEF TakeEvent
  <2>2. down' \in SUBSET AdbCodes
    BY <1>15, <2>1, AfterOne DEF TakeEvent, Events
  <2> QED
    BY <1>15, <2>2, TakenType DEF TakeEvent
<1>16. CASE SetLeds
  BY <1>16 DEF SetLeds
<1>17. CASE SetHandler
  BY <1>17 DEF SetHandler, RightShiftUnderWay
<1> QED
  BY <1>1, <1>2, <1>3, <1>4, <1>5, <1>6, <1>7, <1>8, <1>9, <1>10, <1>11, <1>12, <1>13, <1>14,
     <1>15, <1>16, <1>17 DEF Next, ReportReceived, Parsing

LEMMA HalfPairedRest ==
    ASSUME TypeOK, todo # <<>>, HalfPaired(todo)
    PROVE  /\ HalfPaired(Tail(todo))
           /\ todo[1].do = "lock" => /\ todo[1].key = Caps /\ Tail(todo) # <<>>
                                     /\ Head(Tail(todo)) = Call("down", Caps)
           /\ todo[1].do # "lock" =>
                 ~(Tail(todo) # <<>> /\ Head(Tail(todo)) = Call("down", Caps))
<1> DEFINE t == Tail(todo)
<1>1. /\ Len(todo) \in Nat \ {0} /\ t \in Seq(Calls) /\ Len(t) = Len(todo) - 1
      /\ \A i \in 1..Len(t) : i + 1 \in 1..Len(todo) /\ t[i] = todo[i + 1]
  BY TodoParts
<1>2. t # <<>> => Head(t) = t[1] /\ Len(t) # 0
  BY <1>1, EmptySeq, HeadTailProperties
<1>3. Len(t) # 0 => t # <<>>
  BY <1>1, EmptySeq
<1> HIDE DEF t
<1>4. HalfPaired(t)
  <2> SUFFICES ASSUME NEW i \in 1..Len(t)
               PROVE  /\ t[i].do = "lock" => /\ t[i].key = Caps
                                             /\ i < Len(t) /\ t[i + 1] = Call("down", Caps)
                      /\ i > 1 /\ t[i] = Call("down", Caps) => t[i - 1].do = "lock"
    BY DEF HalfPaired
  <2>1. i + 1 \in 1..Len(todo) /\ t[i] = todo[i + 1] /\ i + 1 > 1 /\ (i + 1) - 1 = i
    BY <1>1
  <2>2. /\ todo[i + 1].do = "lock" => /\ todo[i + 1].key = Caps
                                      /\ i + 1 < Len(todo) /\ todo[(i + 1) + 1] = Call("down", Caps)
        /\ todo[i + 1] = Call("down", Caps) => todo[(i + 1) - 1].do = "lock"
    BY <2>1 DEF HalfPaired
  <2>3. i + 1 < Len(todo) => i < Len(t) /\ t[i + 1] = todo[(i + 1) + 1]
    BY <1>1
  <2>4. i > 1 => t[i - 1] = todo[i]
    BY <1>1
  <2> QED
    BY <2>1, <2>2, <2>3, <2>4
<1>5. 1 \in 1..Len(todo)
  BY <1>1
<1>6. todo[1].do = "lock" => /\ todo[1].key = Caps /\ 1 < Len(todo) /\ todo[1 + 1] = Call("down", Caps)
  BY <1>5 DEF HalfPaired
<1>7. 1 < Len(todo) => Len(t) # 0 /\ t[1] = todo[1 + 1]
  BY <1>1
<1>8. Len(t) # 0 /\ t[1] = Call("down", Caps) => todo[1].do = "lock"
  <2>1. ASSUME Len(t) # 0 PROVE 2 \in 1..Len(todo) /\ 2 > 1 /\ t[1] = todo[2] /\ 2 - 1 = 1
    BY <1>1, <2>1
  <2> QED
    BY <2>1 DEF HalfPaired
<1> QED
  BY <1>2, <1>3, <1>4, <1>6, <1>7, <1>8 DEF t

LEMMA RestsAre ==
    ASSUME todo \in ForcedRests, todo # <<>>
    PROVE  /\ Tail(todo) \in ForcedRests /\ todo[1].do = "up"
           /\ todo[1].key \in Mods \ TwiceKeys /\ Len(todo) <= 3
           /\ todo[1].key = "leftCtrl" => Tail(todo) = <<>>
           /\ todo[1].key = "rightShift" => Tail(todo) = <<Call("up", "leftCtrl")>>
           /\ todo[1].key = "leftShift" =>
                 Tail(todo) = <<Call("up", "rightShift"), Call("up", "leftCtrl")>>
<1> DEFINE a == Call("up", "leftShift")
           b == Call("up", "rightShift")
           c == Call("up", "leftCtrl")
<1>1. /\ a.do = "up" /\ a.key = "leftShift" /\ b.do = "up" /\ b.key = "rightShift"
      /\ c.do = "up" /\ c.key = "leftCtrl"
  BY CallFields
<1>2. ForcedRests = {<<a, b, c>>, <<b, c>>, <<c>>, <<>>}
  BY DEF ForcedRests, ForcedUps
<1>3. {"leftCtrl", "leftShift", "rightShift"} \subseteq Mods \ TwiceKeys
  BY ModsAre DEF KeysAssumption, Keys
<1> HIDE DEF a, b, c
<1>4. CASE todo = <<a, b, c>>
  <2>1. Tail(todo) = <<b, c>> /\ todo[1] = a /\ Len(todo) = 3
    BY <1>4
  <2> QED
    BY <1>1, <1>2, <1>3, <2>1 DEF a, b, c
<1>5. CASE todo = <<b, c>>
  <2>1. Tail(todo) = <<c>> /\ todo[1] = b /\ Len(todo) = 2
    BY <1>5
  <2> QED
    BY <1>1, <1>2, <1>3, <2>1 DEF a, b, c
<1>6. CASE todo = <<c>>
  <2>1. Tail(todo) = <<>> /\ todo[1] = c /\ Len(todo) = 1
    BY <1>6
  <2> QED
    BY <1>1, <1>2, <1>3, <2>1
<1> QED
  BY <1>2, <1>4, <1>5, <1>6

LEMMA ListKeys ==
    ASSUME NEW b \in AllReports, NEW a \in AllReports, NEW s \in Lists(b, a)
    PROVE  HalfPaired(s) /\ \A i \in 1..Len(s) : s[i].key \in Pressed(b) \cup Pressed(a)
<1>1. s \in Seq(CallsFor(b, a)) /\ Paired(s)
  BY DEF Lists
<1>2. HalfPaired(s)
  BY <1>1 DEF Paired, HalfPaired
<1>3. ASSUME NEW i \in 1..Len(s)
      PROVE  s[i].key \in Pressed(b) \cup Pressed(a)
  <2>1. s[i] \in CallsFor(b, a)
    BY <1>1
  <2>2. CASE s[i] # Call("lock", Caps)
    BY <2>1, <2>2, CallFields DEF CallsFor
  <2>3. CASE s[i] = Call("lock", Caps)
    <3>1. s[i].do = "lock" /\ s[i].key = Caps
      BY <2>3, CallFields
    <3>2. i < Len(s) /\ s[i + 1] = Call("down", Caps)
      BY <1>1, <3>1 DEF Paired
    <3>3. i + 1 \in 1..Len(s)
      BY <1>1, <3>2, LenProperties
    <3>4. s[i + 1] \in CallsFor(b, a) /\ s[i + 1].key = Caps /\ s[i + 1].do = "down"
      BY <1>1, <3>2, <3>3, CallFields
    <3>5. Caps \in Pressed(a)
      BY <3>4, CallFields DEF CallsFor
    <3> QED
      BY <3>1, <3>5
  <2> QED
    BY <2>2, <2>3
<1> QED
  BY <1>2, <1>3

\* A call made in the middle of a report, a text or its beginning leaves a list
\* of calls of the same kind.
LEMMA CallMade ==
    ASSUME TypeOK, TodoInv, todo # <<>>, UNCHANGED <<pc1, prevState, report, partial>>,
           todo' = Tail(todo)
    PROVE  TodoInv'
<1> USE DEF Typing
<1>1. pc1 \in {"parse", "forceUp", "type"}
  BY DEF TodoInv
<1>2. /\ Len(Tail(todo)) \in Nat
      /\ \A i \in 1..Len(Tail(todo)) : i + 1 \in 1..Len(todo) /\ Tail(todo)[i] = todo[i + 1]
  BY TodoParts, LenProperties
<1>3. CASE pc1 = "parse"
  <2>1. HalfPaired(todo) /\ \A i \in 1..Len(todo) : todo[i].key \in Pressed(prevState) \cup Pressed(report)
    BY <1>3 DEF TodoInv
  <2>2. HalfPaired(Tail(todo))
    BY <2>1, HalfPairedRest
  <2>3. \A i \in 1..Len(Tail(todo)) : Tail(todo)[i].key \in Pressed(prevState) \cup Pressed(report)
    BY <1>2, <2>1
  <2>4. HalfPaired(todo)' /\ (\A i \in 1..Len(todo) : todo[i].key \in Pressed(prevState) \cup Pressed(report))'
    BY <2>2, <2>3 DEF HalfPaired, Pressed, KeysOf
  <2> QED
    BY <1>3, <2>4 DEF TodoInv
<1>4. CASE pc1 = "forceUp"
  <2>1. Tail(todo) \in ForcedRests /\ partial
    BY <1>4, RestsAre DEF TodoInv
  <2>2. (todo \in ForcedRests)'
    BY <2>1 DEF ForcedRests, ForcedUps, Call
  <2> QED
    BY <1>4, <2>1, <2>2 DEF TodoInv
<1>5. CASE pc1 = "type"
  <2>1. \A i \in 1..Len(todo) : /\ todo[i].key \in TextChars \cup {"leftShift"}
                                /\ todo[i].do \in {"down", "up"}
    BY <1>5 DEF TodoInv
  <2>2. \A i \in 1..Len(Tail(todo)) : /\ Tail(todo)[i].key \in TextChars \cup {"leftShift"}
                                      /\ Tail(todo)[i].do \in {"down", "up"}
    BY <1>2, <2>1
  <2>3. partial
    BY <1>5 DEF TodoInv
  <2> QED
    BY <1>5, <2>2, <2>3 DEF TodoInv
<1> QED
  BY <1>1, <1>3, <1>4, <1>5

\* No key of a text and no modifier is queued twice or is Caps Lock.
LEMMA TypedOnce ==
    ASSUME TypeOK, TodoInv, todo # <<>>, pc1 # "parse"
    PROVE  /\ todo[1].key \in (Keys \cup Mods) \ (TwiceKeys \cup PowerKeys \cup {Caps})
           /\ todo[1].do # "lock" /\ todo[1] # Call("down", Caps)
<1>1. pc1 \in {"forceUp", "type"} /\ 1 \in 1..Len(todo)
  BY TodoParts DEF TodoInv
<1>2. todo[1].do # "lock" /\ todo[1].key \in TextChars \cup Mods
  <2>1. CASE pc1 = "type"
    BY <1>1, <2>1, ModsAre DEF TodoInv
  <2>2. CASE pc1 = "forceUp"
    BY <2>2, RestsAre DEF TodoInv
  <2> QED
    BY <1>1, <2>1, <2>2
<1>3. (TextChars \cup Mods) \subseteq (Keys \cup Mods) \ (TwiceKeys \cup PowerKeys \cup {Caps})
  BY DEF KeysAssumption, Keys
<1> QED
  BY <1>2, <1>3, CallFields

LEMMA CallFits ==
    ASSUME TypeOK, TextFits, todo # <<>>, UNCHANGED pc1, todo' = Tail(todo),
           queue' = queue \/ \E e \in Events : queue' = Append(queue, e)
    PROVE  TextFits'
<1>1. /\ queue \in Seq(Events) /\ Len(queue) \in Nat /\ Len(todo) \in Nat
      /\ Len(todo') = Len(todo) - 1
  BY TodoParts, LenProperties DEF TypeOK
<1>2. Len(queue') \in {Len(queue), Len(queue) + 1}
  BY <1>1, AppendProperties
<1> QED
  BY <1>1, <1>2 DEF TextFits, SizeAssumption

LEMMA EnqueueEither ==
    ASSUME NEW e, Enqueue(e)
    PROVE  queue' = queue \/ queue' = Append(queue, e)
  BY DEF Enqueue

LEMMA TodoStep ==
    ASSUME TypeOK, TodoInv, TextFits, Next
    PROVE  TodoInv' /\ TextFits'
<1> USE DEF Typing
<1>0. /\ Len(queue) \in Nat /\ Len(todo) \in Nat /\ Capacity \in Nat /\ Capacity >= 4
      /\ Len(queue) <= Capacity
  BY LenProperties DEF TypeOK, SizeAssumption
<1>q. queue = <<>> => Len(queue) = 0
  OBVIOUS
<1>1. ASSUME NEW r \in Reports, ParseCombo(r) PROVE TodoInv' /\ TextFits'
  <2>1. /\ pc1 = "usb" /\ todo' = todo
        /\ pc1' = pc1 \/ (pc1' = "waitText" /\ partial' = TRUE)
    BY <1>1 DEF ParseCombo
  <2> QED
    BY <2>1 DEF TodoInv, TextFits
<1>2. ASSUME NEW r \in Reports, Parse(r) PROVE TodoInv' /\ TextFits'
  <2>1. r \in AllReports /\ prevState \in AllReports
    BY ReportsAssumption DEF ReportsAssumption, TypeOK
  <2>2. todo' \in Lists(prevState, r)
    BY <1>2, <2>1, ReportCallsList DEF Parse
  <2>3. HalfPaired(todo') /\ \A i \in 1..Len(todo') : todo'[i].key \in Pressed(prevState) \cup Pressed(r)
    BY <2>1, <2>2, ListKeys
  <2>4. pc1' = "parse" /\ report' = r /\ prevState' = prevState
    BY <1>2 DEF Parse
  <2>5. HalfPaired(todo)' /\ (\A i \in 1..Len(todo) : todo[i].key \in Pressed(prevState) \cup Pressed(report))'
    BY <2>3, <2>4 DEF HalfPaired, Pressed, KeysOf
  <2> QED
    BY <2>4, <2>5 DEF TodoInv, TextFits
<1>3. CASE ParseDone
  BY <1>3 DEF ParseDone, TodoInv, TextFits
<1>4. CASE HandleLockingKeys
  <2>1. todo # <<>> /\ UNCHANGED <<pc1, prevState, report, partial, queue>> /\ todo' = Tail(todo)
    BY <1>4 DEF HandleLockingKeys
  <2> QED
    BY <2>1, CallMade, CallFits
<1>5. CASE OnCapsLock
  <2> DEFINE e == Event(Caps, IF capsLed THEN "down" ELSE "up")
  <2>1. todo # <<>> /\ UNCHANGED <<pc1, prevState, report, partial>> /\ todo' = Tail(todo) /\ Enqueue(e)
    BY <1>5 DEF OnCapsLock
  <2>2. e \in Events
    BY DEF Event, Events, Keys
  <2> HIDE DEF e
  <2> QED
    BY <2>1, <2>2, CallMade, CallFits, EnqueueEither
<1>6. CASE OnKey
  <2> DEFINE e == Event(todo[1].key, todo[1].do)
  <2>1. /\ todo # <<>> /\ UNCHANGED <<pc1, prevState, report, partial>>
        /\ e \in Events /\ Enqueue(e)
    BY <1>6, OnKeyTodo
  <2>2. CASE todo' = Tail(todo)
    <3> HIDE DEF e
    <3> QED
      BY <2>1, <2>2, CallMade, CallFits, EnqueueEither
  <2>3. CASE todo' # Tail(todo)
    <3>1. /\ todo[1].key \in TwiceKeys /\ todo[1].do \in {"down", "up"}
          /\ Len(todo') = Len(todo) /\ todo'[1].do = todo[1].do /\ todo'[1].key = todo[1].key
          /\ \A i \in 2..Len(todo) : todo'[i] = todo[i]
          /\ todo[1].key # Caps
      BY <1>6, <2>3, OnKeyTodo
    <3>2. pc1 = "parse"
      BY <2>1, <3>1, TypedOnce
    <3>3. HalfPaired(todo) /\ \A i \in 1..Len(todo) : todo[i].key \in Pressed(prevState) \cup Pressed(report)
      BY <3>2 DEF TodoInv
    <3>4. HalfPaired(todo')
      <4> PICK t : t = todo'
        OBVIOUS
      <4> SUFFICES ASSUME NEW i \in 1..Len(t)
                   PROVE  /\ t[i].do = "lock" => /\ t[i].key = Caps
                                                 /\ i < Len(t) /\ t[i + 1] = Call("down", Caps)
                          /\ i > 1 /\ t[i] = Call("down", Caps) => t[i - 1].do = "lock"
        BY DEF HalfPaired
      <4>1. Len(t) = Len(todo) /\ i \in 1..Len(todo)
        BY <3>1
      <4>2. CASE i = 1
        BY <3>1, <4>2
      <4>3. CASE i # 1
        <5>1. i \in 2..Len(todo) /\ t[i] = todo[i]
          BY <1>0, <3>1, <4>1, <4>3
        <5>2. i < Len(t) => t[i + 1] = todo[i + 1]
          BY <1>0, <3>1, <4>1, <5>1
        <5>3. t[i - 1].do = todo[i - 1].do
          <6>1. i - 1 = 1 \/ i - 1 \in 2..Len(todo)
            BY <1>0, <5>1
          <6> QED
            BY <3>1, <6>1
        <5>4. /\ todo[i].do = "lock" => /\ todo[i].key = Caps
                                        /\ i < Len(todo) /\ todo[i + 1] = Call("down", Caps)
              /\ i > 1 /\ todo[i] = Call("down", Caps) => todo[i - 1].do = "lock"
          BY <3>3, <4>1 DEF HalfPaired
        <5> QED
          BY <4>1, <5>1, <5>2, <5>3, <5>4
      <4> QED
        BY <4>2, <4>3
    <3>5. \A i \in 1..Len(todo') : todo'[i].key \in Pressed(prevState) \cup Pressed(report)
      <4> TAKE i \in 1..Len(todo')
      <4>1. i \in 1..Len(todo) /\ (i = 1 \/ i \in 2..Len(todo))
        BY <1>0, <3>1
      <4> QED
        BY <3>1, <3>3, <4>1
    <3>6. HalfPaired(todo)' /\ (\A i \in 1..Len(todo) : todo[i].key \in Pressed(prevState) \cup Pressed(report))'
      BY <2>1, <3>4, <3>5 DEF HalfPaired, Pressed, KeysOf
    <3> QED
      BY <2>1, <3>2, <3>6 DEF TodoInv, TextFits
  <2> QED
    BY <2>2, <2>3
<1>7. CASE StartText
  <2>1. pc1 = "waitText" /\ pc1' = "forceUp" /\ todo' = ForcedUps /\ partial' = partial
        /\ queue' = queue /\ queue = <<>>
    BY <1>7 DEF StartText
  <2>2. Len(todo') = 3
    BY <2>1 DEF ForcedUps
  <2>3. (todo \in ForcedRests)'
    BY <2>1 DEF ForcedRests
  <2>4. partial
    BY <2>1 DEF TodoInv
  <2>5. TodoInv'
    BY <2>1, <2>3, <2>4 DEF TodoInv
  <2>6. TextFits'
    BY <1>0, <1>q, <2>1, <2>2 DEF TextFits
  <2> QED
    BY <2>5, <2>6
<1>8. CASE ForceCapsUp
  BY <1>8 DEF ForceCapsUp, TodoInv, TextFits
<1>9. CASE TypeChar
  <2>1. /\ pc1 = "waitChar" /\ pc1' = "type" /\ queue = <<>> /\ queue' = queue /\ partial' = partial
        /\ \E char \in CharKeys : todo' = CharCalls(char)
    BY <1>9 DEF TypeChar
  <2>2. /\ \A i \in 1..Len(todo') : /\ todo'[i].key \in TextChars \cup {"leftShift"}
                                    /\ todo'[i].do \in {"down", "up"}
        /\ Len(todo') <= 4 /\ Len(todo') \in Nat
    BY <2>1, CharCallsList
  <2>3. TodoInv'
    BY <2>1, <2>2 DEF TodoInv
  <2>4. TextFits'
    BY <1>0, <1>q, <2>1, <2>2 DEF TextFits
  <2> QED
    BY <2>3, <2>4
<1>10. CASE TypeCharDone
  BY <1>10 DEF TypeCharDone, TodoInv, TextFits
<1>11. CASE TextDone
  BY <1>11 DEF TextDone, TodoInv, TextFits
<1>12. CASE StartReset
  BY <1>12 DEF StartReset, TodoInv, TextFits
<1>13. CASE Drain
  BY <1>13 DEF Drain, TodoInv, TextFits
<1>14. CASE ResetDone
  BY <1>14 DEF ResetDone, TodoInv, TextFits
<1> DEFINE Same == /\ UNCHANGED <<pc1, prevState, report, todo, partial>>
                   /\ Len(queue') \in Nat /\ Len(queue') <= Len(queue)
<1>15. ASSUME Same PROVE TodoInv' /\ TextFits'
  <2>1. TodoInv'
    BY <1>15 DEF TodoInv, HalfPaired, Pressed, KeysOf, ForcedRests, ForcedUps, Call
  <2>2. TextFits'
    BY <1>0, <1>15 DEF TextFits
  <2> QED
    BY <2>1, <2>2
<1>16. CASE TakeEvent
  <2>1. UNCHANGED <<pc1, prevState, report, todo, partial>> /\ queue # <<>> /\ queue' = Tail(queue)
    BY <1>16 DEF TakeEvent
  <2>2. Len(queue') = Len(queue) - 1 /\ queue' \in Seq(Events)
    BY <2>1, TakenType
  <2>3. Len(queue') \in Nat
    BY <2>2, LenProperties
  <2>4. Len(queue') <= Len(queue)
    BY <1>0, <2>2, <2>3
  <2> QED
    BY <1>15, <2>1, <2>3, <2>4
<1>17. CASE SetLeds
  BY <1>0, <1>15, <1>17 DEF SetLeds
<1>18. CASE SetHandler
  BY <1>0, <1>15, <1>18 DEF SetHandler
<1> QED
  BY <1>1, <1>2, <1>3, <1>4, <1>5, <1>6, <1>7, <1>8, <1>9, <1>10, <1>11, <1>12, <1>13, <1>14,
     <1>16, <1>17, <1>18 DEF Next, ReportReceived, Parsing

\* Register 2 is about the report that is being made known, and the codes of the
\* original keyboard have no right Shift key.
RegisterInv ==
    /\ modifierKeys = Target.mods
    /\ ~recoded /\ ~extended => "rightShift" \notin down

LEMMA RegisterStep ==
    ASSUME TypeOK, TodoInv, RegisterInv, Next
    PROVE  RegisterInv'
<1> USE DEF RegisterInv, Target, registerVars, hostVars
<1>1. ASSUME NEW r \in Reports, ParseCombo(r) PROVE RegisterInv'
  <2>1. pc1 = "usb" /\ pc1' \in {"usb", "waitText"} /\ UNCHANGED <<prevState, registerVars, hostVars>>
    BY <1>1 DEF ParseCombo
  <2> QED
    BY <2>1
<1>2. ASSUME NEW r \in Reports, Parse(r) PROVE RegisterInv'
  <2>1. /\ pc1 = "usb" /\ pc1' = "parse" /\ report' = r /\ UNCHANGED <<hostVars>>
        /\ modifierKeys' = IF r.mods # prevState.mods THEN r.mods ELSE modifierKeys
    BY <1>2 DEF Parse
  <2> QED
    BY <2>1
<1>3. CASE ParseDone
  BY <1>3 DEF ParseDone
<1>4. CASE HandleLockingKeys
  BY <1>4 DEF HandleLockingKeys
<1>5. CASE OnCapsLock
  BY <1>5 DEF OnCapsLock
<1>6. CASE OnKey
  BY <1>6, OnKeyTodo
<1>7. CASE StartText
  BY <1>7 DEF StartText
<1>8. CASE ForceCapsUp
  BY <1>8 DEF ForceCapsUp
<1>9. CASE TypeChar
  <2>1. pc1 = "waitChar" /\ pc1' = "type" /\ UNCHANGED <<prevState, registerVars, hostVars>>
    BY <1>9 DEF TypeChar
  <2> QED
    BY <2>1
<1>10. CASE TypeCharDone
  BY <1>10 DEF TypeCharDone
<1>11. CASE TextDone
  BY <1>11 DEF TextDone
<1>12. CASE StartReset
  BY <1>12 DEF StartReset
<1>13. CASE Drain
  BY <1>13 DEF Drain
<1>14. CASE ResetDone
  BY <1>14 DEF ResetDone
<1>15. CASE TakeEvent
  <2>1. /\ UNCHANGED <<pc1, prevState, report, modifierKeys, recoded, extended>>
        /\ queue # <<>> /\ down' = AfterEvent(down, Head(queue)) /\ queue' = Tail(queue)
    BY <1>15 DEF TakeEvent
  <2>2. Head(queue) \in Events /\ down \in SUBSET AdbCodes
    BY <2>1, TakenType DEF TypeOK
  <2>3. ~extended => AdbCode(Head(queue).key) # "rightShift"
    BY <2>2, CodeCases DEF Events
  <2>4. ~extended /\ "rightShift" \notin down => "rightShift" \notin down'
    BY <2>1, <2>2, <2>3, AfterOne DEF Events
  <2> QED
    BY <2>1, <2>4
<1>16. CASE SetLeds
  BY <1>16 DEF SetLeds
<1>17. CASE SetHandler
  BY <1>17 DEF SetHandler, RightShiftUnderWay
<1> QED
  BY <1>1, <1>2, <1>3, <1>4, <1>5, <1>6, <1>7, <1>8, <1>9, <1>10, <1>11, <1>12, <1>13, <1>14,
     <1>15, <1>16, <1>17 DEF Next, ReportReceived, Parsing

-----------------------------------------------------------------------------
(* What each step makes of the keys the Macintosh will hold to be down. *)

LEMMA BelievedType ==
    ASSUME TypeOK
    PROVE  /\ Believed \in SUBSET AdbCodes /\ Outlook \in SUBSET AdbCodes
           /\ DOMAIN queue = 1..Len(queue) /\ DOMAIN todo = 1..Len(todo)
           /\ todo = <<>> => Outlook = Believed
           /\ queue = <<>> => Believed = down
<1>1. DOMAIN queue = 1..Len(queue) /\ DOMAIN todo = 1..Len(todo)
  BY LenProperties DEF TypeOK
<1>2. Believed \in SUBSET AdbCodes /\ Outlook \in SUBSET AdbCodes
  BY <1>1, AfterMember DEF Believed, Outlook
<1> QED
  BY <1>1, <1>2, AfterNothing DEF Believed, Outlook, TypeOK

LEMMA CallKeys == \A c \in Calls : c.key \in Keys \cup Mods
  BY DEF Calls

LEMMA EventKeys == \A e \in Events : e.key \in Keys \cup Mods
  BY DEF Events

LEMMA OutlookHead ==
    ASSUME TypeOK, todo # <<>>
    PROVE  Outlook = After(AfterEvent(Believed, todo[1]), Tail(todo))
<1>1. Believed \in SUBSET AdbCodes /\ todo \in Seq(Calls) /\ Head(todo) = todo[1]
  BY BelievedType, TodoParts DEF TypeOK
<1>2. \A keys \in SUBSET AdbCodes : After(keys, todo) = After(AfterEvent(keys, Head(todo)), Tail(todo))
  BY <1>1, CallKeys, AfterTail
<1> QED
  BY <1>1, <1>2 DEF Outlook

LEMMA HeardSame ==
    ASSUME UNCHANGED <<down, queue, extended>>
    PROVE  Believed' = Believed /\ (UNCHANGED todo => Outlook' = Outlook)
<1>1. Believed' = Believed
  BY DEF Believed, After, AdbCode
<1>2. UNCHANGED todo => Outlook' = Outlook
  BY <1>1 DEF Outlook, After, AdbCode
<1> QED
  BY <1>1, <1>2

LEMMA HeardTaken ==
    ASSUME TypeOK, TakeEvent
    PROVE  Believed' = Believed /\ Outlook' = Outlook
<1>1. queue # <<>> /\ queue' = Tail(queue) /\ down' = AfterEvent(down, Head(queue))
      /\ extended' = extended /\ todo' = todo
  BY DEF TakeEvent
<1>2. Believed' = After(down', queue') /\ Outlook' = After(Believed', todo')
  BY <1>1, HeardNext
<1>3. down \in SUBSET AdbCodes /\ queue \in Seq(Events)
  BY DEF TypeOK
<1>4. After(down, queue) = After(AfterEvent(down, Head(queue)), Tail(queue))
  BY <1>1, <1>3, EventKeys, AfterTail
<1>5. Believed' = Believed
  BY <1>1, <1>2, <1>4 DEF Believed
<1> QED
  BY <1>1, <1>2, <1>5 DEF Outlook

LEMMA HeardQueued ==
    ASSUME TypeOK, NEW e \in Events, UNCHANGED <<down, extended>>, queue' = Append(queue, e)
    PROVE  Believed' = AfterEvent(Believed, e) /\ Outlook' = After(Believed', todo')
<1>1. Believed' = After(down', queue') /\ Outlook' = After(Believed', todo')
  BY HeardNext
<1>2. down \in SUBSET AdbCodes /\ queue \in Seq(Events)
  BY DEF TypeOK
<1>3. After(down, Append(queue, e)) = AfterEvent(After(down, queue), e)
  BY <1>2, EventKeys, AfterAppend
<1> QED
  BY <1>1, <1>3 DEF Believed

LEMMA AfterAgain ==
    ASSUME NEW keys \in SUBSET AdbCodes, NEW e, NEW d, e.key \in Keys \cup Mods,
           d.key = e.key, d.do = e.do
    PROVE  /\ AfterEvent(keys, d) = AfterEvent(keys, e)
           /\ AfterEvent(AfterEvent(keys, e), d) = AfterEvent(keys, e)
<1>1. AfterEvent(keys, d) = AfterEvent(keys, e)
  BY DEF AfterEvent
<1>2. /\ AfterEvent(keys, e) \in SUBSET AdbCodes
      /\ \A c : c \in AfterEvent(keys, e) <=>
             IF AdbCode(e.key) = c THEN e.do = "down" \/ c = "power" ELSE c \in keys
  BY AfterOne
<1>3. /\ AfterEvent(AfterEvent(keys, e), d) \in SUBSET AdbCodes
      /\ \A c : c \in AfterEvent(AfterEvent(keys, e), d) <=>
             IF AdbCode(d.key) = c THEN d.do = "down" \/ c = "power" ELSE c \in AfterEvent(keys, e)
  BY <1>2, AfterOne
<1>4. \A c : c \in AfterEvent(AfterEvent(keys, e), d) <=> c \in AfterEvent(keys, e)
  BY <1>2, <1>3
<1>5. AfterEvent(AfterEvent(keys, e), d) = AfterEvent(keys, e)
  BY <1>4
<1> QED
  BY <1>1, <1>5

LEMMA EventFields == \A k, d : Event(k, d).key = k /\ Event(k, d).do = d
  BY DEF Event

\* A key call that finds room is what the Macintosh was to hear anyway.
LEMMA HeardKey ==
    ASSUME TypeOK, OnKey, Len(queue) < Capacity
    PROVE  Believed' = AfterEvent(Believed, todo[1]) /\ Outlook' = Outlook
<1> DEFINE e == Event(todo[1].key, todo[1].do)
<1>1. /\ todo # <<>> /\ e \in Events /\ Enqueue(e) /\ UNCHANGED <<down, extended>>
      /\ todo[1].key \in Keys \cup Mods /\ todo' \in Seq(Calls)
  BY OnKeyTodo DEF hostVars
<1>2. e.key = todo[1].key /\ e.do = todo[1].do
  BY EventFields
<1> HIDE DEF e
<1>3. queue' = Append(queue, e)
  BY <1>1 DEF Enqueue
<1>4. Believed \in SUBSET AdbCodes
  BY BelievedType
<1>5. Believed' = AfterEvent(Believed, e) /\ Outlook' = After(Believed', todo')
  BY <1>1, <1>3, HeardQueued
<1>6. Believed' = AfterEvent(Believed, todo[1])
  BY <1>1, <1>2, <1>4, <1>5, AfterAgain
<1>7. Outlook = After(AfterEvent(Believed, todo[1]), Tail(todo))
  BY <1>1, OutlookHead
<1>8. CASE todo' = Tail(todo)
  BY <1>5, <1>6, <1>7, <1>8
<1>9. CASE todo' # Tail(todo)
  <2>1. /\ todo'[1].do = todo[1].do /\ todo'[1].key = todo[1].key
        /\ todo' # <<>> /\ Head(todo') = todo'[1] /\ Tail(todo') = Tail(todo)
    BY <1>9, OnKeyTodo
  <2>2. Believed' \in SUBSET AdbCodes
    BY <1>1, <1>4, <1>6, AfterOne
  <2>3. PICK b, t : b = Believed' /\ t = todo'
    OBVIOUS
  <2>4. b \in SUBSET AdbCodes /\ t \in Seq(Calls) /\ t # <<>>
    BY <1>1, <2>1, <2>2, <2>3
  <2>5. After(b, t) = After(AfterEvent(b, Head(t)), Tail(t))
    BY <2>4, CallKeys, AfterTail
  <2>6. AfterEvent(b, Head(t)) = b
    <3>1. Head(t).key = todo[1].key /\ Head(t).do = todo[1].do
      BY <2>1, <2>3
    <3> QED
      BY <1>1, <1>4, <1>6, <2>3, <3>1, AfterAgain
  <2> QED
    BY <1>5, <1>6, <1>7, <2>1, <2>3, <2>5, <2>6
<1> QED
  BY <1>6, <1>8, <1>9

\* A Caps Lock call that finds room concerns no other key.
LEMMA HeardCaps ==
    ASSUME TypeOK, OnCapsLock, Len(queue) < Capacity
    PROVE  /\ Caps \in Believed' <=> capsLed
           /\ \A c \in AdbCodes \ {Caps} : c \in Outlook' <=> c \in Outlook
<1> DEFINE e == Event(Caps, IF capsLed THEN "down" ELSE "up")
<1>1. /\ todo # <<>> /\ todo[1] = Call("down", Caps) /\ todo' = Tail(todo)
      /\ Enqueue(e) /\ UNCHANGED <<down, extended>>
  BY TodoParts DEF OnCapsLock, hostVars
<1>2. e \in Events /\ e.key = Caps /\ (e.do = "down" <=> capsLed)
      /\ todo[1].key = Caps /\ Caps \in Keys
  BY <1>1, CallFields, EventFields DEF Event, Events, Keys
<1> HIDE DEF e
<1>3. queue' = Append(queue, e)
  BY <1>1 DEF Enqueue
<1>4. Believed \in SUBSET AdbCodes
  BY BelievedType
<1>5. Believed' = AfterEvent(Believed, e) /\ Outlook' = After(Believed', Tail(todo))
  BY <1>1, <1>2, <1>3, HeardQueued
<1>6. Outlook = After(AfterEvent(Believed, todo[1]), Tail(todo))
  BY <1>1, OutlookHead
<1>7. AdbCode(Caps) = Caps /\ Caps # "power" /\ Caps \in AdbCodes
  BY <1>2, CodeCases DEF KeysAssumption, SharedCodes, AdbCodes
<1>8. \A c : c \in Believed' <=> IF Caps = c THEN e.do = "down" \/ c = "power" ELSE c \in Believed
  BY <1>2, <1>4, <1>5, <1>7, AfterOne
<1>9. \A c : c \in AfterEvent(Believed, todo[1]) <=>
         IF Caps = c THEN todo[1].do = "down" \/ c = "power" ELSE c \in Believed
  BY <1>2, <1>4, <1>7, AfterOne
<1>10. DOMAIN Tail(todo) = 1..Len(Tail(todo))
  BY <1>1, TodoParts, LenProperties
<1>11. ASSUME NEW c \in AdbCodes \ {Caps} PROVE c \in Outlook' <=> c \in Outlook
  <2>1. c \in Believed' <=> c \in AfterEvent(Believed, todo[1])
    BY <1>8, <1>9
  <2> QED
    BY <1>5, <1>6, <1>10, <2>1, AfterLocal
<1> QED
  BY <1>2, <1>7, <1>8, <1>11

\* Neither does the change of the LED.
LEMMA HeardLock ==
    ASSUME TypeOK, HandleLockingKeys, todo[1].key = Caps
    PROVE  Believed' = Believed /\ \A c \in AdbCodes \ {Caps} : c \in Outlook' <=> c \in Outlook
<1>1. todo # <<>> /\ todo' = Tail(todo) /\ UNCHANGED <<down, queue, extended>> /\ Caps \in Keys
  BY DEF HandleLockingKeys, hostVars, Keys
<1>2. Believed' = Believed /\ Outlook' = After(Believed', todo')
  BY <1>1, HeardSame, HeardNext
<1>3. Outlook = After(AfterEvent(Believed, todo[1]), Tail(todo))
  BY <1>1, OutlookHead
<1>4. AdbCode(Caps) = Caps /\ Believed \in SUBSET AdbCodes
  BY <1>1, CodeCases, BelievedType
<1>5. \A c : c # Caps => (c \in AfterEvent(Believed, todo[1]) <=> c \in Believed)
  BY <1>1, <1>4, AfterOne
<1>6. DOMAIN Tail(todo) = 1..Len(Tail(todo))
  BY <1>1, TodoParts, LenProperties
<1>7. ASSUME NEW c \in AdbCodes \ {Caps} PROVE c \in Outlook' <=> c \in Outlook
  <2>1. c \in Believed <=> c \in AfterEvent(Believed, todo[1])
    BY <1>5
  <2> QED
    BY <1>1, <1>2, <1>3, <1>6, <2>1, AfterLocal
<1> QED
  BY <1>2, <1>7

LEMMA NoRoom ==
    ASSUME NEW e, Enqueue(e), ~(Len(queue) < Capacity)
    PROVE  queue' = queue /\ disturbed' = TRUE
  BY DEF Enqueue

LEMMA TextRoom ==
    ASSUME TypeOK, TextFits, pc1 \in {"forceUp", "type"}, todo # <<>> \/ pc1 = "forceUp"
    PROVE  Len(queue) < Capacity
<1>1. Len(queue) \in Nat /\ Len(todo) \in Nat /\ Capacity \in Nat
  BY LenProperties DEF TypeOK, SizeAssumption
<1>2. todo # <<>> => Len(todo) > 0
  BY <1>1, TodoParts
<1> QED
  BY <1>1, <1>2 DEF TextFits

\* The release of Caps Lock at the beginning of a text is heard.
LEMMA HeardForced ==
    ASSUME TypeOK, TextFits, ForceCapsUp
    PROVE  /\ capsLed' = FALSE /\ Outlook' = Believed' /\ disturbed' = disturbed
           /\ \A c : c \in Believed' <=> c # Caps /\ c \in Believed
<1> DEFINE e == Event(Caps, "up")
<1>1. /\ pc1 = "forceUp" /\ todo = <<>> /\ todo' = todo /\ Enqueue(e) /\ UNCHANGED <<down, extended>>
      /\ capsLed' = (capsLed /\ Len(queue) >= Capacity)
  BY DEF ForceCapsUp, hostVars
<1>2. e \in Events /\ e.key = Caps /\ e.do = "up" /\ Caps \in Keys
  BY DEF Event, Events, Keys
<1> HIDE DEF e
<1>3. Len(queue) < Capacity /\ Len(queue) \in Nat /\ Capacity \in Nat
  BY <1>1, TextRoom, LenProperties DEF TypeOK, SizeAssumption
<1>4. queue' = Append(queue, e) /\ disturbed' = disturbed
  BY <1>1, <1>3 DEF Enqueue
<1>5. Believed' = AfterEvent(Believed, e) /\ Outlook' = After(Believed', todo')
  BY <1>1, <1>2, <1>4, HeardQueued
<1>6. Believed \in SUBSET AdbCodes
  BY BelievedType
<1>7. AdbCode(Caps) = Caps /\ Caps # "power"
  BY <1>2, CodeCases DEF KeysAssumption, SharedCodes
<1>8. Believed' \in SUBSET AdbCodes
      /\ \A c : c \in Believed' <=> IF Caps = c THEN e.do = "down" \/ c = "power" ELSE c \in Believed
  BY <1>2, <1>5, <1>6, <1>7, AfterOne
<1>9. Outlook' = Believed'
  BY <1>1, <1>5, <1>8, AfterNothing
<1>10. capsLed' = FALSE
  <2>1. ~(Len(queue) >= Capacity)
    BY <1>3
  <2> QED
    BY <1>1, <2>1, Zenon
<1> QED
  BY <1>2, <1>4, <1>7, <1>8, <1>9, <1>10

\* The handler id has nothing to do with Caps Lock.
LEMMA HandlerKeepsCaps ==
    ASSUME TypeOK, UNCHANGED <<down, queue>>
    PROVE  Caps \in Believed' <=> Caps \in Believed
<1>1. \A k \in Keys \cup Mods : AdbCode(k)' = Caps <=> AdbCode(k) = Caps
  <2> TAKE k \in Keys \cup Mods
  <2>1. Caps # "leftShift" /\ Caps # "rightShift"
    BY ModsAre DEF KeysAssumption, Keys
  <2>2. CASE k = "rightShift"
    <3>1. k \notin PowerKeys /\ k \notin TwiceKeys
      BY <2>2, ModsAre DEF KeysAssumption, Keys
    <3> QED
      BY <2>1, <2>2, <3>1 DEF AdbCode
  <2>3. CASE k # "rightShift"
    BY <2>3 DEF AdbCode
  <2> QED
    BY <2>2, <2>3
<1>2. \A i \in DOMAIN queue : queue[i].key \in Keys \cup Mods
  BY EventKeys, LenProperties DEF TypeOK
<1>3. \A i \in DOMAIN queue : AdbCode(queue[i].key)' = Caps <=> AdbCode(queue[i].key) = Caps
  BY <1>1, <1>2 DEF AdbCode
<1> QED
  BY <1>3 DEF Believed, After, AdbCode

\* When all events are taken Caps Lock is down if its LED is lit; the LED is a
\* call ahead.  While a text is typed it is up.
CapsInv ==
    /\ ~disturbed /\ ~(todo # <<>> /\ Head(todo) = Call("down", Caps))
          => (Caps \in Believed <=> capsLed)
    /\ pc1 \in {"waitChar", "type"} => Caps \notin Believed

LEMMA CapsStep ==
    ASSUME TypeOK, TodoInv, TextFits, CapsInv, Next
    PROVE  CapsInv'
<1> USE DEF hostVars
<1>s. ASSUME UNCHANGED <<down, queue, extended, todo, capsLed, disturbed>>,
             pc1' \in {"waitChar", "type"} => pc1 \in {"waitChar", "type"}
      PROVE  CapsInv'
  <2>1. Believed' = Believed
    BY <1>s, HeardSame
  <2> QED
    BY <1>s, <2>1 DEF CapsInv, Call
<1>1. ASSUME NEW r \in Reports, ParseCombo(r) PROVE CapsInv'
  BY <1>1, <1>s DEF ParseCombo
<1>2. ASSUME NEW r \in Reports, Parse(r) PROVE CapsInv'
  <2>1. /\ pc1 = "usb" /\ pc1' = "parse" /\ UNCHANGED <<down, queue, extended, capsLed, disturbed>>
    BY <1>2 DEF Parse
  <2>2. Believed' = Believed /\ todo = <<>>
    BY <2>1, HeardSame DEF TodoInv
  <2> QED
    BY <2>1, <2>2 DEF CapsInv
<1>3. CASE ParseDone
  BY <1>3, <1>s DEF ParseDone
<1>4. CASE HandleLockingKeys
  <2>1. /\ todo # <<>> /\ todo[1].do = "lock" /\ todo' = Tail(todo)
        /\ UNCHANGED <<pc1, down, queue, extended, disturbed>>
    BY <1>4, TodoParts DEF HandleLockingKeys
  <2>2. pc1 = "parse"
    BY <2>1, TypedOnce
  <2>3. todo' # <<>> /\ Head(todo') = Call("down", Caps)
    BY <2>1, <2>2, HalfPairedRest DEF TodoInv
  <2>4. (todo # <<>> /\ Head(todo) = Call("down", Caps))'
    BY <2>3 DEF Call
  <2> QED
    BY <2>1, <2>2, <2>4 DEF CapsInv
<1>5. CASE OnCapsLock
  <2>1. /\ todo # <<>> /\ todo[1] = Call("down", Caps) /\ todo' = Tail(todo)
        /\ Enqueue(Event(Caps, IF capsLed THEN "down" ELSE "up"))
        /\ UNCHANGED <<pc1, capsLed>>
    BY <1>5, TodoParts DEF OnCapsLock
  <2>2. pc1 = "parse"
    BY <2>1, TypedOnce
  <2>3. todo[1].do # "lock"
    BY <2>1, CallFields
  <2>4. CASE ~(Len(queue) < Capacity)
    BY <2>1, <2>2, <2>4, NoRoom DEF CapsInv
  <2>5. CASE Len(queue) < Capacity
    <3>1. Caps \in Believed' <=> capsLed
      BY <1>5, <2>5, HeardCaps
    <3> QED
      BY <2>1, <2>2, <3>1 DEF CapsInv
  <2> QED
    BY <2>4, <2>5
<1>6. CASE OnKey
  <2> DEFINE e == Event(todo[1].key, todo[1].do)
  <2>1. /\ todo # <<>> /\ todo[1].do \in {"down", "up"} /\ todo[1].key \in (Keys \cup Mods) \ {Caps}
        /\ e \in Events /\ Enqueue(e) /\ UNCHANGED <<pc1, capsLed, down, extended>>
    BY <1>6, OnKeyTodo
  <2>2. ~(Head(todo) = Call("down", Caps))
    BY <2>1, TodoParts, CallFields
  <2>3. CASE Len(queue) < Capacity
    <3>1. Believed' = AfterEvent(Believed, todo[1]) /\ disturbed' = disturbed
      BY <1>6, <2>1, <2>3, HeardKey DEF Enqueue
    <3>2. Caps \in Believed' <=> Caps \in Believed
      <4>1. AdbCode(todo[1].key) # Caps
        BY <2>1, CodeCases
      <4> QED
        BY <2>1, <3>1, <4>1, BelievedType, AfterOne
    <3> QED
      BY <2>1, <2>2, <3>1, <3>2 DEF CapsInv
  <2>4. CASE ~(Len(queue) < Capacity)
    <3>1. pc1 \notin {"waitChar", "type"}
      BY <2>1, <2>4, TextRoom, TodoParts
    <3> QED
      BY <2>1, <2>4, <3>1, NoRoom DEF CapsInv
  <2> QED
    BY <2>3, <2>4
<1>7. CASE StartText
  <2>1. /\ pc1 = "waitText" /\ pc1' = "forceUp" /\ UNCHANGED <<down, queue, extended, capsLed, disturbed>>
    BY <1>7 DEF StartText
  <2>2. Believed' = Believed /\ todo = <<>>
    BY <2>1, HeardSame DEF TodoInv
  <2> QED
    BY <2>1, <2>2 DEF CapsInv
<1>8. CASE ForceCapsUp
  BY <1>8, HeardForced DEF CapsInv
<1>9. CASE TypeChar
  <2>1. /\ pc1 = "waitChar" /\ UNCHANGED <<down, queue, extended, capsLed, disturbed>>
    BY <1>9 DEF TypeChar
  <2>2. Believed' = Believed /\ todo = <<>>
    BY <2>1, HeardSame DEF TodoInv
  <2> QED
    BY <2>1, <2>2 DEF CapsInv
<1>10. CASE TypeCharDone
  BY <1>10, <1>s DEF TypeCharDone
<1>11. CASE TextDone
  BY <1>11, <1>s DEF TextDone
<1>12. CASE StartReset
  BY <1>12, <1>s DEF StartReset
<1>13. CASE Drain
  BY <1>13 DEF Drain, CapsInv
<1>14. CASE ResetDone
  <2>1. /\ pc1 = "drain" /\ pc1' = "usb" /\ UNCHANGED <<down, queue, extended, todo>>
        /\ capsLed' = FALSE /\ disturbed' = (disturbed \/ capsLed)
    BY <1>14 DEF ResetDone
  <2>2. Believed' = Believed /\ todo = <<>>
    BY <2>1, HeardSame DEF TodoInv
  <2> QED
    BY <2>1, <2>2 DEF CapsInv
<1>15. CASE TakeEvent
  <2>1. UNCHANGED <<pc1, todo, capsLed, disturbed>>
    BY <1>15 DEF TakeEvent
  <2> QED
    BY <1>15, <2>1, HeardTaken DEF CapsInv, Call
<1>16. CASE SetLeds
  <2>1. disturbed' = TRUE /\ UNCHANGED <<pc1, down, queue, extended>>
    BY <1>16 DEF SetLeds
  <2> QED
    BY <2>1, HeardSame DEF CapsInv
<1>17. CASE SetHandler
  <2>1. UNCHANGED <<pc1, todo, capsLed, disturbed, down, queue>>
    BY <1>17 DEF SetHandler
  <2> QED
    BY <2>1, HandlerKeepsCaps DEF CapsInv, Call
<1> QED
  BY <1>1, <1>2, <1>3, <1>4, <1>5, <1>6, <1>7, <1>8, <1>9, <1>10, <1>11, <1>12, <1>13, <1>14,
     <1>15, <1>16, <1>17 DEF Next, ReportReceived, Parsing

\* Before a text is typed the modifiers are up, or about to be released; while
\* it is typed they are up after every character.
UnmodifiedInv ==
    ~recoded =>
        /\ pc1 \in {"waitChar", "type"} => Outlook \cap Mods = {}
        /\ pc1 = "forceUp" =>
              \A m \in Mods : m \in Believed => \E i \in 1..Len(todo) : todo[i].key = m

LEMMA NoRightShift ==
    ASSUME TypeOK, RegisterInv, ~recoded, ~extended
    PROVE  "rightShift" \notin Believed
<1>1. "rightShift" \notin down /\ DOMAIN queue = 1..Len(queue)
  BY BelievedType DEF RegisterInv
<1>2. \A i \in 1..Len(queue) : queue[i].key \in Keys \cup Mods
  BY EventKeys DEF TypeOK
<1>3. \A i \in 1..Len(queue) : AdbCode(queue[i].key) # "rightShift"
  BY <1>2, CodeCases
<1> QED
  BY <1>1, <1>3 DEF Believed, After

\* A typed character leaves no key down that was up.
LEMMA HeardChar ==
    ASSUME TypeOK, TodoInv, TypeChar
    PROVE  Believed' = Believed /\ Outlook = Believed
           /\ \A c \in Outlook' : c = "power" \/ c \in Outlook
<1>1. /\ pc1 = "waitChar" /\ UNCHANGED <<down, queue, extended>>
      /\ \E char \in CharKeys : todo' = CharCalls(char)
  BY DEF TypeChar, hostVars
<1>2. Believed' = Believed /\ Outlook' = After(Believed', todo')
  BY <1>1, HeardSame, HeardNext
<1>3. todo = <<>> /\ Outlook = Believed
  BY <1>1, BelievedType DEF TodoInv
<1>4. PICK t : t = todo'
  OBVIOUS
<1>5. /\ t \in Seq(Calls) /\ Len(t) \in Nat
      /\ \A i \in 1..Len(t) : t[i].do = "down" =>
            \E j \in 1..Len(t) : j > i /\ t[j].do = "up" /\ t[j].key = t[i].key
  BY <1>1, <1>4, CharCallsList
<1>6. DOMAIN t = 1..Len(t)
  BY <1>5, LenProperties
<1>7. ASSUME NEW c \in After(Believed, t), c # "power" PROVE c \in Believed
  <2>1. c \in AdbCodes
    BY <1>6, AfterMember
  <2>2. SUFFICES ASSUME NEW i \in 1..Len(t), AdbCode(t[i].key) = c, t[i].do = "down",
                        \A j \in 1..Len(t) : AdbCode(t[j].key) = c => j <= i
                 PROVE  FALSE
    BY <1>6, <1>7, <2>1, AfterMember
  <2>3. PICK j \in 1..Len(t) : j > i /\ t[j].key = t[i].key
    BY <1>5, <2>2
  <2>4. j <= i
    BY <2>2, <2>3
  <2> QED
    BY <1>5, <2>3, <2>4
<1> QED
  BY <1>2, <1>3, <1>4, <1>7

\* No right Shift key, no change of codes.
LEMMA HandlerKeeps ==
    ASSUME TypeOK, TodoInv, SetHandler, recoded' = FALSE
    PROVE  /\ recoded = FALSE /\ Believed' = Believed /\ (pc1 # "forceUp" => Outlook' = Outlook)
           /\ "rightShift" \notin prevState.mods \cup report.mods
<1>1. /\ ~RightShiftUnderWay /\ ~recoded
      /\ UNCHANGED <<pc1, down, queue, todo, prevState, report>>
  BY DEF SetHandler
<1>2. /\ \A i \in DOMAIN queue : queue[i].key # "rightShift"
      /\ "rightShift" \notin prevState.mods \cup report.mods
  BY <1>1 DEF RightShiftUnderWay
<1>3. Believed' = Believed
  BY <1>1, <1>2, HandlerKeepsQueue
<1>4. ASSUME pc1 # "forceUp" PROVE \A i \in DOMAIN todo : todo[i].key # "rightShift"
  <2>1. DOMAIN todo = 1..Len(todo)
    BY BelievedType
  <2>2. CASE pc1 = "parse"
    <3>1. \A i \in 1..Len(todo) : todo[i].key \in Pressed(prevState) \cup Pressed(report)
      BY <2>2 DEF TodoInv
    <3>2. "rightShift" \notin Pressed(prevState) \cup Pressed(report)
      BY <1>2, ReportKeys, ModsAre DEF TypeOK
    <3> QED
      BY <2>1, <3>1, <3>2
  <2>3. CASE pc1 = "type"
    <3>1. \A i \in 1..Len(todo) : todo[i].key \in TextChars \cup {"leftShift"}
      BY <2>3 DEF TodoInv
    <3>2. "rightShift" \notin TextChars
      BY ModsAre DEF KeysAssumption
    <3> QED
      BY <2>1, <3>1, <3>2
  <2>4. CASE pc1 \notin {"parse", "forceUp", "type"}
    <3>1. todo = <<>>
      BY <2>4 DEF TodoInv
    <3> QED
      BY <3>1
  <2> QED
    BY <1>4, <2>2, <2>3, <2>4
<1>5. pc1 # "forceUp" => Outlook' = Outlook
  BY <1>1, <1>3, <1>4, HandlerKeepsCalls
<1> QED
  BY <1>1, <1>2, <1>3, <1>5, Zenon DEF TypeOK

LEMMA UnmodifiedStep ==
    ASSUME TypeOK, TodoInv, TextFits, RegisterInv, UnmodifiedInv, Next
    PROVE  UnmodifiedInv'
<1> USE DEF hostVars
<1>0. ASSUME pc1' \notin {"waitChar", "type", "forceUp"} PROVE UnmodifiedInv'
  BY <1>0 DEF UnmodifiedInv
<1>s. ASSUME UNCHANGED <<pc1, down, queue, extended, todo, recoded>>
      PROVE  UnmodifiedInv'
  <2>1. Believed' = Believed /\ Outlook' = Outlook
    BY <1>s, HeardSame
  <2> QED
    BY <1>s, <2>1 DEF UnmodifiedInv, Mods
<1>1. ASSUME NEW r \in Reports, ParseCombo(r) PROVE UnmodifiedInv'
  <2>1. pc1' = "usb" \/ pc1' = "waitText"
    BY <1>1 DEF ParseCombo
  <2> QED
    BY <2>1, <1>0
<1>2. ASSUME NEW r \in Reports, Parse(r) PROVE UnmodifiedInv'
  BY <1>0, <1>2 DEF Parse
<1>3. CASE ParseDone
  BY <1>0, <1>3 DEF ParseDone
<1>4. CASE HandleLockingKeys
  <2>1. todo # <<>> /\ todo[1].do = "lock" /\ pc1' = pc1
    BY <1>4, TodoParts DEF HandleLockingKeys
  <2>2. pc1 = "parse"
    BY <2>1, TypedOnce
  <2> QED
    BY <1>0, <2>1, <2>2
<1>5. CASE OnCapsLock
  <2>1. todo # <<>> /\ todo[1] = Call("down", Caps) /\ pc1' = pc1
    BY <1>5, TodoParts DEF OnCapsLock
  <2>2. pc1 = "parse"
    BY <2>1, TypedOnce
  <2> QED
    BY <1>0, <2>1, <2>2
<1>6. CASE OnKey
  <2>1. /\ todo # <<>> /\ UNCHANGED <<pc1, recoded>>
        /\ (todo' = Tail(todo) \/ todo[1].key \in TwiceKeys)
    BY <1>6, OnKeyTodo
  <2>2. CASE pc1 \notin {"forceUp", "type"}
    <3>1. pc1 = "parse"
      BY <2>1, <2>2, TodoParts
    <3> QED
      BY <1>0, <2>1, <3>1
  <2>3. CASE pc1 = "type"
    <3>1. Len(queue) < Capacity
      BY <2>1, <2>3, TextRoom
    <3>2. Outlook' = Outlook
      BY <1>6, <3>1, HeardKey
    <3> QED
      BY <2>1, <2>3, <3>2 DEF UnmodifiedInv, Mods
  <2>4. CASE pc1 = "forceUp"
    <3>1. Len(queue) < Capacity
      BY <2>1, <2>4, TextRoom
    <3>2. Believed' = AfterEvent(Believed, todo[1])
      BY <1>6, <3>1, HeardKey
    <3>3. todo \in ForcedRests
      BY <2>4 DEF TodoInv
    <3>4. todo[1].do = "up" /\ todo[1].key \in Mods \ TwiceKeys
      BY <2>1, <3>3, RestsAre
    <3>5. todo' = Tail(todo)
      BY <2>1, <3>4
    <3>6. \A c : c \in Believed' => (AdbCode(todo[1].key) # c /\ c \in Believed) \/ c = "power"
      BY <3>2, <3>4, BelievedType, AfterOne
    <3>7. ASSUME ~recoded, NEW m \in Mods, m \in Believed'
          PROVE  \E i \in 1..Len(Tail(todo)) : Tail(todo)[i].key = m
      <4>1. m \in Believed /\ AdbCode(todo[1].key) # m
        BY <3>6, <3>7, ModsAre
      <4>2. PICK i \in 1..Len(todo) : todo[i].key = m
        BY <2>4, <3>7, <4>1 DEF UnmodifiedInv
      <4>3. i # 1
        <5> SUFFICES ASSUME todo[1].key = m PROVE FALSE
          BY <4>2
        <5>1. m = "rightShift" /\ ~extended
          BY <4>1, CodeCases, ModsAre
        <5> QED
          BY <3>7, <4>1, <5>1, NoRightShift
      <4>4. i - 1 \in 1..Len(Tail(todo)) /\ (i - 1) + 1 = i
        BY <2>1, <4>3, TodoParts
      <4>5. Tail(todo)[i - 1] = todo[(i - 1) + 1]
        BY <2>1, <4>4, TodoParts
      <4> QED
        BY <4>2, <4>4, <4>5
    <3> QED
      BY <2>1, <2>4, <3>5, <3>7 DEF UnmodifiedInv, Mods
  <2> QED
    BY <2>2, <2>3, <2>4
<1>7. CASE StartText
  <2>1. pc1' = "forceUp" /\ todo' = ForcedUps
    BY <1>7 DEF StartText
  <2>2. /\ Len(ForcedUps) = 3 /\ ForcedUps[1].key = "leftShift"
        /\ ForcedUps[2].key = "rightShift" /\ ForcedUps[3].key = "leftCtrl"
    BY CallFields DEF ForcedUps
  <2>3. \A m \in Mods : \E i \in 1..3 : ForcedUps[i].key = m
    <3>1. 1 \in 1..3 /\ 2 \in 1..3 /\ 3 \in 1..3
      OBVIOUS
    <3> QED
      BY <2>2, <3>1, ModsAre
  <2> QED
    BY <2>1, <2>2, <2>3 DEF UnmodifiedInv, Mods
<1>8. CASE ForceCapsUp
  <2>1. pc1 = "forceUp" /\ pc1' = "waitChar" /\ todo = <<>> /\ recoded' = recoded
    BY <1>8 DEF ForceCapsUp
  <2>2. ~recoded => \A m \in Mods : m \notin Believed
    BY <2>1 DEF UnmodifiedInv
  <2>3. Outlook' = Believed' /\ \A c : c \in Believed' => c \in Believed
    BY <1>8, HeardForced
  <2> QED
    BY <2>1, <2>2, <2>3 DEF UnmodifiedInv, Mods
<1>9. CASE TypeChar
  <2>1. pc1 = "waitChar" /\ pc1' = "type" /\ recoded' = recoded
    BY <1>9 DEF TypeChar
  <2>2. \A c \in Outlook' : c = "power" \/ c \in Outlook
    BY <1>9, HeardChar
  <2>3. "power" \notin Mods
    BY ModsAre
  <2> QED
    BY <2>1, <2>2, <2>3 DEF UnmodifiedInv, Mods
<1>10. CASE TypeCharDone
  <2>1. pc1 = "type" /\ pc1' = "waitChar" /\ UNCHANGED <<down, queue, extended, todo, recoded>>
    BY <1>10 DEF TypeCharDone
  <2>2. Outlook' = Outlook
    BY <2>1, HeardSame
  <2> QED
    BY <2>1, <2>2 DEF UnmodifiedInv, Mods
<1>11. CASE TextDone
  BY <1>0, <1>11 DEF TextDone
<1>12. CASE StartReset
  BY <1>0, <1>12 DEF StartReset
<1>13. CASE Drain
  BY <1>0, <1>13 DEF Drain
<1>14. CASE ResetDone
  BY <1>0, <1>14 DEF ResetDone
<1>15. CASE TakeEvent
  <2>1. UNCHANGED <<pc1, todo, recoded>>
    BY <1>15 DEF TakeEvent
  <2> QED
    BY <1>15, <2>1, HeardTaken DEF UnmodifiedInv, Mods
<1>16. CASE SetLeds
  BY <1>16, <1>s DEF SetLeds
<1>17. CASE SetHandler
  <2>1. UNCHANGED <<pc1, todo>> /\ recoded' = (recoded \/ RightShiftUnderWay)
    BY <1>17 DEF SetHandler
  <2>2. ASSUME ~recoded' PROVE UnmodifiedInv'
    <3>1. recoded' = FALSE
      BY <2>1, <2>2, Zenon
    <3>2. recoded = FALSE /\ Believed' = Believed /\ (pc1 # "forceUp" => Outlook' = Outlook)
      BY <1>17, <3>1, HandlerKeeps
    <3> QED
      BY <2>1, <3>1, <3>2 DEF UnmodifiedInv, Mods
  <2> QED
    BY <2>2 DEF UnmodifiedInv
<1> QED
  BY <1>1, <1>2, <1>3, <1>4, <1>5, <1>6, <1>7, <1>8, <1>9, <1>10, <1>11, <1>12, <1>13, <1>14,
     <1>15, <1>16, <1>17 DEF Next, ReportReceived, Parsing

LEMMA LastOne ==
    ASSUME NEW n \in Nat, NEW T \in SUBSET (1..n), T # {}
    PROVE  \E x \in T : \A y \in T : y <= x
<1> DEFINE D == {n - i : i \in T}
<1>1. D \in SUBSET Nat /\ D # {}
  <2>1. \A i \in T : i \in 1..n /\ n - i \in Nat
    OBVIOUS
  <2>2. PICK i \in T : TRUE
    OBVIOUS
  <2>3. n - i \in D
    BY <2>2
  <2> QED
    BY <2>1, <2>3
<1>2. PICK d \in D : \A e \in D : d <= e
  <2> HIDE DEF D
  <2> QED
    BY <1>1, Least
<1>3. PICK x \in T : d = n - x
  BY <1>2
<1>4. ASSUME NEW y \in T PROVE y <= x
  <2>1. n - y \in D /\ y \in 1..n /\ x \in 1..n
    OBVIOUS
  <2>2. d <= n - y
    BY <1>2, <2>1
  <2> QED
    BY <1>3, <2>1, <2>2
<1> QED
  BY <1>4

\* The calls for a report make the Macintosh hold what the report has, if before
\* it held what the last one had.
LEMMA ReportHeard ==
    ASSUME NEW keys \in SUBSET AdbCodes, NEW b \in AllReports, NEW a \in AllReports,
           NEW s, s = ReportCalls(b, a)
    PROVE  /\ (\A c \in keys : c \in {Caps, "power"} \/ c \in AdbCodesOf(Pressed(b)))
              => \A c \in After(keys, s) : c \in {Caps, "power"} \/ c \in AdbCodesOf(Pressed(a))
           /\ /\ \A j, k \in Pressed(b) \cup Pressed(a) : j # k => AdbCode(j) # AdbCode(k)
              /\ \A c \in AdbCodesOf(Pressed(b)) : c \in {Caps, "power"} \/ c \in keys
              => \A c \in AdbCodesOf(Pressed(a)) : c \in {Caps, "power"} \/ c \in After(keys, s)
<1>1. /\ s \in Lists(b, a)
      /\ \A k \in Pressed(a) \ Pressed(b) : \E i \in 1..Len(s) : s[i] = Call("down", k)
      /\ \A k \in Pressed(b) \ (Pressed(a) \cup {Caps}) : \E i \in 1..Len(s) : s[i] = Call("up", k)
  BY ReportCallsList
<1>2. /\ s \in Seq(CallsFor(b, a)) /\ Len(s) \in Nat /\ DOMAIN s = 1..Len(s)
      /\ \A i \in 1..Len(s) : s[i].key \in Pressed(b) \cup Pressed(a)
  BY <1>1, ListKeys, LenProperties DEF Lists
<1>3. Pressed(b) \in SUBSET (Keys \cup Mods) /\ Pressed(a) \in SUBSET (Keys \cup Mods)
  BY ReportKeys
<1>4. \A i \in 1..Len(s) :
         /\ s[i].do = "down" => s[i].key \in Pressed(a)
         /\ s[i].do = "up" => s[i].key \notin Pressed(a)
         /\ s[i].do \in {"down", "up"} \/ s[i].key = Caps
  <2> TAKE i \in 1..Len(s)
  <2>1. s[i] \in CallsFor(b, a)
    BY <1>2
  <2> QED
    BY <2>1, CallFields DEF CallsFor
<1>5. ASSUME \A c \in keys : c \in {Caps, "power"} \/ c \in AdbCodesOf(Pressed(b)),
             NEW c \in After(keys, s), c \notin {Caps, "power"}
      PROVE  c \in AdbCodesOf(Pressed(a))
  <2>1. c \in AdbCodes
    BY <1>2, AfterMember
  <2>2. CASE c \in keys /\ \A i \in 1..Len(s) : AdbCode(s[i].key) # c
    <3>1. PICK k \in Pressed(b) : AdbCode(k) = c
      BY <1>5, <2>2 DEF AdbCodesOf
    <3>2. k # Caps
      BY <1>3, <1>5, <3>1, CodeCases
    <3>3. k \in Pressed(a)
      <4> SUFFICES ASSUME k \notin Pressed(a) PROVE FALSE
        OBVIOUS
      <4>1. PICK i \in 1..Len(s) : s[i] = Call("up", k)
        BY <1>1, <3>2
      <4>2. s[i].key = k
        BY <4>1, CallFields
      <4> QED
        BY <2>2, <3>1, <4>2
    <3> QED
      BY <3>1, <3>3 DEF AdbCodesOf
  <2>3. CASE \E i \in 1..Len(s) : AdbCode(s[i].key) = c /\ s[i].do = "down"
    BY <1>4, <2>3 DEF AdbCodesOf
  <2> QED
    BY <1>2, <1>5, <2>1, <2>2, <2>3, AfterMember
<1>6. ASSUME \A j, k \in Pressed(b) \cup Pressed(a) : j # k => AdbCode(j) # AdbCode(k),
             \A c \in AdbCodesOf(Pressed(b)) : c \in {Caps, "power"} \/ c \in keys,
             NEW c \in AdbCodesOf(Pressed(a)), c \notin {Caps, "power"}
      PROVE  c \in After(keys, s)
  <2>1. PICK k \in Pressed(a) : AdbCode(k) = c
    BY DEF AdbCodesOf
  <2>2. c \in AdbCodes /\ k # Caps
    BY <1>3, <1>6, <2>1, CodeCases
  <2>3. \A i \in 1..Len(s) : AdbCode(s[i].key) = c => s[i].key = k
    BY <1>2, <1>6, <2>1
  <2>4. \A i \in 1..Len(s) : AdbCode(s[i].key) = c => s[i].do = "down"
    BY <1>4, <2>1, <2>2, <2>3
  <2> DEFINE T == {i \in 1..Len(s) : AdbCode(s[i].key) = c}
  <2>5. CASE T = {}
    <3>1. \A i \in 1..Len(s) : AdbCode(s[i].key) # c
      BY <2>5
    <3>2. k \in Pressed(b)
      <4> SUFFICES ASSUME k \notin Pressed(b) PROVE FALSE
        OBVIOUS
      <4>1. PICK i \in 1..Len(s) : s[i] = Call("down", k)
        BY <1>1, <2>1
      <4>2. s[i].key = k
        BY <4>1, CallFields
      <4> QED
        BY <2>1, <3>1, <4>2
    <3>3. c \in keys
      BY <1>6, <2>1, <3>2 DEF AdbCodesOf
    <3> QED
      BY <1>2, <2>2, <3>1, <3>3, AfterMember
  <2>6. CASE T # {}
    <3>1. T \in SUBSET (1..Len(s))
      OBVIOUS
    <3>2. PICK i \in T : \A j \in T : j <= i
      <4> HIDE DEF T
      <4> QED
        BY <1>2, <2>6, <3>1, LastOne
    <3>3. i \in 1..Len(s) /\ AdbCode(s[i].key) = c /\ s[i].do = "down"
          /\ \A j \in 1..Len(s) : AdbCode(s[j].key) = c => j <= i
      BY <2>4, <3>2
    <3> QED
      BY <1>2, <2>2, <3>3, AfterMember
  <2> QED
    BY <2>5, <2>6
<1> QED
  BY <1>5, <1>6

\* What the Macintosh will hold to be down when the calls under way are made;
\* at the beginning of a text these do not count yet.
Heard == IF pc1 = "forceUp" THEN Believed ELSE Outlook
Wanted == AdbCodesOf(Pressed(Target))

\* It follows the report that is being made known.
FollowInv ==
    ~disturbed /\ ~recoded =>
        /\ \A c \in Heard : c \in {Caps, "power"} \/ c \in Wanted
        /\ partial \/ \A c \in Wanted : c \in {Caps, "power"} \/ c \in Heard

LEMMA WantedSame ==
    ASSUME Target' = Target, extended' = extended
    PROVE  Wanted' = Wanted
  BY DEF Wanted, AdbCodesOf, AdbCode, Pressed, KeysOf

LEMMA FollowSame ==
    ASSUME TypeOK, FollowInv, Wanted' = Wanted, ~disturbed' => ~disturbed, ~recoded' => ~recoded,
           Heard' \in SUBSET AdbCodes,
           \A c \in AdbCodes \ {Caps, "power"} : c \in Heard' => c \in Heard,
           partial' = TRUE \/ (/\ partial' = partial
                               /\ \A c \in AdbCodes \ {Caps, "power"} : c \in Heard => c \in Heard')
    PROVE  FollowInv'
<1>1. Heard \in SUBSET AdbCodes
  BY BelievedType DEF Heard
<1>2. ASSUME ~disturbed', ~recoded', NEW c \in Heard', c \notin {Caps, "power"}
      PROVE  c \in Wanted'
  <2>1. c \in Heard
    BY <1>2
  <2> QED
    BY <1>2, <2>1 DEF FollowInv
<1>3. ASSUME ~disturbed', ~recoded', ~partial', NEW c \in Wanted', c \notin {Caps, "power"}
      PROVE  c \in Heard'
  <2>1. ~partial /\ c \in Wanted
    BY <1>3
  <2>2. c \in Heard
    BY <1>3, <2>1 DEF FollowInv
  <2>3. c \in AdbCodes \ {Caps, "power"}
    BY <1>1, <1>3, <2>2
  <2> QED
    BY <1>3, <2>2, <2>3
<1> QED
  BY <1>2, <1>3 DEF FollowInv

LEMMA FollowStep ==
    ASSUME TypeOK, TodoInv, TextFits, FollowInv, Next
    PROVE  FollowInv'
<1> USE DEF hostVars
<1>0. /\ Heard \in SUBSET AdbCodes /\ Believed \in SUBSET AdbCodes /\ Outlook \in SUBSET AdbCodes
      /\ Heard' \in SUBSET AdbCodes /\ TypeOK'
  <2>1. TypeOK' /\ Believed \in SUBSET AdbCodes /\ Outlook \in SUBSET AdbCodes
    BY TypeStep, BelievedType
  <2>2. Believed' \in SUBSET AdbCodes
    BY DEF Believed, After
  <2>3. Outlook' \in SUBSET AdbCodes
    BY DEF Outlook, After
  <2> QED
    BY <2>1, <2>2, <2>3 DEF Heard
<1>d. ASSUME disturbed' = TRUE PROVE FollowInv'
  BY <1>d DEF FollowInv
<1>s. ASSUME UNCHANGED <<prevState, extended, disturbed, recoded>>, partial' \in {partial, TRUE},
             pc1 \notin {"parse", "forceUp"}, pc1' \notin {"parse", "forceUp"},
             \A c \in AdbCodes \ {Caps, "power"} : c \in Outlook' <=> c \in Outlook
      PROVE  FollowInv'
  <2>1. Heard = Outlook /\ Heard' = Outlook' /\ Wanted' = Wanted
    BY <1>s, WantedSame DEF Heard, Target
  <2> QED
    BY <1>0, <1>s, <2>1, FollowSame
<1>1. ASSUME NEW r \in Reports, ParseCombo(r) PROVE FollowInv'
  <2>1. /\ pc1 = "usb" /\ pc1' \in {"usb", "waitText"} /\ partial' \in {partial, TRUE}
        /\ UNCHANGED <<prevState, extended, disturbed, recoded, down, queue, todo>>
    BY <1>1 DEF ParseCombo
  <2> QED
    BY <2>1, <1>s, HeardSame
<1>2. ASSUME NEW r \in Reports, Parse(r) PROVE FollowInv'
  <2>1. /\ pc1 = "usb" /\ pc1' = "parse" /\ report' = r /\ todo' = ReportCalls(prevState, r)
        /\ partial' = (partial \/ SharedCode(r))
        /\ UNCHANGED <<prevState, extended, disturbed, recoded, down, queue>>
    BY <1>2 DEF Parse
  <2>2. r \in AllReports /\ prevState \in AllReports
    BY ReportsAssumption DEF ReportsAssumption, TypeOK
  <2>3. Believed' = Believed /\ Outlook' = After(Believed', todo')
    BY <2>1, HeardSame, HeardNext
  <2>4. todo = <<>> /\ Heard = Believed /\ Wanted = AdbCodesOf(Pressed(prevState))
    BY <2>1, BelievedType DEF TodoInv, Heard, Wanted, Target
  <2>5. Heard' = After(Believed, ReportCalls(prevState, r))
    BY <2>1, <2>3 DEF Heard
  <2>6. Wanted' = AdbCodesOf(Pressed(r))
    BY <2>1 DEF Wanted, Target, AdbCodesOf, AdbCode, Pressed, KeysOf
  <2>7. PICK keys, s : keys = Believed /\ s = ReportCalls(prevState, r)
    OBVIOUS
  <2>8. /\ (\A c \in keys : c \in {Caps, "power"} \/ c \in AdbCodesOf(Pressed(prevState)))
           => \A c \in After(keys, s) : c \in {Caps, "power"} \/ c \in AdbCodesOf(Pressed(r))
        /\ /\ \A j, k \in Pressed(prevState) \cup Pressed(r) : j # k => AdbCode(j) # AdbCode(k)
           /\ \A c \in AdbCodesOf(Pressed(prevState)) : c \in {Caps, "power"} \/ c \in keys
           => \A c \in AdbCodesOf(Pressed(r)) : c \in {Caps, "power"} \/ c \in After(keys, s)
    BY <1>0, <2>2, <2>7, ReportHeard
  <2>9. ASSUME ~disturbed', ~recoded'
        PROVE  \A c \in Heard' : c \in {Caps, "power"} \/ c \in Wanted'
    <3>1. \A c \in keys : c \in {Caps, "power"} \/ c \in AdbCodesOf(Pressed(prevState))
      BY <2>1, <2>4, <2>7, <2>9 DEF FollowInv
    <3> QED
      BY <2>5, <2>6, <2>7, <2>8, <3>1
  <2>10. ASSUME ~disturbed', ~recoded', ~partial'
         PROVE  \A c \in Wanted' : c \in {Caps, "power"} \/ c \in Heard'
    <3>1. ~partial /\ ~SharedCode(r)
      BY <2>1, <2>10
    <3>2. \A j, k \in Pressed(prevState) \cup Pressed(r) : j # k => AdbCode(j) # AdbCode(k)
      BY <3>1 DEF SharedCode
    <3>3. \A c \in AdbCodesOf(Pressed(prevState)) : c \in {Caps, "power"} \/ c \in keys
      BY <2>1, <2>4, <2>7, <2>10, <3>1 DEF FollowInv
    <3> QED
      BY <2>5, <2>6, <2>7, <2>8, <3>2, <3>3
  <2> QED
    BY <2>9, <2>10 DEF FollowInv
<1>3. CASE ParseDone
  <2>1. /\ pc1 = "parse" /\ pc1' = "usb" /\ prevState' = report
        /\ partial' = (partial /\ Pressed(report) # {})
        /\ UNCHANGED <<todo, extended, disturbed, recoded, down, queue>>
    BY <1>3 DEF ParseDone
  <2>2. Heard' = Heard /\ Wanted' = Wanted
    BY <2>1, HeardSame, WantedSame DEF Heard, Target
  <2>3. Wanted = AdbCodesOf(Pressed(report))
    BY <2>1 DEF Wanted, Target
  <2>4. CASE Pressed(report) = {}
    <3>1. Wanted = {}
      BY <2>3, <2>4 DEF AdbCodesOf
    <3> QED
      BY <2>1, <2>2, <3>1 DEF FollowInv
  <2>5. CASE Pressed(report) # {}
    <3>1. partial' <=> partial
      BY <2>1, <2>5
    <3> QED
      BY <2>1, <2>2, <3>1 DEF FollowInv
  <2> QED
    BY <2>4, <2>5
<1>p. ASSUME UNCHANGED <<pc1, prevState, report, extended, disturbed, recoded, partial>>,
             \A c \in AdbCodes \ {Caps, "power"} : c \in Outlook' <=> c \in Outlook,
             pc1 # "forceUp"
      PROVE  FollowInv'
  <2>1. Heard = Outlook /\ Heard' = Outlook' /\ Wanted' = Wanted
    BY <1>p, WantedSame DEF Heard, Target
  <2> QED
    BY <1>0, <1>p, <2>1, FollowSame
<1>4. CASE HandleLockingKeys
  <2>1. /\ todo # <<>> /\ todo[1].do = "lock"
        /\ UNCHANGED <<pc1, prevState, report, extended, disturbed, recoded, partial>>
    BY <1>4, TodoParts DEF HandleLockingKeys
  <2>2. pc1 = "parse"
    BY <2>1, TypedOnce
  <2>3. todo[1].key = Caps
    BY <2>1, <2>2, HalfPairedRest DEF TodoInv
  <2>4. \A c \in AdbCodes \ {Caps} : c \in Outlook' <=> c \in Outlook
    BY <1>4, <2>3, HeardLock
  <2> QED
    BY <1>p, <2>1, <2>2, <2>4
<1>5. CASE OnCapsLock
  <2>1. /\ todo # <<>> /\ todo[1] = Call("down", Caps)
        /\ Enqueue(Event(Caps, IF capsLed THEN "down" ELSE "up"))
        /\ UNCHANGED <<pc1, prevState, report, extended, recoded, partial>>
    BY <1>5, TodoParts DEF OnCapsLock
  <2>2. pc1 = "parse"
    BY <2>1, TypedOnce
  <2>3. CASE Len(queue) < Capacity
    <3>1. \A c \in AdbCodes \ {Caps} : c \in Outlook' <=> c \in Outlook
      BY <1>5, <2>3, HeardCaps
    <3>2. disturbed' = disturbed
      BY <2>1, <2>3 DEF Enqueue
    <3> QED
      BY <1>p, <2>1, <2>2, <3>1, <3>2
  <2> QED
    BY <1>d, <2>1, <2>3, NoRoom
<1>6. CASE OnKey
  <2> DEFINE e == Event(todo[1].key, todo[1].do)
  <2>1. /\ todo # <<>> /\ e \in Events /\ Enqueue(e)
        /\ UNCHANGED <<pc1, prevState, report, extended, recoded, partial>>
    BY <1>6, OnKeyTodo
  <2> HIDE DEF e
  <2>2. CASE ~(Len(queue) < Capacity)
    BY <1>d, <2>1, <2>2, NoRoom
  <2>3. CASE Len(queue) < Capacity
    <3>1. /\ Believed' = AfterEvent(Believed, todo[1]) /\ Outlook' = Outlook
          /\ disturbed' = disturbed
      BY <1>6, <2>1, <2>3, HeardKey DEF Enqueue
    <3>2. CASE pc1 # "forceUp"
      BY <1>p, <2>1, <3>1, <3>2
    <3>3. CASE pc1 = "forceUp"
      <4>1. todo[1].do = "up" /\ todo[1].key \in Mods /\ partial
        BY <2>1, <3>3, RestsAre DEF TodoInv, Typing
      <4>2. \A c \in Believed' : c = "power" \/ c \in Believed
        BY <1>0, <3>1, <4>1, AfterOne
      <4>3. Heard = Believed /\ Heard' = Believed' /\ Wanted' = Wanted
        BY <2>1, <3>3, WantedSame DEF Heard, Target
      <4> QED
        BY <2>1, <3>1, <4>1, <4>2, <4>3 DEF FollowInv
    <3> QED
      BY <3>2, <3>3
  <2> QED
    BY <2>2, <2>3
<1>7. CASE StartText
  <2>1. /\ pc1 = "waitText" /\ pc1' = "forceUp"
        /\ UNCHANGED <<prevState, extended, disturbed, recoded, partial, down, queue>>
    BY <1>7 DEF StartText
  <2>2. todo = <<>> /\ Believed' = Believed
    BY <2>1, HeardSame DEF TodoInv
  <2>3. Heard = Believed /\ Heard' = Believed /\ Wanted' = Wanted
    BY <2>1, <2>2, BelievedType, WantedSame DEF Heard, Target
  <2> QED
    BY <2>1, <2>3 DEF FollowInv
<1>8. CASE ForceCapsUp
  <2>1. /\ pc1 = "forceUp" /\ pc1' = "waitChar" /\ partial' = partial
        /\ UNCHANGED <<prevState, extended, recoded>>
    BY <1>8 DEF ForceCapsUp
  <2>2. /\ Outlook' = Believed' /\ disturbed' = disturbed
        /\ \A c : c \in Believed' <=> c # Caps /\ c \in Believed
    BY <1>8, HeardForced
  <2>3. Heard = Believed /\ Heard' = Believed' /\ Wanted' = Wanted /\ partial
    BY <2>1, <2>2, WantedSame DEF Heard, Target, TodoInv, Typing
  <2> QED
    BY <2>1, <2>2, <2>3 DEF FollowInv
<1>9. CASE TypeChar
  <2>1. /\ pc1 = "waitChar" /\ pc1' = "type" /\ partial' = partial
        /\ UNCHANGED <<prevState, extended, disturbed, recoded>>
    BY <1>9 DEF TypeChar
  <2>2. \A c \in Outlook' : c = "power" \/ c \in Outlook
    BY <1>9, HeardChar
  <2>3. Heard = Outlook /\ Heard' = Outlook' /\ Wanted' = Wanted /\ partial
    BY <2>1, WantedSame DEF Heard, Target, TodoInv, Typing
  <2> QED
    BY <2>1, <2>2, <2>3 DEF FollowInv
<1>10. CASE TypeCharDone
  BY <1>10, <1>s, HeardSame DEF TypeCharDone
<1>11. CASE TextDone
  BY <1>11, <1>s, HeardSame DEF TextDone
<1>12. CASE StartReset
  BY <1>12, <1>s, HeardSame DEF StartReset
<1>13. CASE Drain
  BY <1>13, <1>d DEF Drain
<1>14. CASE ResetDone
  <2>1. /\ pc1 = "drain" /\ pc1' = "usb" /\ disturbed' = (disturbed \/ capsLed)
        /\ UNCHANGED <<prevState, extended, recoded, partial, down, queue, todo>>
    BY <1>14 DEF ResetDone
  <2>2. Outlook' = Outlook
    BY <2>1, HeardSame
  <2>3. CASE capsLed
    BY <1>d, <2>1, <2>3
  <2>4. CASE ~capsLed
    <3>1. disturbed' = disturbed
      BY <2>1, <2>4 DEF TypeOK
    <3> QED
      BY <1>s, <2>1, <2>2, <3>1
  <2> QED
    BY <2>3, <2>4
<1>15. CASE TakeEvent
  <2>1. /\ UNCHANGED <<pc1, prevState, report, extended, disturbed, recoded, partial>>
    BY <1>15 DEF TakeEvent
  <2>2. Heard' = Heard /\ Wanted' = Wanted
    BY <1>15, <2>1, HeardTaken, WantedSame DEF Heard, Target
  <2> QED
    BY <2>1, <2>2 DEF FollowInv
<1>16. CASE SetLeds
  BY <1>16, <1>d DEF SetLeds
<1>17. CASE SetHandler
  <2>1. /\ UNCHANGED <<pc1, prevState, report, disturbed, partial>>
        /\ recoded' = (recoded \/ RightShiftUnderWay)
    BY <1>17 DEF SetHandler
  <2>2. ASSUME ~recoded' PROVE FollowInv'
    <3>1. recoded' = FALSE
      BY <2>1, <2>2, Zenon
    <3>2. /\ recoded = FALSE /\ Believed' = Believed /\ (pc1 # "forceUp" => Outlook' = Outlook)
          /\ "rightShift" \notin prevState.mods \cup report.mods
      BY <1>17, <3>1, HandlerKeeps
    <3>3. Heard' = Heard
      BY <2>1, <3>2 DEF Heard
    <3>4. "rightShift" \notin Pressed(Target) /\ Target' = Target
      BY <2>1, <3>2, ReportKeys, ModsAre DEF TypeOK, Target
    <3>5. \A k \in Pressed(Target) : AdbCode(k)' = AdbCode(k)
      BY <3>4 DEF AdbCode
    <3>6. Wanted' = Wanted
      <4>1. Pressed(Target)' = Pressed(Target)
        BY <3>4 DEF Pressed, KeysOf
      <4>2. \A k \in Pressed(Target) : k # "rightShift"
        BY <3>4
      <4> QED
        BY <4>1, <4>2 DEF Wanted, AdbCodesOf, AdbCode
    <3> QED
      BY <2>1, <3>1, <3>2, <3>3, <3>6 DEF FollowInv
  <2> QED
    BY <2>2 DEF FollowInv
<1> QED
  BY <1>1, <1>2, <1>3, <1>4, <1>5, <1>6, <1>7, <1>8, <1>9, <1>10, <1>11, <1>12, <1>13, <1>14,
     <1>15, <1>16, <1>17 DEF Next, ReportReceived, Parsing

-----------------------------------------------------------------------------
(* The theorems. *)

ParserInv ==
    /\ TypeOK
    /\ TodoInv
    /\ TextFits
    /\ RegisterInv
    /\ CapsInv
    /\ UnmodifiedInv
    /\ FollowInv

LEMMA ParserInit ==
    ASSUME Init
    PROVE  ParserInv
<1>1. TypeOK
  <2>1. 0 \in 0..TextLength /\ 0 \in 0..MaxReports
    BY DEF SizeAssumption
  <2>2. queue \in Seq(Events) /\ todo \in Seq(Calls)
    BY DEF Init
  <2>3. Len(queue) <= Capacity
    <3>1. Len(queue) = 0 /\ Capacity \in Nat
      BY DEF Init, SizeAssumption
    <3> QED
      BY <3>1
  <2> QED
    BY <2>1, <2>2, <2>3, NoReportIn DEF Init, TypeOK
<1>2. /\ pc1 = "usb" /\ todo = <<>> /\ queue = <<>> /\ down = {} /\ capsLed = FALSE
      /\ modifierKeys = {} /\ prevState = NoReport
  BY DEF Init
<1>3. Believed = {} /\ Outlook = {} /\ Heard = {}
  BY <1>1, <1>2, BelievedType DEF Heard
<1>4. Wanted = {}
  <2>1. KeysOf(NoReport) = {}
    <3>1. \A k \in KeysOf(NoReport) : FALSE
      BY NoReportIn, ReportKeys DEF NoReport, KeysAssumption
    <3> QED
      BY <3>1
  <2>2. Pressed(NoReport) = {}
    BY <2>1 DEF Pressed, NoReport
  <2> QED
    BY <1>2, <2>2 DEF Wanted, AdbCodesOf, Target
<1>5. TodoInv /\ TextFits
  BY <1>2 DEF TodoInv, TextFits, Typing
<1>6. RegisterInv
  BY <1>2 DEF RegisterInv, Target, NoReport
<1>7. CapsInv /\ UnmodifiedInv
  BY <1>2, <1>3 DEF CapsInv, UnmodifiedInv
<1>8. FollowInv
  BY <1>3, <1>4 DEF FollowInv
<1> QED
  BY <1>1, <1>5, <1>6, <1>7, <1>8 DEF ParserInv

LEMMA ParserStep ==
    ASSUME ParserInv, [Next]_vars
    PROVE  ParserInv'
<1>1. CASE Next
  BY <1>1, TypeStep, TodoStep, RegisterStep, CapsStep, UnmodifiedStep, FollowStep DEF ParserInv
<1>2. CASE UNCHANGED vars
  <2>1. /\ UNCHANGED <<pc1, prevState, report, todo, typed, capsLed, modifierKeys, capsFlag, queue>>
        /\ UNCHANGED <<extended, down, recoded, disturbed, partial, reports>>
    BY <1>2 DEF vars, registerVars, hostVars
  <2>2. Believed' = Believed /\ Outlook' = Outlook
    BY <2>1, HeardSame
  <2>3. Target' = Target /\ Heard' = Heard
    BY <2>1, <2>2 DEF Target, Heard
  <2>4. Wanted' = Wanted
    BY <2>1, <2>3, WantedSame
  <2>5. TypeOK' /\ TextFits'
    BY <2>1 DEF ParserInv, TypeOK, TextFits
  <2>6. TodoInv'
    BY <2>1 DEF ParserInv, TodoInv, HalfPaired, Pressed, KeysOf, ForcedRests, ForcedUps, Call, Typing
  <2>7. RegisterInv' /\ CapsInv'
    BY <2>1, <2>2, <2>3 DEF ParserInv, RegisterInv, CapsInv, Call
  <2>8. UnmodifiedInv' /\ FollowInv'
    BY <2>1, <2>2, <2>3, <2>4 DEF ParserInv, UnmodifiedInv, FollowInv, Mods
  <2> QED
    BY <2>5, <2>6, <2>7, <2>8 DEF ParserInv
<1> QED
  BY <1>1, <1>2

LEMMA ParserCorrect == Spec => []ParserInv
<1>1. Init => ParserInv
  BY ParserInit
<1>2. ParserInv /\ [Next]_vars => ParserInv'
  BY ParserStep
<1> QED
  BY <1>1, <1>2, PTL DEF Spec

\* Between reports the Macintosh holds the keys of the last report, whatever
\* keyboards sent the reports and in whatever order the two cores ran.
THEOREM HostFollowsTheorem == Spec => []HostFollowsReports
<1>1. ASSUME ParserInv PROVE HostFollowsReports
  <2> SUFFICES ASSUME pc1 = "usb", ~disturbed, ~recoded
               PROVE  LET pressed == AdbCodesOf(Pressed(prevState)) \ {Caps, "power"}
                          whole == partial \/ pressed \subseteq Believed
                      IN  /\ Believed \ {Caps, "power"} \subseteq pressed
                          /\ whole
                          /\ queue = <<>> /\ ~partial /\ ~extended =>
                                Register2 \ {Caps} = down \cap {"leftCtrl", "leftShift"}
    BY DEF HostFollowsReports
  <2>1. TypeOK /\ todo = <<>> /\ modifierKeys = prevState.mods /\ Target = prevState
    BY <1>1 DEF ParserInv, TodoInv, RegisterInv, Target
  <2>2. Heard = Believed /\ Wanted = AdbCodesOf(Pressed(prevState))
    BY <2>1, BelievedType DEF Heard, Wanted
  <2>3. /\ \A c \in Believed : c \in {Caps, "power"} \/ c \in AdbCodesOf(Pressed(prevState))
        /\ partial \/ \A c \in AdbCodesOf(Pressed(prevState)) : c \in {Caps, "power"} \/ c \in Believed
    BY <1>1, <2>2 DEF ParserInv, FollowInv
  <2>4. ASSUME queue = <<>>, ~partial, ~extended
        PROVE  Register2 \ {Caps} = down \cap {"leftCtrl", "leftShift"}
    <3>1. Believed = down
      BY <2>1, <2>4, BelievedType
    <3>2. prevState \in AllReports
      BY <2>1 DEF TypeOK
    <3>3. /\ Pressed(prevState) \in SUBSET (Keys \cup Mods) /\ prevState.mods \in SUBSET Mods
          /\ \A m \in Mods : m \in Pressed(prevState) <=> m \in prevState.mods
      BY <3>2, ReportKeys
    <3>4. \A k \in Keys : AdbCode(k) \notin Mods
      BY CodeCases
    <3>5. /\ AdbCode("leftCtrl") = "leftCtrl" /\ AdbCode("leftShift") = "leftShift"
          /\ AdbCode("rightShift") = "leftShift"
      BY <2>4, ModsAre, CodeCases
    <3>6. Caps \notin Mods /\ "power" \notin Mods
      BY ModsAre DEF KeysAssumption, Keys
    <3>7. "leftCtrl" \in AdbCodesOf(Pressed(prevState)) <=> "leftCtrl" \in prevState.mods
      BY <3>3, <3>4, <3>5, ModsAre DEF AdbCodesOf
    <3>8. "leftShift" \in AdbCodesOf(Pressed(prevState)) <=> prevState.mods \cap Shifts # {}
      BY <3>3, <3>4, <3>5, ModsAre DEF AdbCodesOf, Shifts
    <3>9. /\ "leftCtrl" \in down <=> "leftCtrl" \in prevState.mods
          /\ "leftShift" \in down <=> prevState.mods \cap Shifts # {}
      BY <2>3, <2>4, <3>1, <3>6, <3>7, <3>8, ModsAre
    <3>10. /\ "leftCtrl" \in Register2 <=> "leftCtrl" \in prevState.mods
           /\ "leftShift" \in Register2 <=> prevState.mods \cap Shifts # {}
           /\ \A c \in Register2 \ {Caps} : c \in {"leftCtrl", "leftShift"}
      BY <2>1, <3>6, ModsAre DEF Register2
    <3> QED
      BY <3>6, <3>9, <3>10, ModsAre
  <2> QED
    BY <2>3, <2>4
<1> QED
  BY <1>1, ParserCorrect, PTL

\* Caps Lock is down for the Macintosh exactly when its LED is lit.
THEOREM CapsTheorem == Spec => []CapsFollowsLed
<1>1. ASSUME ParserInv PROVE CapsFollowsLed
  BY <1>1 DEF ParserInv, TodoInv, CapsInv, CapsFollowsLed
<1> QED
  BY <1>1, ParserCorrect, PTL

\* Typing a text never fills the queue and is never modified.
THEOREM TextTheorem == Spec => []TextInv
<1>1. ASSUME ParserInv PROVE TextInv
  <2>1. ASSUME pc1 = "waitChar", ~recoded PROVE Believed \cap (Mods \cup {Caps}) = {}
    <3>1. todo = <<>> /\ Outlook = Believed
      BY <1>1, <2>1, BelievedType DEF ParserInv, TodoInv
    <3> QED
      BY <1>1, <2>1, <3>1 DEF ParserInv, CapsInv, UnmodifiedInv
  <2> QED
    BY <1>1, <2>1 DEF ParserInv, TextInv, TextUnmodified
<1> QED
  BY <1>1, ParserCorrect, PTL

-----------------------------------------------------------------------------
(* The LEDs. *)

USE SlotsAssumption, KeyboardsAssumption, OptionsAssumption DEF ListSlots, Led

\* The slots the current scan has passed; all of them when no scan is asked for.
Passed == IF usb_set_leds THEN listPos ELSE MaxKeyboards

\* The call in progress reads LEDs nobody has stored to since it began.
ReadsLatest == core1 \in {"reading", "slot"} /\ servedFrom <= listPos

\* The scan in progress, in the order of its slots.
WalkInv ==
    /\ core1 = "end" <=> listPos = MaxKeyboards
    /\ core1 # "loop" \/ listPos # 0 => usb_set_leds

\* No store has come since a slot was passed: the buffer holds the LEDs asked
\* for, so whatever is in flight will show them, even if it is refilled.
BufferInv == servedFrom < Passed \/ ReadsLatest => usb_kbd_leds = leds

ServedInv ==
    \A s \in ListSlots :
        servedFrom <= s /\ s < Passed /\ list[s] # NoKeyboard /\ list[s] \notin unserved
            => Shows(list[s])

LedInv == OneReportAtATime /\ WalkInv /\ BufferInv /\ ServedInv

-----------------------------------------------------------------------------
\* Decode yields lock LEDs, whatever the host sends.
LEMMA DecodeType == \A r \in Int : Decode(r) \subseteq Led
  BY DEF Decode

LEMMA MixType == \A a, b \in SUBSET Led : Mix(a, b) \subseteq SUBSET Led
  BY DEF Mix

\* Bits that are the same in both bytes come through any mix of the two.
LEMMA MixSame == \A a \in SUBSET Led : Mix(a, a) = {a}
  BY DEF Mix

LEMMA LedInit == LedsInit => LedInv
<1> SUFFICES ASSUME LedsInit PROVE LedInv
  OBVIOUS
<1>1. LedsTypeOK
  <2>1. 0 \in ListSlots /\ 0 \in 0..MaxRequests /\ 0 \in 0..MaxKeyboards
    OBVIOUS
  <2>2. usb_set_leds \in BOOLEAN /\ ready \in BOOLEAN /\ transferred \in BOOLEAN
        /\ raced \in BOOLEAN
    BY ZenonT(20) DEF LedsInit
  <2>3. list \in [ListSlots -> Keyboards \cup {NoKeyboard}] /\ lit \in [Keyboards -> SUBSET Led]
    BY DEF LedsInit
  <2>4. /\ leds \subseteq Led /\ asked \subseteq Led /\ usb_kbd_leds \subseteq Led
        /\ want \subseteq Led /\ unserved \subseteq Keyboards /\ core1 = "loop"
        /\ core0 = "idle" /\ inFlight = NoKeyboard /\ listPos = 0 /\ requests = 0
        /\ servedFrom = 0
    BY DEF LedsInit
  <2> QED
    BY <2>1, <2>2, <2>3, <2>4 DEF LedsTypeOK
<1>2. inFlight = NoKeyboard /\ ready = TRUE
  BY DEF LedsInit
<1>3. WalkInv /\ BufferInv /\ ServedInv
  BY DEF LedsInit, WalkInv, BufferInv, ServedInv
<1> QED
  BY <1>1, <1>2, <1>3 DEF LedInv, OneReportAtATime

-----------------------------------------------------------------------------
(* A store takes every promise back; raising the flag gives none.           *)

\* The LEDs are stored: nothing is promised until a slot is read again.
LEMMA StoreKeeps ==
    ASSUME LedInv, LedsStored, usb_set_leds' => usb_set_leds \/ core1 = "loop",
           usb_set_leds => usb_set_leds', UNCHANGED <<core1, listPos>>
    PROVE  WalkInv' /\ BufferInv' /\ ServedInv'
<1>1. servedFrom' = MaxKeyboards /\ Passed' <= MaxKeyboards
  BY DEF LedsStored, Passed, LedInv, OneReportAtATime, LedsTypeOK
<1>2. WalkInv'
  BY DEF LedInv, WalkInv
<1>3. ~ReadsLatest'
  BY <1>1, <1>2 DEF ReadsLatest, WalkInv, LedInv, OneReportAtATime, LedsTypeOK
<1>4. BufferInv'
  BY <1>1, <1>3 DEF BufferInv, Passed, LedInv, OneReportAtATime, LedsTypeOK
<1>5. ServedInv'
  BY <1>1 DEF ServedInv
<1> QED
  BY <1>2, <1>4, <1>5

LEMMA ListenStep ==
    ASSUME LedInv, ListenData \/ ListenFailed \/ StorePartly \/ StoreDone \/ ListenFlag
    PROVE  LedInv'
<1> USE DEF LedInv, OneReportAtATime
<1>1. UNCHANGED <<core1, listPos, ready, list, usb_kbd_leds, inFlight, transferred, lit, unserved>>
  BY DEF ListenData, ListenFailed, StorePartly, StoreDone, ListenFlag, scanVars, usbVars
<1>2. CASE ListenData \/ ListenFailed
  <2>1. want' \subseteq Led /\ asked' \subseteq Led
    <3>1. HostRegs \subseteq Int /\ ReceiveErrors \subseteq Int
      BY DEF ReceiveErrors
    <3> QED
      BY <1>2, <3>1, DecodeType DEF ListenData, ListenFailed, LedsTypeOK
  <2>2. /\ core0' = "store" /\ raced' = FALSE /\ requests' \in 0..MaxRequests
        /\ UNCHANGED <<leds, usb_set_leds, servedFrom>>
    BY <1>2 DEF ListenData, ListenFailed, Request, LedsTypeOK
  <2>3. WalkInv' /\ BufferInv' /\ ServedInv'
    BY <1>1, <2>2 DEF WalkInv, BufferInv, ServedInv, Passed, ReadsLatest, Shows
  <2> QED
    BY <1>1, <2>1, <2>2, <2>3 DEF LedsTypeOK
<1>3. CASE StorePartly \/ StoreDone
  <2>1. leds' \subseteq Led
    BY <1>3, MixType DEF StorePartly, StoreDone, LedsTypeOK
  <2>2. /\ core0' \in {"store", "flag"} /\ LedsStored
        /\ UNCHANGED <<usb_set_leds, want, raced, asked, requests>>
    BY <1>3 DEF StorePartly, StoreDone
  <2>3. WalkInv' /\ BufferInv' /\ ServedInv'
    BY <1>1, <2>2, StoreKeeps
  <2> QED
    BY <1>1, <2>1, <2>2, <2>3 DEF LedsTypeOK, LedsStored
<1>4. CASE ListenFlag
  <2>1. /\ usb_set_leds' = TRUE /\ core0' = "idle" /\ want' = {} /\ raced' = FALSE
        /\ UNCHANGED <<leds, asked, servedFrom, requests>>
    BY <1>4 DEF ListenFlag
  <2>2. Passed' <= Passed
    BY <1>1, <2>1 DEF Passed, LedsTypeOK
  <2>3. WalkInv'
    BY <1>1, <2>1 DEF WalkInv
  <2>4. BufferInv'
    BY <1>1, <2>1, <2>2 DEF BufferInv, ReadsLatest, Passed, LedsTypeOK
  <2>5. ServedInv'
    BY <1>1, <2>1, <2>2 DEF ServedInv, Shows, Passed, LedsTypeOK
  <2> QED
    BY <1>1, <2>1, <2>3, <2>4, <2>5 DEF LedsTypeOK
<1> QED
  BY <1>2, <1>3, <1>4

LEMMA RequestStep ==
    ASSUME LedInv, LockKey \/ ForceCapsOff \/ FlushReset \/ AddKeyboard
    PROVE  LedInv'
<1> USE DEF LedInv, OneReportAtATime
<1>1. PICK l \in SUBSET Led : SetUSBkeyboardLEDs(l)
  BY DEF LockKey, ForceCapsOff, FlushReset, AddKeyboard, LedsTypeOK
<1>2. leds' \subseteq Led /\ asked' \subseteq Led /\ raced' \in BOOLEAN
  BY <1>1, MixType DEF SetUSBkeyboardLEDs, LedsTypeOK
<1>3. /\ usb_set_leds' = TRUE /\ LedsStored /\ requests' \in 0..MaxRequests /\ core1 = "loop"
      /\ UNCHANGED <<core0, want, core1, listPos, ready, usb_kbd_leds, inFlight, transferred,
                     unserved>>
  BY <1>1 DEF LockKey, ForceCapsOff, FlushReset, AddKeyboard, SetUSBkeyboardLEDs, Request,
              scanVars, usbVars, LedsTypeOK
<1>4. list' \in [ListSlots -> Keyboards \cup {NoKeyboard}] /\ lit' \in [Keyboards -> SUBSET Led]
  <2>1. CASE LockKey \/ ForceCapsOff \/ FlushReset
    BY <2>1 DEF LockKey, ForceCapsOff, FlushReset, scanVars, usbVars, LedsTypeOK
  <2>2. CASE AddKeyboard
    BY <2>2 DEF AddKeyboard, LedsTypeOK
  <2> QED
    BY <2>1, <2>2
<1>5. WalkInv' /\ BufferInv' /\ ServedInv'
  BY <1>3, StoreKeeps
<1> QED
  BY <1>2, <1>3, <1>4, <1>5 DEF LedsTypeOK, LedsStored

LEMMA RemoveStep ==
    ASSUME LedInv, RemoveKeyboard
    PROVE  LedInv'
<1> USE DEF LedInv, OneReportAtATime
<1>1. PICK s \in ListSlots : list' = [list EXCEPT ![s] = NoKeyboard]
  BY DEF RemoveKeyboard
<1>2. /\ requests' \in 0..MaxRequests
      /\ UNCHANGED <<leds, asked, usb_set_leds, core1, listPos, ready, usb_kbd_leds, inFlight,
                     transferred, lit, core0, want, raced, servedFrom, unserved>>
  BY DEF RemoveKeyboard, Request, core0Vars, usbVars, LedsTypeOK
<1>3. LedsTypeOK'
  BY <1>1, <1>2 DEF LedsTypeOK
<1>4. WalkInv' /\ BufferInv'
  BY <1>2 DEF WalkInv, BufferInv, Passed, ReadsLatest
<1>5. ServedInv'
  BY <1>1, <1>2 DEF ServedInv, Shows, Passed, LedsTypeOK
<1> QED
  BY <1>2, <1>3, <1>4, <1>5

-----------------------------------------------------------------------------
(* ChangeUSBKeyboardLEDs. *)

\* Reading the LEDs of a slot: what core 0 stores later takes the promise back.
LEMMA ReadStep ==
    ASSUME LedInv, ReadLeds \/ ReadRest
    PROVE  LedInv'
<1> USE DEF LedInv, OneReportAtATime
<1>1. /\ usb_set_leds
      /\ UNCHANGED <<leds, asked, core0, want, raced, requests, usb_set_leds, listPos, list, ready,
                     inFlight, transferred, lit, unserved>>
      /\ core1 # "end" /\ core1' \in {"reading", "slot"}
  BY DEF ReadLeds, ReadRest, requestVars, core0Vars, usbVars, WalkInv
<1>2. listPos < MaxKeyboards /\ Passed = listPos /\ Passed' = listPos
  BY <1>1 DEF WalkInv, Passed, LedsTypeOK
<1>3. WalkInv'
  BY <1>1, <1>2 DEF WalkInv
<1>4. CASE ReadLeds
  <2>1. /\ usb_kbd_leds' = leds
        /\ servedFrom' = IF servedFrom < listPos THEN servedFrom ELSE listPos
    BY <1>4 DEF ReadLeds
  <2>2. servedFrom' \in 0..MaxKeyboards /\ (servedFrom' < listPos => servedFrom' = servedFrom)
    BY <2>1 DEF LedsTypeOK
  <2>3. BufferInv'
    BY <1>1, <2>1 DEF BufferInv
  <2>4. ServedInv'
    <3> SUFFICES ASSUME NEW s \in ListSlots, servedFrom' <= s, s < listPos,
                        list[s] # NoKeyboard, list[s] \notin unserved
                 PROVE  Shows(list[s])'
      BY <1>1, <1>2 DEF ServedInv
    <3>1. servedFrom' = servedFrom
      BY <2>2 DEF LedsTypeOK
    <3>2. Shows(list[s]) /\ usb_kbd_leds = leds
      BY <1>2, <3>1 DEF ServedInv, BufferInv, LedsTypeOK
    <3> QED
      BY <1>1, <2>1, <3>2 DEF Shows
  <2> QED
    BY <1>1, <1>3, <2>1, <2>2, <2>3, <2>4 DEF LedsTypeOK
<1>5. CASE ReadRest
  <2>1. usb_kbd_leds' \in Mix(usb_kbd_leds, leds) /\ servedFrom' = servedFrom
        /\ core1 = "reading"
    BY <1>5 DEF ReadRest
  <2>2. usb_kbd_leds' \subseteq Led
    BY <2>1, MixType DEF LedsTypeOK
  <2>3. usb_kbd_leds = leds => usb_kbd_leds' = leds
    BY <2>1, MixSame DEF LedsTypeOK
  <2>4. BufferInv'
    BY <1>1, <1>2, <2>1, <2>3 DEF BufferInv, ReadsLatest
  <2>5. ServedInv'
    BY <1>1, <1>2, <2>1, <2>3 DEF ServedInv, Shows
  <2> QED
    BY <1>1, <1>3, <2>1, <2>2, <2>4, <2>5 DEF LedsTypeOK
<1> QED
  BY <1>4, <1>5

\* The call goes past slot listPos: it is empty, has failed, or its report is in
\* flight with what the call has read.
LEMMA PassSlot ==
    ASSUME LedInv, core1 = "slot", NextSlot, unserved' \subseteq Keyboards,
           \/ /\ UNCHANGED <<ready, inFlight, transferred>>
              /\ unserved' = unserved \cup ({list[listPos]} \ {NoKeyboard})
           \/ /\ ready /\ ready' = FALSE /\ list[listPos] # NoKeyboard
              /\ inFlight' = list[listPos] /\ transferred' = FALSE
              /\ unserved' = unserved \ {list[listPos]}
    PROVE  LedInv'
<1> USE DEF LedInv, OneReportAtATime
<1>1. /\ listPos' = listPos + 1
      /\ core1' = IF listPos' < MaxKeyboards THEN "loop" ELSE "end"
      /\ UNCHANGED <<usb_set_leds, usb_kbd_leds, list, lit, servedFrom, leds, asked, core0, want,
                     raced, requests>>
  BY DEF NextSlot, requestVars, core0Vars
<1>2. /\ usb_set_leds /\ listPos \in ListSlots /\ listPos' \in 1..MaxKeyboards
      /\ Passed = listPos /\ Passed' = listPos + 1
  BY <1>1 DEF WalkInv, Passed, LedsTypeOK
<1>3. list[listPos] \in Keyboards \cup {NoKeyboard}
  BY <1>2 DEF LedsTypeOK
<1>4. OneReportAtATime'
  BY <1>1, <1>2, <1>3 DEF LedsTypeOK
<1>5. WalkInv'
  BY <1>1, <1>2 DEF WalkInv
<1>6. servedFrom <= listPos => usb_kbd_leds = leds
  BY DEF BufferInv, ReadsLatest
<1>7. BufferInv'
  BY <1>1, <1>2, <1>6 DEF BufferInv, ReadsLatest, LedsTypeOK
<1>8. ServedInv'
  <2> SUFFICES ASSUME NEW s \in ListSlots, servedFrom <= s, s <= listPos,
                      list[s] # NoKeyboard, list[s] \notin unserved'
               PROVE  Shows(list[s])'
    BY <1>1, <1>2 DEF ServedInv, LedsTypeOK
  <2>1. usb_kbd_leds' = leds'
    BY <1>1, <1>6 DEF LedsTypeOK
  <2>2. CASE list[s] \in unserved \/ s = listPos
    <3>1. inFlight' = list[s] /\ transferred' = FALSE
      BY <2>2
    <3> QED
      BY <1>1, <2>1, <3>1 DEF Shows
  <2>3. CASE list[s] \notin unserved /\ s < listPos
    <3>1. Shows(list[s])
      BY <1>2, <2>3 DEF ServedInv
    <3>2. ready => inFlight # list[s]
      OBVIOUS
    <3> QED
      BY <1>1, <3>1, <3>2 DEF Shows
  <2> QED
    BY <2>2, <2>3 DEF LedsTypeOK
<1> QED
  BY <1>4, <1>5, <1>7, <1>8

LEMMA ChangeStep ==
    ASSUME LedInv, ChangeUSBKeyboardLEDs
    PROVE  LedInv'
<1> USE DEF LedInv, OneReportAtATime
<1>0. core1 = "slot" => list[listPos] \in Keyboards \cup {NoKeyboard}
  BY DEF WalkInv, LedsTypeOK
<1>1. CASE SkipSlot
  <2>1. unserved' = unserved \cup ({list[listPos]} \ {NoKeyboard})
    BY <1>1 DEF SkipSlot
  <2> QED
    BY <1>1, <2>1, PassSlot DEF SkipSlot, LedsTypeOK
<1>2. CASE SendReport
  BY <1>2, PassSlot DEF SendReport, LedsTypeOK
<1>3. CASE SendReportFails
  <2>1. unserved' = unserved \cup ({list[listPos]} \ {NoKeyboard}) /\ unserved' \subseteq Keyboards
    BY <1>0, <1>3 DEF SendReportFails, LedsTypeOK
  <2> QED
    BY <1>3, <2>1, PassSlot DEF SendReportFails
<1>4. CASE WaitReady
  <2>1. /\ core1 = "slot" /\ core1' = "loop"
        /\ UNCHANGED <<usb_set_leds, listPos, usb_kbd_leds, list, ready, inFlight, transferred,
                       lit, servedFrom, unserved, leds, asked, core0, want, raced, requests>>
    BY <1>4 DEF WaitReady, requestVars, core0Vars, usbVars
  <2> QED
    BY <2>1 DEF LedsTypeOK, WalkInv, BufferInv, ReadsLatest, ServedInv, Shows, Passed
<1>5. CASE ScanEnd
  <2>1. /\ core1 = "end" /\ usb_set_leds' = FALSE /\ listPos' = 0 /\ core1' = "loop"
        /\ UNCHANGED <<usb_kbd_leds, list, ready, inFlight, transferred, lit, servedFrom,
                       unserved, leds, asked, core0, want, raced, requests>>
    BY <1>5 DEF ScanEnd, requestVars, core0Vars, usbVars
  <2>2. Passed = MaxKeyboards /\ Passed' = MaxKeyboards
    BY <2>1 DEF WalkInv, Passed
  <2>3. WalkInv'
    BY <2>1 DEF WalkInv
  <2>4. OneReportAtATime'
    <3>1. usb_set_leds' \in BOOLEAN
      BY <2>1, Zenon
    <3>2. /\ core1' = "loop" /\ listPos' = 0
          /\ UNCHANGED <<usb_kbd_leds, list, ready, inFlight, transferred, lit, servedFrom,
                         unserved, leds, asked, core0, want, raced, requests>>
      BY <2>1
    <3> QED
      BY <3>1, <3>2 DEF LedsTypeOK
  <2>5. BufferInv'
    <3>1. servedFrom < MaxKeyboards => usb_kbd_leds = leds
      BY <2>2 DEF BufferInv
    <3> QED
      BY <2>1, <2>2, <3>1 DEF BufferInv, ReadsLatest
  <2>6. ServedInv'
    <3> HIDE DEF LedInv, OneReportAtATime
    <3>1. \A k : Shows(k) => Shows(k)'
      BY <2>1 DEF Shows
    <3>2. ServedInv
      BY DEF LedInv
    <3> QED
      BY <2>1, <2>2, <3>1, <3>2 DEF ServedInv
  <2> QED
    BY <2>3, <2>4, <2>5, <2>6
<1> QED
  BY <1>1, <1>2, <1>3, <1>4, <1>5, ReadStep DEF ChangeUSBKeyboardLEDs

-----------------------------------------------------------------------------
(* The USB stack sends what the buffer holds: the LEDs asked for, unless     *)
(* nothing is promised or the transfer fails.                                *)

LEMMA StackStep ==
    ASSUME LedInv, UsbStack
    PROVE  LedInv'
<1> USE DEF LedInv, OneReportAtATime
<1>1. /\ inFlight \in Keyboards
      /\ UNCHANGED <<leds, usb_set_leds, core1, listPos, list, usb_kbd_leds, core0, want, raced,
                     asked, servedFrom, requests>>
  BY DEF UsbStack, Transfer, TransferFails, ReportComplete, Mounted, requestVars, core0Vars,
         LedsTypeOK
<1>2. WalkInv' /\ BufferInv'
  BY <1>1 DEF WalkInv, BufferInv, ReadsLatest, Passed
<1>3. CASE Transfer \/ TransferFails
  <2>1. PICK shown \in SUBSET Led : lit' = [lit EXCEPT ![inFlight] = shown]
    BY <1>1, <1>3 DEF Transfer, TransferFails, LedsTypeOK
  <2>2. /\ transferred' = TRUE /\ UNCHANGED <<ready, inFlight>>
        /\ \/ unserved' = unserved /\ shown = usb_kbd_leds
           \/ unserved' = unserved \cup {inFlight}
    <3>1. lit'[inFlight] = shown
      BY <1>1, <2>1 DEF LedsTypeOK
    <3>2. Transfer => lit'[inFlight] = usb_kbd_leds
      BY <1>1 DEF Transfer, LedsTypeOK
    <3> QED
      BY <1>3, <3>1, <3>2 DEF Transfer, TransferFails
  <2>3. OneReportAtATime'
    BY <1>1, <2>1, <2>2 DEF LedsTypeOK
  <2>4. ServedInv'
    <3> SUFFICES ASSUME NEW s \in ListSlots, servedFrom <= s, s < Passed,
                        list[s] # NoKeyboard, list[s] \notin unserved'
                 PROVE  lit'[list[s]] = leds
      BY <1>1 DEF ServedInv, Shows, Passed
    <3>1. Shows(list[s]) /\ usb_kbd_leds = leds
      BY <2>2 DEF ServedInv, BufferInv, Passed, LedsTypeOK
    <3>2. list[s] \in Keyboards
      BY DEF LedsTypeOK
    <3>3. CASE list[s] = inFlight
      BY <2>1, <2>2, <3>1, <3>2, <3>3 DEF LedsTypeOK
    <3>4. CASE list[s] # inFlight
      BY <2>1, <3>1, <3>2, <3>4 DEF Shows, LedsTypeOK
    <3> QED
      BY <3>3, <3>4
  <2> QED
    BY <1>2, <2>3, <2>4
<1>4. CASE ReportComplete
  <2>1. /\ transferred /\ transferred' = FALSE /\ inFlight' = NoKeyboard /\ ready' = TRUE
        /\ UNCHANGED <<lit, unserved>>
    BY <1>4 DEF ReportComplete
  <2> QED
    BY <1>1, <1>2, <2>1 DEF LedsTypeOK, ServedInv, Shows, Passed
<1> QED
  BY <1>3, <1>4 DEF UsbStack

LEMMA LedNext == LedInv /\ [LedsNext]_ledsVars => LedInv'
<1> SUFFICES ASSUME LedInv, [LedsNext]_ledsVars PROVE LedInv'
  OBVIOUS
<1>1. CASE UNCHANGED ledsVars
  BY <1>1 DEF ledsVars, LedInv, OneReportAtATime, LedsTypeOK, WalkInv, BufferInv, ReadsLatest,
              ServedInv, Shows, Passed
<1> QED
  BY <1>1, ListenStep, RequestStep, RemoveStep, ChangeStep, StackStep DEF LedsNext

-----------------------------------------------------------------------------
\* The USB stack is asked for one report at a time: the buffer it reads is not
\* shared by two of them.
THEOREM OneReportTheorem == LedsSpec => []OneReportAtATime
<1>1. LedInv => OneReportAtATime
  BY DEF LedInv
<1> QED
  BY <1>1, LedInit, LedNext, PTL DEF LedsSpec

\* Core 0 stores LEDs and raises the flag between any two steps of the scan: when
\* the flag is down, every keyboard shows the LEDs asked for, or is about to,
\* unless its report failed or its slot was read before the last store.
THEOREM ScanServesTheorem == LedsSpec => []ScanServes
<1>1. LedInv => ScanServes
  BY DEF LedInv, OneReportAtATime, LedsTypeOK, ServedInv, Passed, ScanServes
<1> QED
  BY <1>1, LedInit, LedNext, PTL DEF LedsSpec
=============================================================================
