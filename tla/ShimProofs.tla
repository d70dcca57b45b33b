----------------------------- MODULE ShimProofs -----------------------------
(* The shims that are small algorithms, for any inputs.                     *)
EXTENDS CStrings, Blas, SequenceTheorems, FiniteSetTheorems, WellFoundedInduction, TLAPS

-----------------------------------------------------------------------------
(* Induction, over a set rather than a predicate.                          *)

\* A set of natural numbers that has an element has a smallest one.
LEMMA SmallestNat ==
    ASSUME NEW T \in SUBSET Nat, T # {}
    PROVE  \E x \in T : \A y \in T : x <= y
<1> DEFINE R == OpToRel(<, Nat)
<1>1. IsWellFoundedOn(R, Nat)
  BY NatLessThanWellFounded
<1>2. \A x, y \in Nat : x < y => <<x, y>> \in R
  BY DEF OpToRel
<1> HIDE DEF R
<1>3. PICK x \in T : \A y \in T : ~(<<y, x>> \in R)
  BY <1>1, WFMin
<1>4. ASSUME NEW y \in T PROVE x <= y
  <2>1. ~(<<y, x>> \in R)
    BY <1>3
  <2>2. ~(y < x)
    BY <1>2, <2>1, Zenon
  <2> QED BY <2>2
<1> QED BY <1>4

\* A set that has 0, and with a number the next, has all of them.
LEMMA NatSetInduction ==
    ASSUME NEW S, 0 \in S, \A n \in Nat : n \in S => n + 1 \in S
    PROVE  Nat \subseteq S
<1> DEFINE T == Nat \ S
<1> SUFFICES ASSUME T # {} PROVE FALSE
  OBVIOUS
<1>1. PICK x \in T : \A y \in T : x <= y
  BY SmallestNat
<1>2. x # 0 /\ x - 1 \in Nat /\ x - 1 \notin T
  BY <1>1
<1> QED BY <1>1, <1>2

\* Every bounded recursion defines a function: h[k] gives the value after step k from the
\* value before it.
StepFunctions(V, n) == [0 .. n - 1 -> [V -> V]]
RecursionOf(s, V, v, n, h) ==
    s \in [0 .. n -> V] /\ s[0] = v /\ \A k \in 0 .. n - 1 : s[k + 1] = h[k][s[k]]

LEMMA BoundedRecursion ==
    ASSUME NEW V, NEW v \in V, NEW n \in Nat, NEW h \in StepFunctions(V, n)
    PROVE  \E s : RecursionOf(s, V, v, n, h)
<1>0. h \in [0 .. n - 1 -> [V -> V]]
  BY DEF StepFunctions
<1> DEFINE Runs(m, s) == /\ s \in [0 .. m -> V] /\ s[0] = v
                         /\ \A k \in 0 .. m - 1 : s[k + 1] = h[k][s[k]]
           S == {m \in Nat : m <= n => \E s : Runs(m, s)}
<1>1. 0 \in S
  <2>1. Runs(0, [k \in 0 .. 0 |-> v])
    OBVIOUS
  <2> HIDE DEF Runs
  <2> QED BY <2>1
<1>2. ASSUME NEW m \in Nat, m \in S PROVE m + 1 \in S
  <2> SUFFICES ASSUME m + 1 <= n PROVE \E s : Runs(m + 1, s)
    OBVIOUS
  <2>1. PICK s : Runs(m, s)
    BY <1>2
  <2> DEFINE t == [k \in 0 .. m + 1 |-> IF k = m + 1 THEN h[m][s[m]] ELSE s[k]]
  <2>2. s[m] \in V /\ h[m][s[m]] \in V
    BY <1>0, <2>1
  <2>3. t \in [0 .. m + 1 -> V] /\ t[0] = v
    BY <2>1, <2>2
  <2>4. \A k \in 0 .. m : t[k + 1] = h[k][t[k]]
    BY <2>1
  <2>5. 0 .. (m + 1) - 1 = 0 .. m
    OBVIOUS
  <2>6. Runs(m + 1, t)
    <3> HIDE DEF t
    <3> QED BY <2>3, <2>4, <2>5
  <2> HIDE DEF Runs
  <2> QED BY <2>6
<1>3. Nat \subseteq S
  <2> HIDE DEF S
  <2> QED BY <1>1, <1>2, NatSetInduction
<1>4. PICK s : Runs(n, s)
  <2>1. n \in S
    BY <1>3
  <2> HIDE DEF Runs
  <2> QED BY <2>1
<1> QED BY <1>4 DEF RecursionOf

-----------------------------------------------------------------------------
(* CStrings: the buffers.                                                   *)

\* What bounds the writes besides RoomInBuffer: the loops stay inside the string, trim's
\* end stays behind its start, and a copy is written to the buffer allocated for it.
WalkInv ==
    /\ fn = "trim" => pos <= fin /\ toks = <<>>
    /\ fn = "stringReplace" /\ sep = <<>> /\ ~ended => room = Len(str) + 1
    /\ fn = "idle" => ~ended

StrInv == StrTypeOK /\ RoomInBuffer /\ WalkInv

LEMMA EmptyStrings ==
    /\ <<>> \in Seq(Chars) /\ <<>> \in Seq(Seq(Chars))
    /\ Len(<<>>) = 0
OBVIOUS

\* Storing one more token keeps a token array large enough.
LEMMA RoomForOneMore ==
    ASSUME NEW n \in Nat, NEW r \in Nat, n <= r
    PROVE  RoomFor(n, r) \in Nat /\ n + 1 <= RoomFor(n, r)
BY StringsAssumption DEF RoomFor

\* A part of a string within its bounds is a string, as long as the bounds say.
LEMMA PartOfString ==
    ASSUME NEW s \in Seq(Chars), NEW a \in Nat \ {0}, NEW b \in Nat, b <= Len(s)
    PROVE  /\ SubSeq(s, a, b) \in Seq(Chars)
           /\ Len(SubSeq(s, a, b)) = IF a <= b THEN b - a + 1 ELSE 0
<1>1. \A i \in a .. b : s[i] \in Chars
  OBVIOUS
<1> QED BY <1>1, SubSeqProperties

LEMMA StrInitially == StrInit => StrInv
<1> SUFFICES ASSUME StrInit PROVE StrInv
  OBVIOUS
<1>1. StrTypeOK
  <2>1. str = <<>> /\ sep = <<>> /\ to = <<>> /\ toks = <<>> /\ out = <<>>
        /\ fn = "idle" /\ pos = 0 /\ fin = 0 /\ room = 0 /\ ended = FALSE
    BY DEF StrInit
  <2>2. pos \in 0 .. Len(str) /\ fin \in 0 .. Len(str) /\ room \in Nat
    BY <2>1
  <2> QED BY <2>1, <2>2, EmptyStrings, Zenon DEF StrTypeOK
<1>2. RoomInBuffer /\ WalkInv
  BY EmptyStrings DEF StrInit, RoomInBuffer, WalkInv
<1> QED BY <1>1, <1>2 DEF StrInv

LEMMA StrInductive ==
    ASSUME StrInv, [StrNext]_strVars PROVE StrInv'
<1> USE StringsAssumption
<1>0. StrTypeOK /\ RoomInBuffer /\ WalkInv
  BY DEF StrInv
<1>1. CASE CallString
  <2>1. /\ fn' \in StrFunctions /\ fn' # "idle" /\ ended' = FALSE
        /\ str' \in Seq(Chars) /\ sep' \in Seq(Chars)
        /\ pos' = 0 /\ fin' = Len(str') /\ Len(str') \in Nat
        /\ toks' = <<>> /\ out' = <<>> /\ room' = RoomAtStart(fn', str')
    BY <1>1 DEF CallString, StrFunctions
  <2>2. to' \in Seq(Chars)
    BY <1>1, EmptyStrings DEF CallString
  <2>3. room' \in Nat /\ (fn' = "stringReplace" => room' = Len(str') + 1)
    BY <2>1 DEF RoomAtStart
  <2>4. StrTypeOK'
    <3>1. pos' \in 0 .. Len(str') /\ fin' \in 0 .. Len(str')
      BY <2>1
    <3> QED BY <2>1, <2>2, <2>3, <3>1, EmptyStrings, Zenon DEF StrTypeOK
  <2>5. RoomInBuffer'
    BY <2>1, <2>3, EmptyStrings DEF RoomInBuffer
  <2>6. WalkInv'
    BY <2>1, <2>3 DEF WalkInv
  <2> QED BY <2>4, <2>5, <2>6 DEF StrInv
<1>2. ASSUME Finish, fn \in {"strtok", "strtokIncludingDelimiters"} PROVE StrInv'
  BY <1>0, <1>2 DEF Finish, StrInv, StrTypeOK, RoomInBuffer, WalkInv
<1>3. ASSUME NEW t \in Seq(Chars), AddToken(t),
             fn \in {"strtok", "strtokIncludingDelimiters"},
             UNCHANGED <<fn, str, sep, to, fin, out>>,
             ended' \in BOOLEAN, pos' \in 0 .. Len(str)
      PROVE  StrInv'
  <2>1. toks' \in Seq(Seq(Chars)) /\ Len(toks') = Len(toks) + 1
    BY <1>0, <1>3 DEF AddToken, StrTypeOK
  <2>2. Len(toks) \in Nat /\ room \in Nat /\ Len(toks) <= room
    BY <1>0 DEF StrTypeOK, RoomInBuffer
  <2>3. room' \in Nat /\ Len(toks') <= room'
    BY <1>3, <2>1, <2>2, RoomForOneMore DEF AddToken
  <2> QED BY <1>0, <1>3, <2>1, <2>3 DEF StrInv, StrTypeOK, RoomInBuffer, WalkInv
<1>4. CASE Strtok
  <2>1. CASE Finish
    BY <1>2, <1>4, <2>1 DEF Strtok
  <2>2. CASE ~Finish
    <3>0. PICK k \in pos + 1 .. Len(str) : \E stop \in k .. Len(str) + 1 :
             /\ AddToken(SubSeq(str, k, stop - 1))
             /\ pos' = IF stop > Len(str) THEN Len(str) ELSE stop
             /\ UNCHANGED <<fn, str, sep, to, fin, out, ended>>
      BY <1>0, <1>4, <2>2 DEF Strtok, First, StrTypeOK
    <3>1. PICK stop \in k .. Len(str) + 1 :
             /\ AddToken(SubSeq(str, k, stop - 1))
             /\ pos' = IF stop > Len(str) THEN Len(str) ELSE stop
             /\ UNCHANGED <<fn, str, sep, to, fin, out, ended>>
      BY <3>0
    <3>2. SubSeq(str, k, stop - 1) \in Seq(Chars) /\ pos' \in 0 .. Len(str)
      BY <1>0, <3>1, PartOfString DEF StrTypeOK
    <3>3. fn = "strtok" /\ ended' \in BOOLEAN
      BY <1>0, <1>4, <3>1 DEF Strtok, StrTypeOK
    <3> QED BY <1>3, <3>1, <3>2, <3>3
  <2> QED BY <2>1, <2>2
<1>5. CASE StrtokIncludingDelimiters
  <2>0. fn = "strtokIncludingDelimiters" /\ ended = FALSE
    BY <1>0, <1>5 DEF StrtokIncludingDelimiters, StrTypeOK
  <2>1. CASE Finish
    BY <1>2, <2>0, <2>1
  <2>2. CASE /\ pos < Len(str)
             /\ AddToken(SubSeq(str, pos + 1, Len(str)))
             /\ ended' = TRUE
             /\ UNCHANGED <<fn, str, sep, to, pos, fin, out>>
    <3>1. SubSeq(str, pos + 1, Len(str)) \in Seq(Chars)
      BY <1>0, PartOfString DEF StrTypeOK
    <3> QED BY <1>0, <1>3, <2>0, <2>2, <3>1 DEF StrTypeOK
  <2>3. ASSUME NEW p \in FoundAt(pos + 1), pos < Len(str),
               IF p > pos + 1
               THEN /\ toks' = toks \o <<SubSeq(str, pos + 1, p - 1), sep>>
                    /\ room' = RoomFor(Len(toks) + 1, RoomFor(Len(toks), room))
               ELSE AddToken(sep),
               pos' = BehindSep(p),
               UNCHANGED <<fn, str, sep, to, fin, out, ended>>
        PROVE  StrInv'
    <3>1. p \in pos + 1 .. Len(str) - Len(sep) + 1 /\ pos' \in 0 .. Len(str)
      BY <1>0, <2>3 DEF FoundAt, BehindSep, StrTypeOK
    <3>2. CASE ~(p > pos + 1)
      BY <1>0, <1>3, <2>0, <2>3, <3>1, <3>2 DEF StrTypeOK
    <3>3. CASE p > pos + 1
      <4> DEFINE t == SubSeq(str, pos + 1, p - 1)
      <4>1. t \in Seq(Chars) /\ sep \in Seq(Chars)
        <5>1. pos + 1 \in Nat \ {0} /\ p - 1 \in Nat /\ p - 1 <= Len(str)
          BY <1>0, <3>1 DEF StrTypeOK
        <5> QED BY <1>0, <5>1, PartOfString DEF StrTypeOK
      <4>2. toks' = toks \o <<t, sep>>
            /\ room' = RoomFor(Len(toks) + 1, RoomFor(Len(toks), room))
        BY <2>3, <3>3
      <4> HIDE DEF t
      <4>3. toks' \in Seq(Seq(Chars)) /\ Len(toks') = Len(toks) + 2
        BY <1>0, <4>1, <4>2 DEF StrTypeOK
      <4>4. Len(toks) \in Nat /\ room \in Nat /\ Len(toks) <= room
        BY <1>0 DEF StrTypeOK, RoomInBuffer
      <4>5. room' \in Nat /\ Len(toks') <= room'
        <5>1. RoomFor(Len(toks), room) \in Nat
              /\ Len(toks) + 1 <= RoomFor(Len(toks), room)
          BY <4>4, RoomForOneMore
        <5>2. room' \in Nat /\ Len(toks) + 1 + 1 <= room'
          BY <4>2, <4>4, <5>1, RoomForOneMore
        <5> QED BY <4>3, <4>4, <5>2
      <4> QED BY <1>0, <2>0, <2>3, <3>1, <4>3, <4>5
            DEF StrInv, StrTypeOK, RoomInBuffer, WalkInv
    <3> QED BY <3>2, <3>3
  <2> QED BY <1>5, <2>1, <2>2, <2>3 DEF StrtokIncludingDelimiters, First
<1>6. CASE StringReplace
  <2>0. /\ fn = "stringReplace" /\ ended = FALSE
        /\ UNCHANGED <<fn, str, sep, to, fin, toks>>
        /\ Len(out) \in Nat /\ Len(to) \in Nat /\ Len(sep) \in Nat /\ room \in Nat
        /\ Len(toks) \in Nat /\ Len(out) + 1 <= room /\ Len(toks) <= room
        /\ pos \in 0 .. Len(str)
    BY <1>0, <1>6 DEF StringReplace, StrTypeOK, RoomInBuffer
  <2>1. CASE sep = <<>> /\ out' = str /\ pos' = Len(str) /\ ended' = TRUE /\ room' = room
    BY <1>0, <2>0, <2>1 DEF StrInv, StrTypeOK, RoomInBuffer, WalkInv
  <2>2. CASE /\ sep # <<>>
             /\ pos + 1 \in FoundAt(pos + 1)
             /\ out' = out \o to
             /\ pos' = pos + Len(sep)
             /\ room' = RoomToReplace(Len(out))
             /\ ended' = ended
    <3>1. pos' \in 0 .. Len(str)
      BY <1>0, <2>0, <2>2 DEF FoundAt, StrTypeOK
    <3>2. out' \in Seq(Chars) /\ Len(out') = Len(out) + Len(to)
      BY <1>0, <2>2 DEF StrTypeOK
    <3>3. room' \in Nat /\ Len(out') + 1 <= room' /\ room <= room'
      BY <2>0, <2>2, <3>2 DEF RoomToReplace
    <3> QED BY <1>0, <2>0, <2>2, <3>1, <3>2, <3>3 DEF StrInv, StrTypeOK, RoomInBuffer, WalkInv
  <2>3. CASE /\ sep # <<>> /\ pos < Len(str)
             /\ out' = Append(out, str[pos + 1])
             /\ pos' = pos + 1
             /\ room' = RoomToKeep(Len(out))
             /\ ended' = ended
    <3>1. pos' \in 0 .. Len(str) /\ str[pos + 1] \in Chars
      BY <1>0, <2>0, <2>3 DEF StrTypeOK
    <3>2. out' \in Seq(Chars) /\ Len(out') = Len(out) + 1
      BY <1>0, <2>3, <3>1 DEF StrTypeOK
    <3>3. room' \in Nat /\ Len(out') + 1 <= room' /\ room <= room'
      BY <2>0, <2>3, <3>2 DEF RoomToKeep
    <3> QED BY <1>0, <2>0, <2>3, <3>1, <3>2, <3>3 DEF StrInv, StrTypeOK, RoomInBuffer, WalkInv
  <2>4. CASE sep # <<>> /\ ended' = TRUE /\ UNCHANGED <<out, pos, room>>
    BY <1>0, <2>0, <2>4 DEF StrInv, StrTypeOK, RoomInBuffer, WalkInv
  <2> QED BY <1>6, <2>1, <2>2, <2>3, <2>4 DEF StringReplace
<1>7. CASE Trim
  <2>0. /\ fn = "trim" /\ ended = FALSE
        /\ UNCHANGED <<fn, str, sep, to, toks>>
        /\ pos \in 0 .. Len(str) /\ fin \in 0 .. Len(str) /\ pos <= fin /\ Len(str) \in Nat
        /\ toks = <<>>
    BY <1>0, <1>7 DEF Trim, StrTypeOK, WalkInv
  <2>1. CASE pos < fin /\ pos' = pos + 1 /\ UNCHANGED <<fin, out, room, ended>>
    BY <1>0, <2>0, <2>1 DEF StrInv, StrTypeOK, RoomInBuffer, WalkInv
  <2>2. CASE fin > pos /\ fin' = fin - 1 /\ UNCHANGED <<pos, out, room, ended>>
    BY <1>0, <2>0, <2>2 DEF StrInv, StrTypeOK, RoomInBuffer, WalkInv
  <2>3. CASE /\ out' = SubSeq(str, pos + 1, fin)
             /\ room' = fin - pos + 1
             /\ ended' = TRUE
             /\ UNCHANGED <<pos, fin>>
    <3>1. out' \in Seq(Chars) /\ Len(out') + 1 <= room' /\ room' \in Nat
      BY <1>0, <2>0, <2>3, PartOfString DEF StrTypeOK
    <3> QED BY <1>0, <2>0, <2>3, <3>1 DEF StrInv, StrTypeOK, RoomInBuffer, WalkInv
  <2> QED BY <1>7, <2>1, <2>2, <2>3 DEF Trim
<1>8. CASE ReturnString
  <2>1. StrTypeOK'
    <3>1. str' = <<>> /\ sep' = <<>> /\ to' = <<>> /\ toks' = <<>> /\ out' = <<>>
          /\ fn' = "idle" /\ pos' = 0 /\ fin' = 0 /\ room' = 0 /\ ended' = FALSE
      BY <1>8 DEF ReturnString
    <3>2. pos' \in 0 .. Len(str') /\ fin' \in 0 .. Len(str') /\ room' \in Nat
      BY <3>1
    <3> QED BY <3>1, <3>2, EmptyStrings, Zenon DEF StrTypeOK
  <2>2. RoomInBuffer' /\ WalkInv'
    BY <1>8, EmptyStrings DEF ReturnString, RoomInBuffer, WalkInv
  <2> QED BY <2>1, <2>2 DEF StrInv
<1>9. CASE UNCHANGED strVars
  BY <1>0, <1>9 DEF strVars, StrInv, StrTypeOK, RoomInBuffer, WalkInv
<1> QED BY <1>1, <1>4, <1>5, <1>6, <1>7, <1>8, <1>9 DEF StrNext, Turn

LEMMA StrCorrect == StrSpec => []StrInv
BY StrInitially, StrInductive, PTL DEF StrSpec

\* The types of the string functions' state.
THEOREM StrTypeCorrect == StrSpec => []StrTypeOK
BY StrCorrect, PTL DEF StrInv

\* RoomInBuffer: no write of the string functions is past the end of its buffer, whatever
\* the strings and their lengths.
THEOREM BuffersCorrect == StrSpec => []RoomInBuffer
BY StrCorrect, PTL DEF StrInv

\* How many turns a call can take at most before it has returned.
TurnsLeft ==
    IF fn = "idle" THEN 0 ELSE IF ended THEN 1 ELSE 2 + (Len(str) - pos) + fin

\* A turn brings a call closer to its end; the search for an empty delimiter finds it
\* where it stands, and is the one loop that need not.
TurnGetsCloser ==
    Turn /\ (sep # <<>> \/ fn # "strtokIncludingDelimiters")
       => TurnsLeft' \in 0 .. TurnsLeft - 1

LEMMA CloserStep == ASSUME StrInv PROVE TurnGetsCloser
<1> SUFFICES ASSUME Turn, sep # <<>> \/ fn # "strtokIncludingDelimiters"
             PROVE  TurnsLeft' \in 0 .. TurnsLeft - 1
  BY DEF TurnGetsCloser
<1>0. /\ StrTypeOK /\ (fn = "idle" => ended = FALSE)
      /\ Len(str) \in Nat /\ pos \in 0 .. Len(str) /\ fin \in 0 .. Len(str)
  BY DEF StrInv, StrTypeOK, WalkInv
\* The loop is over and ended says so.
<1>1. ASSUME fn # "idle", ended = FALSE, fn' = fn, ended' = TRUE
      PROVE  TurnsLeft' \in 0 .. TurnsLeft - 1
  <2>1. TurnsLeft = 2 + (Len(str) - pos) + fin /\ TurnsLeft' = 1
    BY <1>1 DEF TurnsLeft
  <2> QED BY <1>0, <2>1
\* A character of str is passed, from the front or, in trim, from the back.
<1>2. ASSUME fn # "idle", ended = FALSE, UNCHANGED <<fn, str, ended>>,
             \/ pos' \in pos + 1 .. Len(str) /\ fin' = fin
             \/ fin > 0 /\ fin' = fin - 1 /\ pos' = pos
      PROVE  TurnsLeft' \in 0 .. TurnsLeft - 1
  <2>1. /\ TurnsLeft = 2 + (Len(str) - pos) + fin
        /\ TurnsLeft' = 2 + (Len(str) - pos') + fin'
    BY <1>2 DEF TurnsLeft
  <2> QED BY <1>0, <1>2, <2>1
<1>3. CASE Strtok
  <2>1. fn # "idle" /\ ended = FALSE
    BY <1>0, <1>3 DEF Strtok, StrTypeOK
  <2>2. CASE Finish
    BY <1>1, <2>1, <2>2 DEF Finish
  <2>3. CASE ~Finish
    <3>0. PICK k \in pos + 1 .. Len(str) : \E stop \in k .. Len(str) + 1 :
             /\ pos' = IF stop > Len(str) THEN Len(str) ELSE stop
             /\ UNCHANGED <<fn, str, fin, ended>>
      BY <1>0, <1>3, <2>3 DEF Strtok, First
    <3>1. PICK stop \in k .. Len(str) + 1 :
             /\ pos' = IF stop > Len(str) THEN Len(str) ELSE stop
             /\ UNCHANGED <<fn, str, fin, ended>>
      BY <3>0
    <3>2. pos' \in pos + 1 .. Len(str)
      BY <1>0, <3>1
    <3> QED BY <1>2, <2>1, <3>1, <3>2
  <2> QED BY <2>2, <2>3
<1>4. CASE StrtokIncludingDelimiters
  <2>1. fn # "idle" /\ fn = "strtokIncludingDelimiters" /\ ended = FALSE /\ sep # <<>>
    BY <1>0, <1>4 DEF StrtokIncludingDelimiters, StrTypeOK
  <2>2. CASE ended' = TRUE /\ fn' = fn
    BY <1>1, <2>1, <2>2
  <2>3. ASSUME NEW p \in FoundAt(pos + 1), pos' = BehindSep(p),
               UNCHANGED <<fn, str, fin, ended>>
        PROVE  TurnsLeft' \in 0 .. TurnsLeft - 1
    <3>1. Len(sep) \in Nat \ {0}
      BY <1>0, <2>1 DEF StrTypeOK
    <3>2. p \in pos + 1 .. Len(str) - Len(sep) + 1
      BY <2>3 DEF FoundAt
    <3>3. pos' \in pos + 1 .. Len(str)
      BY <1>0, <2>3, <3>1, <3>2 DEF BehindSep
    <3> QED BY <1>2, <2>1, <2>3, <3>3
  <2> QED BY <1>4, <2>2, <2>3 DEF StrtokIncludingDelimiters, First, Finish
<1>5. CASE StringReplace
  <2>1. fn # "idle" /\ ended = FALSE /\ UNCHANGED <<fn, str, fin>>
    BY <1>0, <1>5 DEF StringReplace, StrTypeOK
  <2>2. CASE ended' = TRUE
    BY <1>1, <2>1, <2>2
  <2>3. CASE sep # <<>> /\ pos + 1 \in FoundAt(pos + 1) /\ pos' = pos + Len(sep)
             /\ UNCHANGED ended
    <3>1. Len(sep) \in Nat \ {0}
      BY <1>0, <2>3 DEF StrTypeOK
    <3>2. pos + 1 <= Len(str) - Len(sep) + 1
      BY <2>3 DEF FoundAt
    <3>3. pos' \in pos + 1 .. Len(str)
      BY <1>0, <2>3, <3>1, <3>2
    <3> QED BY <1>2, <2>1, <2>3, <3>3
  <2>4. CASE pos < Len(str) /\ pos' = pos + 1 /\ UNCHANGED ended
    <3>1. pos' \in pos + 1 .. Len(str)
      BY <1>0, <2>4
    <3> QED BY <1>2, <2>1, <2>4, <3>1
  <2> QED BY <1>5, <2>2, <2>3, <2>4 DEF StringReplace
<1>6. CASE Trim
  <2>1. fn # "idle" /\ ended = FALSE /\ UNCHANGED <<fn, str>>
    BY <1>0, <1>6 DEF Trim, StrTypeOK
  <2>2. CASE ended' = TRUE
    BY <1>1, <2>1, <2>2
  <2>3. CASE pos < fin /\ pos' = pos + 1 /\ UNCHANGED <<fin, ended>>
    <3>1. pos' \in pos + 1 .. Len(str)
      BY <1>0, <2>3
    <3> QED BY <1>2, <2>1, <2>3, <3>1
  <2>4. CASE fin > pos /\ fin' = fin - 1 /\ UNCHANGED <<pos, ended>>
    <3>1. fin > 0
      BY <1>0, <2>4
    <3> QED BY <1>2, <2>1, <2>4, <3>1
  <2> QED BY <1>6, <2>2, <2>3, <2>4 DEF Trim
<1>7. CASE ReturnString
  <2>1. TurnsLeft = 1 /\ TurnsLeft' = 0
    BY <1>0, <1>7 DEF ReturnString, TurnsLeft
  <2> QED BY <2>1
<1> QED BY <1>3, <1>4, <1>5, <1>6, <1>7 DEF Turn

\* TurnGetsCloser: however long the strings, a call is over after at most twice the length
\* of its string and two more turns; with weak fairness of Turn that is CallEnds.
THEOREM TurnsAreBounded == StrSpec => [][TurnGetsCloser]_strVars
BY StrCorrect, CloserStep, PTL DEF StrSpec

-----------------------------------------------------------------------------
(* CStrings: putting pieces together.                                       *)

\* f is the recursion that FlattenSeq(s) is the last value of.
IsFlat(f, s) == f = [i \in 1 .. Len(s) |-> IF i = 1 THEN s[i] ELSE f[i - 1] \o s[i]]

LEMMA FlatAgree ==
    ASSUME NEW s, Len(s) \in Nat, NEW f, NEW g, IsFlat(f, s), IsFlat(g, s)
    PROVE  \A i \in 1 .. Len(s) : f[i] = g[i]
<1> DEFINE S == {i \in Nat : i \in 1 .. Len(s) => f[i] = g[i]}
<1>1. 0 \in S
  OBVIOUS
<1>2. ASSUME NEW i \in Nat, i \in S PROVE i + 1 \in S
  <2> SUFFICES ASSUME i + 1 \in 1 .. Len(s) PROVE f[i + 1] = g[i + 1]
    OBVIOUS
  <2>1. /\ f[i + 1] = IF i + 1 = 1 THEN s[i + 1] ELSE f[(i + 1) - 1] \o s[i + 1]
        /\ g[i + 1] = IF i + 1 = 1 THEN s[i + 1] ELSE g[(i + 1) - 1] \o s[i + 1]
    BY DEF IsFlat
  <2>2. i + 1 # 1 => f[(i + 1) - 1] = g[(i + 1) - 1]
    BY <1>2
  <2> QED BY <2>1, <2>2
<1>3. Nat \subseteq S
  <2> HIDE DEF S
  <2> QED BY <1>1, <1>2, NatSetInduction
<1> QED BY <1>3

LEMMA FlatIs ==
    ASSUME NEW s, Len(s) \in Nat \ {0}, NEW f, IsFlat(f, s)
    PROVE  FlattenSeq(s) = f[Len(s)]
<1>1. FlattenSeq(s) = (CHOOSE g : IsFlat(g, s))[Len(s)]
  BY DEF FlattenSeq, IsFlat
<1>2. IsFlat(CHOOSE g : IsFlat(g, s), s)
  OBVIOUS
<1>3. Len(s) \in 1 .. Len(s) /\ Len(s) \in Nat
  OBVIOUS
<1> QED BY <1>1, <1>2, <1>3, FlatAgree

LEMMA FlatExists ==
    ASSUME NEW C, NEW s \in Seq(Seq(C)), Len(s) > 0
    PROVE  \E f \in [1 .. Len(s) -> Seq(C)] : IsFlat(f, s)
<1> DEFINE n == Len(s) - 1
           h == [k \in 0 .. n - 1 |-> [x \in Seq(C) |-> x \o s[k + 2]]]
<1>0. n \in Nat /\ Len(s) = n + 1 /\ \A k \in 1 .. Len(s) : s[k] \in Seq(C)
  OBVIOUS
<1>1. h \in StepFunctions(Seq(C), n) /\ s[1] \in Seq(C)
  <2>1. \A k \in 0 .. n - 1 : k + 2 \in 1 .. Len(s)
    BY <1>0
  <2>2. \A k \in 0 .. n - 1 : [x \in Seq(C) |-> x \o s[k + 2]] \in [Seq(C) -> Seq(C)]
    BY <1>0, <2>1
  <2> QED BY <1>0, <2>2 DEF StepFunctions
<1>2. PICK g : RecursionOf(g, Seq(C), s[1], n, h)
  <2> HIDE DEF h, n
  <2> QED BY <1>0, <1>1, BoundedRecursion, Zenon
<1>3. g \in [0 .. n -> Seq(C)] /\ g[0] = s[1] /\ \A k \in 0 .. n - 1 : g[k + 1] = h[k][g[k]]
  BY <1>2 DEF RecursionOf
<1> DEFINE f == [i \in 1 .. Len(s) |-> g[i - 1]]
<1>4. f \in [1 .. Len(s) -> Seq(C)]
  BY <1>0, <1>3
<1>5. ASSUME NEW i \in 2 .. Len(s) PROVE g[i - 1] = g[i - 2] \o s[i]
  <2>1. i - 2 \in 0 .. n - 1 /\ (i - 2) + 1 = i - 1 /\ (i - 2) + 2 = i /\ i - 2 \in 0 .. n
    BY <1>0
  <2>2. g[i - 1] = h[i - 2][g[i - 2]] /\ g[i - 2] \in Seq(C)
    BY <1>3, <2>1
  <2> QED BY <2>1, <2>2
<1>6. \A i \in 1 .. Len(s) : f[i] = IF i = 1 THEN s[i] ELSE f[i - 1] \o s[i]
  <2> SUFFICES ASSUME NEW i \in 1 .. Len(s)
               PROVE  f[i] = IF i = 1 THEN s[i] ELSE f[i - 1] \o s[i]
    OBVIOUS
  <2>1. CASE i = 1
    BY <1>3, <2>1
  <2>2. CASE i # 1
    <3>1. i \in 2 .. Len(s) /\ i - 1 \in 1 .. Len(s) /\ (i - 1) - 1 = i - 2
      BY <2>2
    <3>2. f[i] = g[i - 1] /\ f[i - 1] = g[i - 2]
      BY <3>1
    <3> QED BY <1>5, <2>2, <3>1, <3>2
  <2> QED BY <2>1, <2>2
<1>7. IsFlat(f, s)
  <2>1. f = [i \in 1 .. Len(s) |-> f[i]]
    OBVIOUS
  <2> HIDE DEF f
  <2> QED BY <1>6, <2>1 DEF IsFlat
<1> QED BY <1>4, <1>7

\* One piece more at the end.
LEMMA FlattenAppend ==
    ASSUME NEW C, NEW s \in Seq(Seq(C)), NEW t \in Seq(C)
    PROVE  /\ FlattenSeq(s) \in Seq(C)
           /\ FlattenSeq(Append(s, t)) = FlattenSeq(s) \o t
<1> DEFINE u == Append(s, t)
<1>1. /\ u \in Seq(Seq(C)) /\ Len(u) = Len(s) + 1 /\ Len(s) \in Nat
      /\ u[Len(s) + 1] = t /\ \A i \in 1 .. Len(s) : u[i] = s[i]
  OBVIOUS
<1>2. PICK g \in [1 .. Len(u) -> Seq(C)] : IsFlat(g, u)
  <2> HIDE DEF u
  <2> QED BY <1>1, FlatExists
<1> HIDE DEF u
<1>3. FlattenSeq(u) = g[Len(s) + 1]
  BY <1>1, <1>2, FlatIs
<1>4. \A i \in 1 .. Len(u) : g[i] = IF i = 1 THEN u[i] ELSE g[i - 1] \o u[i]
  BY <1>2 DEF IsFlat
<1>5. CASE Len(s) = 0
  <2>1. FlattenSeq(s) = <<>> /\ s = <<>>
    BY <1>5 DEF FlattenSeq
  <2>2. g[1] = t
    BY <1>1, <1>4, <1>5
  <2>3. <<>> \o t = t /\ <<>> \in Seq(C)
    OBVIOUS
  <2> QED BY <1>3, <1>5, <2>1, <2>2, <2>3 DEF u
<1>6. CASE Len(s) > 0
  <2> DEFINE f == [i \in 1 .. Len(s) |-> g[i]]
  <2>1. \A i \in 1 .. Len(s) : f[i] = IF i = 1 THEN s[i] ELSE f[i - 1] \o s[i]
    <3> SUFFICES ASSUME NEW i \in 1 .. Len(s)
                 PROVE  f[i] = IF i = 1 THEN s[i] ELSE f[i - 1] \o s[i]
      OBVIOUS
    <3>1. i \in 1 .. Len(u) /\ u[i] = s[i] /\ f[i] = g[i]
      BY <1>1
    <3>2. i # 1 => f[i - 1] = g[i - 1]
      OBVIOUS
    <3> HIDE DEF f
    <3> QED BY <1>4, <3>1, <3>2
  <2>2. IsFlat(f, s)
    <3>1. f = [i \in 1 .. Len(s) |-> f[i]]
      OBVIOUS
    <3> HIDE DEF f
    <3> QED BY <2>1, <3>1 DEF IsFlat
  <2>3. FlattenSeq(s) = g[Len(s)]
    <3>1. f[Len(s)] = g[Len(s)]
      BY <1>1, <1>6
    <3> HIDE DEF f
    <3> QED BY <1>1, <1>6, <2>2, <3>1, FlatIs
  <2>4. g[Len(s) + 1] = g[Len(s)] \o t /\ g[Len(s)] \in Seq(C)
    <3>1. Len(s) + 1 \in 1 .. Len(u) /\ Len(s) + 1 # 1 /\ (Len(s) + 1) - 1 = Len(s)
          /\ Len(s) \in 1 .. Len(u)
      BY <1>1, <1>6
    <3> QED BY <1>1, <1>2, <1>4, <3>1
  <2> QED BY <1>3, <2>3, <2>4 DEF u
<1> QED BY <1>1, <1>5, <1>6

\* A string is its first part with the next part behind it.
LEMMA PartsMeet ==
    ASSUME NEW C, NEW s \in Seq(C), NEW a \in Nat, NEW b \in Nat, a <= b, b <= Len(s)
    PROVE  SubSeq(s, 1, a) \o SubSeq(s, a + 1, b) = SubSeq(s, 1, b)
<1>1. 1 \in 1 .. Len(s) + 1 /\ a \in 1 - 1 .. Len(s) /\ b \in a .. Len(s)
  OBVIOUS
<1> QED BY <1>1, ConcatAdjacentSubSeq

LEMMA WholeString ==
    ASSUME NEW C, NEW s \in Seq(C) PROVE SubSeq(s, 1, Len(s)) = s /\ SubSeq(s, 1, 0) = <<>>
OBVIOUS

-----------------------------------------------------------------------------
(* CStrings: strtok's runs.                                                 *)

RunsUpTo(p) == {j \in RunStarts : j <= p}

StrtokInv ==
    /\ Len(toks) = Cardinality(RunsUpTo(pos))
    /\ \A k \in RunsUpTo(pos) : toks[Cardinality(RunsUpTo(k))] = RunFrom(k)
    /\ pos = 0 \/ pos = Len(str) \/ IsSep(pos)
    /\ ended => \A k \in pos + 1 .. Len(str) : IsSep(k)

LEMMA RunsAreFinite ==
    ASSUME StrTypeOK, NEW p
    PROVE  /\ IsFiniteSet(RunsUpTo(p)) /\ Cardinality(RunsUpTo(p)) \in Nat
           /\ RunsUpTo(p) \subseteq 1 .. Len(str)
<1>1. RunsUpTo(p) \subseteq 1 .. Len(str)
  BY DEF RunsUpTo, RunStarts
<1>2. IsFiniteSet(1 .. Len(str))
  <2>1. 1 \in Int /\ Len(str) \in Int
    BY DEF StrTypeOK
  <2> QED BY <2>1, FS_Interval
<1>3. IsFiniteSet(RunsUpTo(p))
  BY <1>1, <1>2, FS_Subset
<1> QED BY <1>1, <1>3, FS_CardinalityType

\* The next run: where it begins, what it is, and that no other begins before its end.
LEMMA NextRun ==
    ASSUME StrTypeOK, pos = 0 \/ pos = Len(str) \/ IsSep(pos),
           NEW k \in pos + 1 .. Len(str), ~IsSep(k), \A j \in pos + 1 .. k - 1 : IsSep(j),
           NEW stop \in k .. Len(str) + 1, \A j \in k .. stop - 1 : ~IsSep(j),
           stop = Len(str) + 1 \/ IsSep(stop)
    PROVE  /\ k \in RunStarts
           /\ RunFrom(k) = SubSeq(str, k, stop - 1)
           /\ RunsUpTo(stop) = RunsUpTo(pos) \cup {k}
           /\ RunsUpTo(k) = RunsUpTo(pos) \cup {k}
<1>0. Len(str) \in Nat /\ pos \in 0 .. Len(str)
  BY DEF StrTypeOK
<1>1. k \in RunStarts
  <2>1. CASE k = pos + 1
    BY <1>0, <2>1 DEF RunStarts
  <2>2. CASE k # pos + 1
    <3>1. k - 1 \in pos + 1 .. k - 1 /\ k \in 1 .. Len(str)
      BY <1>0, <2>2
    <3> QED BY <3>1 DEF RunStarts
  <2> QED BY <2>1, <2>2
<1>2. RunFrom(k) = SubSeq(str, k, stop - 1)
  <2> DEFINE J == {j \in k .. Len(str) : \A m \in k .. j : ~IsSep(m)}
  <2>0. stop # k
    BY <1>0
  <2>1. stop - 1 \in J
    BY <1>0, <2>0
  <2>2. \A j \in J : stop - 1 >= j
    <3> SUFFICES ASSUME NEW j \in J, j > stop - 1 PROVE FALSE
      BY <1>0
    <3>1. stop \in k .. j /\ stop # Len(str) + 1
      BY <1>0
    <3> QED BY <3>1
  <2>3. \A x \in J : (\A y \in J : x >= y) => x = stop - 1
    <3> SUFFICES ASSUME NEW x \in J, \A y \in J : x >= y PROVE x = stop - 1
      OBVIOUS
    <3>1. x >= stop - 1 /\ stop - 1 >= x /\ x \in Int /\ stop - 1 \in Int
      BY <1>0, <2>1, <2>2
    <3> QED BY <3>1
  <2> HIDE DEF J
  <2>4. Max(J) = stop - 1
    BY <2>1, <2>2, <2>3 DEF Max
  <2>5. RunFrom(k) = SubSeq(str, k, Max(J))
    BY DEF RunFrom, J
  <2> QED BY <2>4, <2>5
<1>3. \A j \in RunStarts : j <= stop => j <= pos \/ j = k
  <2> SUFFICES ASSUME NEW j \in RunStarts, j <= stop, j > pos, j # k PROVE FALSE
    BY <1>0 DEF RunStarts
  <2>1. j \in 1 .. Len(str) /\ ~IsSep(j) /\ (j = 1 \/ IsSep(j - 1))
    BY DEF RunStarts
  <2>2. j > k
    BY <1>0, <2>1
  <2>3. j # stop
    BY <1>0, <2>1
  <2>4. j - 1 \in k .. stop - 1 /\ j # 1
    BY <1>0, <2>1, <2>2, <2>3
  <2> QED BY <2>1, <2>4
<1>4. \A j \in RunStarts : j \in Int
  BY DEF RunStarts
<1>5. pos <= k /\ k <= stop /\ pos \in Int /\ stop \in Int /\ k \in Int
  BY <1>0
<1>6. \A j \in RunStarts : /\ j <= stop <=> j <= pos \/ j = k
                           /\ j <= k <=> j <= pos \/ j = k
  <2> SUFFICES ASSUME NEW j \in RunStarts
               PROVE  /\ j <= stop <=> j <= pos \/ j = k
                      /\ j <= k <=> j <= pos \/ j = k
    OBVIOUS
  <2> QED BY <1>3, <1>4, <1>5
<1>7. RunsUpTo(stop) = RunsUpTo(pos) \cup {k} /\ RunsUpTo(k) = RunsUpTo(pos) \cup {k}
  BY <1>1, <1>6, Zenon DEF RunsUpTo
<1> QED BY <1>1, <1>2, <1>7

LEMMA StrtokKeeps ==
    ASSUME StrInv, StrtokInv, Strtok PROVE StrtokInv'
<1>0. /\ StrTypeOK /\ Len(str) \in Nat /\ pos \in 0 .. Len(str) /\ toks \in Seq(Seq(Chars))
      /\ Len(toks) = Cardinality(RunsUpTo(pos))
      /\ \A k \in RunsUpTo(pos) : toks[Cardinality(RunsUpTo(k))] = RunFrom(k)
      /\ pos = 0 \/ pos = Len(str) \/ IsSep(pos)
      /\ ended = FALSE
  BY DEF StrInv, StrTypeOK, StrtokInv, Strtok
<1>1. str' = str /\ sep' = sep
  BY DEF Strtok, Finish
<1>2. /\ RunStarts' = RunStarts /\ \A k : IsSep(k)' = IsSep(k)
      /\ \A k : RunsUpTo(k)' = RunsUpTo(k) /\ RunFrom(k)' = RunFrom(k)
  BY <1>1 DEF RunStarts, IsSep, RunsUpTo, RunFrom
<1>3. CASE {k \in pos + 1 .. Len(str) : ~IsSep(k)} = {} /\ Finish
  <2>1. \A k \in pos + 1 .. Len(str) : IsSep(k)
    BY <1>3
  <2>2. toks' = toks /\ pos' = pos
    BY <1>3 DEF Finish
  <2> QED BY <1>0, <1>1, <1>2, <2>1, <2>2 DEF StrtokInv, RunsUpTo
<1>4. CASE ~({k \in pos + 1 .. Len(str) : ~IsSep(k)} = {} /\ Finish)
  <2>0. PICK k \in First({j \in pos + 1 .. Len(str) : ~IsSep(j)}) :
           \E stop \in First({j \in k .. Len(str) : IsSep(j)} \cup {Len(str) + 1}) :
              /\ AddToken(SubSeq(str, k, stop - 1))
              /\ pos' = IF stop > Len(str) THEN Len(str) ELSE stop
              /\ UNCHANGED <<fn, str, sep, to, fin, out, ended>>
    BY <1>4 DEF Strtok
  <2>1. PICK stop \in First({j \in k .. Len(str) : IsSep(j)} \cup {Len(str) + 1}) :
              /\ AddToken(SubSeq(str, k, stop - 1))
              /\ pos' = IF stop > Len(str) THEN Len(str) ELSE stop
              /\ UNCHANGED <<fn, str, sep, to, fin, out, ended>>
    BY <2>0
  <2>2. /\ k \in pos + 1 .. Len(str) /\ ~IsSep(k)
        /\ \A j \in pos + 1 .. k - 1 : IsSep(j)
    <3>1. k \in pos + 1 .. Len(str) /\ ~IsSep(k)
      BY DEF First
    <3>2. ASSUME NEW j \in pos + 1 .. k - 1, ~IsSep(j) PROVE FALSE
      <4>1. j \in pos + 1 .. Len(str) /\ j < k
        BY <1>0, <3>1
      <4>2. k <= j
        BY <3>2, <4>1 DEF First
      <4> QED BY <1>0, <3>1, <4>1, <4>2
    <3> QED BY <3>1, <3>2
  <2>3. /\ stop \in k .. Len(str) + 1
        /\ \A j \in k .. stop - 1 : ~IsSep(j)
        /\ stop = Len(str) + 1 \/ IsSep(stop)
    <3>1. stop \in k .. Len(str) + 1 /\ (stop = Len(str) + 1 \/ IsSep(stop))
      BY <1>0, <2>2 DEF First
    <3>2. ASSUME NEW j \in k .. stop - 1, IsSep(j) PROVE FALSE
      <4>1. j \in k .. Len(str) /\ j < stop
        BY <1>0, <2>2, <3>1
      <4>2. stop <= j
        BY <3>2, <4>1 DEF First
      <4> QED BY <1>0, <2>2, <3>1, <4>1, <4>2
    <3> QED BY <3>1, <3>2
  <2>4. /\ k \in RunStarts /\ RunFrom(k) = SubSeq(str, k, stop - 1)
        /\ RunsUpTo(stop) = RunsUpTo(pos) \cup {k}
        /\ RunsUpTo(k) = RunsUpTo(pos) \cup {k}
    BY <1>0, <2>2, <2>3, NextRun
  <2>5. RunsUpTo(pos') = RunsUpTo(stop)
    <3>1. \A j \in RunStarts : j \in 1 .. Len(str) /\ (j <= pos' <=> j <= stop)
      <4> SUFFICES ASSUME NEW j \in RunStarts PROVE j \in 1 .. Len(str) /\ (j <= pos' <=> j <= stop)
        OBVIOUS
      <4>1. j \in 1 .. Len(str)
        BY DEF RunStarts
      <4> QED BY <1>0, <2>1, <2>2, <2>3, <4>1
    <3> QED BY <3>1, Zenon DEF RunsUpTo
  <2>6. pos' = Len(str) \/ IsSep(pos')
    BY <1>0, <2>1, <2>2, <2>3
  <2>7. toks' = Append(toks, RunFrom(k)) /\ ended' = FALSE
    BY <1>0, <2>1, <2>4 DEF AddToken
  <2>8. Cardinality(RunsUpTo(pos) \cup {k}) = Len(toks) + 1
    <3>1. k \notin RunsUpTo(pos)
      BY <1>0, <2>2 DEF RunsUpTo
    <3> QED BY <1>0, <3>1, RunsAreFinite, FS_AddElement
  <2>9. Len(toks') = Len(toks) + 1 /\ toks'[Len(toks) + 1] = RunFrom(k)
        /\ \A n \in 1 .. Len(toks) : toks'[n] = toks[n]
    BY <1>0, <2>7
  <2>10. ASSUME NEW j \in RunsUpTo(pos) PROVE toks'[Cardinality(RunsUpTo(j))] = RunFrom(j)
    <3>1. RunsUpTo(j) \subseteq RunsUpTo(pos) /\ j \in RunsUpTo(j)
      <4>1. j \in RunStarts /\ j <= pos /\ j \in Int /\ \A i \in RunStarts : i \in Int
        BY <1>0 DEF RunsUpTo, RunStarts
      <4>2. \A i \in RunStarts : i <= j => i <= pos
        BY <1>0, <4>1
      <4>3. j <= j
        BY <4>1
      <4> QED BY <4>1, <4>2, <4>3, Zenon DEF RunsUpTo
    <3>2. Cardinality(RunsUpTo(j)) <= Len(toks) /\ Cardinality(RunsUpTo(j)) \in Nat
      BY <1>0, <3>1, RunsAreFinite, FS_Subset
    <3>3. Cardinality(RunsUpTo(j)) # 0
      <4>1. IsFiniteSet(RunsUpTo(j)) /\ RunsUpTo(j) # {}
        BY <1>0, <3>1, RunsAreFinite
      <4> QED BY <4>1, FS_EmptySet
    <3>4. Cardinality(RunsUpTo(j)) \in 1 .. Len(toks)
      BY <1>0, <3>2, <3>3
    <3> QED BY <1>0, <2>9, <3>4
  <2>11. \A j \in RunsUpTo(pos') : toks'[Cardinality(RunsUpTo(j))] = RunFrom(j)
    <3>1. toks'[Cardinality(RunsUpTo(k))] = RunFrom(k)
      BY <2>4, <2>8, <2>9
    <3> QED BY <2>4, <2>5, <2>10, <3>1
  <2>12. Len(toks') = Cardinality(RunsUpTo(pos'))
    BY <2>4, <2>5, <2>8, <2>9
  <2>13. RunsUpTo(pos)' = RunsUpTo(pos')
    BY <1>2 DEF RunsUpTo
  <2>14. \A j \in RunsUpTo(pos)' : toks'[Cardinality(RunsUpTo(j))'] = RunFrom(j)'
    BY <1>2, <2>11, <2>13
  <2>15. IsSep(pos)' = IsSep(pos')
    BY <1>1 DEF IsSep
  <2> QED BY <1>1, <2>6, <2>7, <2>12, <2>13, <2>14, <2>15 DEF StrtokInv
<1> QED BY <1>3, <1>4

LEMMA StrtokIsRight ==
    ASSUME StrTypeOK, StrtokInv, ended PROVE RunsInOrder
<1>0. Len(str) \in Nat /\ pos \in 0 .. Len(str)
  BY DEF StrTypeOK
<1>1. RunsUpTo(pos) = RunStarts
  <2>1. \A k \in RunStarts : k <= pos
    <3> SUFFICES ASSUME NEW k \in RunStarts, k > pos PROVE FALSE
      BY <1>0 DEF RunStarts
    <3>1. k \in pos + 1 .. Len(str) /\ ~IsSep(k)
      BY <1>0 DEF RunStarts
    <3> QED BY <3>1 DEF StrtokInv
  <2> QED BY <2>1 DEF RunsUpTo
<1> QED BY <1>1 DEF StrtokInv, RunsInOrder, RunsUpTo

-----------------------------------------------------------------------------
(* CStrings: strtokIncludingDelimiters' pieces.                             *)

IsPiece(t, d) == t = d \/ (t # <<>> /\ ~Holds(t, d))

IncludingInv ==
    /\ FlattenSeq(toks) = IF ended THEN str ELSE SubSeq(str, 1, pos)
    /\ \A n \in 1 .. Len(toks) : IsPiece(toks[n], sep)

\* What lies before the next delimiter has none in it.
LEMMA NoneBefore ==
    ASSUME StrTypeOK, NEW a \in Nat, NEW b \in a + 1 .. Len(str), sep # <<>>,
           \A j \in FoundAt(a + 1) : j + Len(sep) - 1 > b
    PROVE  IsPiece(SubSeq(str, a + 1, b), sep)
<1> DEFINE t == SubSeq(str, a + 1, b)
<1>0. /\ Len(str) \in Nat /\ str \in Seq(Chars) /\ sep \in Seq(Chars) /\ Len(sep) \in Nat
      /\ Len(sep) > 0
  BY DEF StrTypeOK
<1>1. t \in Seq(Chars) /\ Len(t) = b - a 
  <2>1. a + 1 \in Nat \ {0} /\ b \in Nat /\ b <= Len(str) /\ a + 1 <= b
        /\ b - (a + 1) + 1 = b - a
    BY <1>0
  <2> QED BY <1>0, <2>1, PartOfString
<1>2. ASSUME NEW k \in 1 .. Len(t) - Len(sep) + 1, SubSeq(t, k, k + Len(sep) - 1) = sep
      PROVE  FALSE
  <2> DEFINE l == Len(sep)
  <2>1. /\ a + 1 \in 1 .. Len(str) /\ b \in 1 .. Len(str)
        /\ k \in 1 .. b - (a + 1) + 1 /\ k + l - 1 \in 1 .. b - (a + 1) + 1
    BY <1>0, <1>1
  <2>2. SubSeq(t, k, k + l - 1) = SubSeq(str, (a + 1) + k - 1, (a + 1) + (k + l - 1) - 1)
    BY <1>0, <1>1, <2>1, SubSeqOfSubSeq
  <2>3. (a + 1) + k - 1 = a + k /\ (a + 1) + (k + l - 1) - 1 = (a + k) + l - 1
    BY <1>0
  <2>4. SubSeq(str, a + k, (a + k) + l - 1) = sep
    BY <1>2, <2>2, <2>3
  <2>5. a + k \in a + 1 .. Len(str) - l + 1 /\ (a + k) + l - 1 <= b
    BY <1>0, <1>1
  <2>6. a + k \in FoundAt(a + 1)
    BY <2>4, <2>5 DEF FoundAt
  <2> QED BY <1>0, <2>5, <2>6
<1>3. t # <<>>
  BY <1>1
<1> QED BY <1>2, <1>3 DEF IsPiece, Holds

LEMMA IncludingKeeps ==
    ASSUME StrInv, IncludingInv, StrtokIncludingDelimiters PROVE IncludingInv'
<1>0. /\ StrTypeOK /\ Len(str) \in Nat /\ pos \in 0 .. Len(str) /\ toks \in Seq(Seq(Chars))
      /\ str \in Seq(Chars) /\ sep \in Seq(Chars) /\ Len(sep) \in Nat
      /\ FlattenSeq(toks) = SubSeq(str, 1, pos) /\ ended = FALSE
      /\ \A n \in 1 .. Len(toks) : IsPiece(toks[n], sep)
  BY DEF StrInv, StrTypeOK, IncludingInv, StrtokIncludingDelimiters
<1>1. str' = str /\ sep' = sep
  BY DEF StrtokIncludingDelimiters, Finish
<1>3. ASSUME NEW t \in Seq(Chars), IsPiece(t, sep), NEW u \in Seq(Seq(Chars)),
             \A n \in 1 .. Len(u) : IsPiece(u[n], sep)
      PROVE  /\ \A n \in 1 .. Len(Append(u, t)) : IsPiece(Append(u, t)[n], sep)
             /\ Append(u, t) \in Seq(Seq(Chars))
             /\ FlattenSeq(Append(u, t)) = FlattenSeq(u) \o t
  <2>1. /\ Append(u, t) \in Seq(Seq(Chars)) /\ Len(Append(u, t)) = Len(u) + 1
        /\ Append(u, t)[Len(u) + 1] = t /\ \A n \in 1 .. Len(u) : Append(u, t)[n] = u[n]
    OBVIOUS
  <2>2. \A n \in 1 .. Len(Append(u, t)) : n \in 1 .. Len(u) \/ n = Len(u) + 1
    BY <2>1
  <2> QED BY <1>3, <2>1, <2>2, FlattenAppend
<1>4. CASE pos = Len(str) /\ Finish
  <2>1. toks' = toks /\ ended' = TRUE
    BY <1>4 DEF Finish
  <2>2. FlattenSeq(toks) = str
    BY <1>0, <1>4, WholeString
  <2> QED BY <1>0, <1>1, <2>1, <2>2 DEF IncludingInv
<1>5. CASE /\ pos < Len(str) /\ FoundAt(pos + 1) = {}
           /\ AddToken(SubSeq(str, pos + 1, Len(str))) /\ ended' = TRUE
  <2> DEFINE t == SubSeq(str, pos + 1, Len(str))
  <2>1. sep # <<>>
    <3> SUFFICES ASSUME sep = <<>> PROVE pos + 1 \in FoundAt(pos + 1)
      BY <1>5
    <3>1. Len(sep) = 0 /\ SubSeq(str, pos + 1, (pos + 1) + 0 - 1) = <<>>
      BY <1>0
    <3>2. pos + 1 \in pos + 1 .. Len(str) - Len(sep) + 1
      BY <1>0, <1>5, <3>1
    <3> QED BY <3>1, <3>2 DEF FoundAt
  <2>2. IsPiece(t, sep) /\ t \in Seq(Chars)
    <3>1. pos \in Nat /\ Len(str) \in pos + 1 .. Len(str) /\ pos + 1 \in Nat \ {0}
      BY <1>0, <1>5
    <3> QED BY <1>0, <1>5, <2>1, <3>1, NoneBefore, PartOfString
  <2>3. toks' = Append(toks, t)
    BY <1>5 DEF AddToken
  <2>4. SubSeq(str, 1, pos) \o t = str
    <3>1. PICK n \in Nat : n = Len(str)
      BY <1>0
    <3>3. pos \in Nat /\ pos <= n /\ n <= Len(str) /\ str \in Seq(Chars)
      BY <1>0, <3>1
    <3>2. SubSeq(str, 1, pos) \o SubSeq(str, pos + 1, n) = SubSeq(str, 1, n)
      BY <3>3, PartsMeet
    <3> QED BY <1>0, <3>1, <3>2, WholeString
  <2> HIDE DEF t
  <2>5. /\ FlattenSeq(toks') = str
        /\ \A n \in 1 .. Len(toks') : IsPiece(toks'[n], sep)
    BY <1>0, <1>3, <2>2, <2>3, <2>4
  <2> QED BY <1>1, <1>5, <2>5 DEF IncludingInv
<1>6. ASSUME NEW p \in First(FoundAt(pos + 1)), pos < Len(str),
             IF p > pos + 1
             THEN toks' = toks \o <<SubSeq(str, pos + 1, p - 1), sep>>
             ELSE AddToken(sep),
             pos' = BehindSep(p), ended' = ended
      PROVE  IncludingInv'
  <2>1. /\ p \in pos + 1 .. Len(str) - Len(sep) + 1
        /\ SubSeq(str, p, p + Len(sep) - 1) = sep
        /\ \A j \in FoundAt(pos + 1) : p <= j
    BY DEF First, FoundAt
  <2>2. IsPiece(sep, sep)
    BY DEF IsPiece
  <2>3. PICK q : q = p + Len(sep) - 1
    OBVIOUS
  <2>4. pos' = q /\ q \in p - 1 .. Len(str) /\ p - 1 \in pos .. Len(str)
        /\ p \in Int /\ (p - 1) + 1 = p
    BY <1>0, <1>6, <2>1, <2>3 DEF BehindSep
  <2>5. SubSeq(str, 1, p - 1) \o sep = SubSeq(str, 1, q)
    <3>1. SubSeq(str, 1, p - 1) \o SubSeq(str, (p - 1) + 1, q) = SubSeq(str, 1, q)
      <4>1. p - 1 \in Nat /\ q \in Nat /\ p - 1 <= q /\ q <= Len(str)
        BY <1>0, <2>4
      <4> QED BY <1>0, <4>1, PartsMeet
    <3> QED BY <2>1, <2>3, <2>4, <3>1
  <2>6. CASE p = pos + 1
    <3>1. toks' = Append(toks, sep) /\ p - 1 = pos
      BY <1>0, <1>6, <2>6 DEF AddToken
    <3>2. /\ FlattenSeq(toks') = SubSeq(str, 1, q)
          /\ \A n \in 1 .. Len(toks') : IsPiece(toks'[n], sep)
      BY <1>0, <1>3, <2>2, <2>5, <3>1
    <3> QED BY <1>0, <1>1, <1>6, <2>4, <3>2 DEF IncludingInv
  <2>7. CASE p > pos + 1
    <3> DEFINE t == SubSeq(str, pos + 1, p - 1)
    <3>1. sep # <<>>
      <4> SUFFICES ASSUME sep = <<>> PROVE pos + 1 \in FoundAt(pos + 1)
        BY <1>0, <2>1, <2>7
      <4>1. Len(sep) = 0 /\ SubSeq(str, pos + 1, (pos + 1) + 0 - 1) = <<>>
        BY <1>0
      <4>2. pos + 1 \in pos + 1 .. Len(str) - Len(sep) + 1
        BY <1>0, <1>6, <4>1
      <4> QED BY <4>1, <4>2 DEF FoundAt
    <3>2. IsPiece(t, sep) /\ t \in Seq(Chars)
      <4>1. pos \in Nat /\ p - 1 \in pos + 1 .. Len(str) /\ pos + 1 \in Nat \ {0}
            /\ p - 1 \in Nat /\ p - 1 <= Len(str)
        BY <1>0, <2>1, <2>4, <2>7
      <4>2. \A j \in FoundAt(pos + 1) : j + Len(sep) - 1 > p - 1
        <5> SUFFICES ASSUME NEW j \in FoundAt(pos + 1) PROVE j + Len(sep) - 1 > p - 1
          OBVIOUS
        <5>1. p <= j /\ j \in Int /\ Len(sep) > 0
          BY <1>0, <2>1, <3>1 DEF FoundAt
        <5> QED BY <1>0, <2>4, <5>1
      <4> QED BY <1>0, <3>1, <4>1, <4>2, NoneBefore, PartOfString
    <3>3. SubSeq(str, 1, pos) \o t = SubSeq(str, 1, p - 1)
      <4>1. pos \in Nat /\ p - 1 \in Nat /\ pos <= p - 1 /\ p - 1 <= Len(str)
        BY <1>0, <2>4
      <4> QED BY <1>0, <4>1, PartsMeet
    <3>4. toks' = toks \o <<t, sep>>
      BY <1>6, <2>7
    <3> HIDE DEF t
    <3>5. toks' = Append(Append(toks, t), sep)
      BY <1>0, <3>2, <3>4
    <3> DEFINE u == Append(toks, t)
    <3>6. /\ u \in Seq(Seq(Chars)) /\ FlattenSeq(u) = SubSeq(str, 1, p - 1)
          /\ \A n \in 1 .. Len(u) : IsPiece(u[n], sep)
      BY <1>0, <1>3, <3>2, <3>3
    <3> HIDE DEF u
    <3>7. /\ FlattenSeq(toks') = SubSeq(str, 1, q)
          /\ \A n \in 1 .. Len(toks') : IsPiece(toks'[n], sep)
      <4>1. toks' = Append(u, sep)
        BY <3>5 DEF u
      <4> QED BY <1>0, <1>3, <2>2, <2>5, <3>6, <4>1
    <3> QED BY <1>0, <1>1, <1>6, <2>4, <3>7 DEF IncludingInv
  <2> QED BY <1>0, <2>1, <2>6, <2>7
<1> QED BY <1>4, <1>5, <1>6 DEF StrtokIncludingDelimiters

-----------------------------------------------------------------------------
(* CStrings: stringReplace's result.                                        *)

Replacing(n) == [k \in 1 .. n |-> InPlaceOf(k)]

ReplaceInv ==
    /\ sep # <<>> => /\ out = FlattenSeq(Replacing(pos))
                     /\ Replaced \cap Before(pos + 1) = {}
                     /\ ended => pos = Len(str)
    /\ sep = <<>> /\ ended => out = str

\* There are occurrences found from the left, none inside another.
LEMMA ReplacedExists ==
    ASSUME StrTypeOK
    PROVE  /\ Replaced \subseteq FoundAt(1)
           /\ \A k \in FoundAt(1) : k \in Replaced <=> Replaced \cap Before(k) = {}
<1> DEFINE Right(K, m) == /\ K \subseteq FoundAt(1) \cap 1 .. m
                          /\ \A k \in FoundAt(1) \cap 1 .. m : k \in K <=> K \cap Before(k) = {}
           S == {m \in Nat : \E K : Right(K, m)}
<1>0. Len(sep) \in Nat /\ Len(str) \in Nat /\ FoundAt(1) \subseteq 1 .. Len(str) + 1
  BY DEF StrTypeOK, FoundAt
<1>1. 0 \in S
  <2>1. Right({}, 0)
    OBVIOUS
  <2> HIDE DEF Right
  <2> QED BY <2>1
<1>2. ASSUME NEW m \in Nat, m \in S PROVE m + 1 \in S
  <2>1. PICK K : Right(K, m)
    BY <1>2
  <2> DEFINE L == IF m + 1 \in FoundAt(1) /\ K \cap Before(m + 1) = {} THEN K \cup {m + 1} ELSE K
  <2>2. 1 .. m + 1 = (1 .. m) \cup {m + 1} /\ m + 1 \notin 1 .. m
    OBVIOUS
  <2>3. \A k \in 1 .. m : m + 1 \notin Before(k)
    BY <1>0 DEF Before
  <2>4. m + 1 \notin Before(m + 1)
    BY <1>0 DEF Before
  <2>5. L \subseteq FoundAt(1) \cap 1 .. m + 1
    BY <2>1, <2>2, Zenon
  <2>6. ASSUME NEW k \in FoundAt(1) \cap 1 .. m PROVE k \in L <=> L \cap Before(k) = {}
    <3>1. k \in K <=> K \cap Before(k) = {}
      BY <2>1, Zenon
    <3>2. m + 1 \notin Before(k) /\ k # m + 1
      BY <2>2, <2>3, Zenon
    <3>3. L = K \/ L = K \cup {m + 1}
      BY Zenon
    <3> QED BY <3>1, <3>2, <3>3
  <2>7. ASSUME m + 1 \in FoundAt(1) PROVE m + 1 \in L <=> L \cap Before(m + 1) = {}
    <3>1. m + 1 \notin K
      BY <2>1, <2>2, Zenon
    <3>2. CASE K \cap Before(m + 1) = {}
      <4>1. L = K \cup {m + 1}
        BY <2>7, <3>2
      <4> QED BY <2>4, <3>2, <4>1
    <3>3. CASE K \cap Before(m + 1) # {}
      <4>1. L = K
        BY <3>3
      <4> QED BY <3>1, <3>3, <4>1
    <3> QED BY <3>2, <3>3
  <2>8. Right(L, m + 1)
    <3> HIDE DEF L
    <3> QED BY <2>2, <2>5, <2>6, <2>7, Zenon
  <2> HIDE DEF Right
  <2> QED BY <2>8
<1>3. Nat \subseteq S
  <2> HIDE DEF S
  <2> QED BY <1>1, <1>2, NatSetInduction
<1>4. PICK K : Right(K, Len(str) + 1)
  <2>1. Len(str) + 1 \in S
    BY <1>0, <1>3
  <2> HIDE DEF Right
  <2> QED BY <2>1
<1>5. FoundAt(1) \cap 1 .. Len(str) + 1 = FoundAt(1)
  BY <1>0, Zenon
<1>6. \E J \in SUBSET FoundAt(1) : \A k \in FoundAt(1) : k \in J <=> J \cap Before(k) = {}
  <2>1. K \in SUBSET FoundAt(1) /\ \A k \in FoundAt(1) : k \in K <=> K \cap Before(k) = {}
    BY <1>4, <1>5, Zenon
  <2> QED BY <2>1, Zenon
<1> QED BY <1>6, Zenon DEF Replaced

LEMMA InPlaceIsTyped ==
    ASSUME StrTypeOK, NEW k \in 1 .. Len(str)
    PROVE  InPlaceOf(k) \in Seq(Chars)
<1>1. str[k] \in Chars /\ to \in Seq(Chars)
  BY DEF StrTypeOK
<1>2. <<str[k]>> \in Seq(Chars) /\ <<>> \in Seq(Chars)
  BY <1>1
<1> QED BY <1>1, <1>2, Zenon DEF InPlaceOf

LEMMA ReplacingOne ==
    ASSUME StrTypeOK, NEW n \in 0 .. Len(str) - 1
    PROVE  FlattenSeq(Replacing(n + 1)) = FlattenSeq(Replacing(n)) \o InPlaceOf(n + 1)
<1>0. n \in Nat /\ Len(str) \in Nat /\ n + 1 \in 1 .. Len(str)
  BY DEF StrTypeOK
<1>1. \A k \in 1 .. n + 1 : InPlaceOf(k) \in Seq(Chars)
  BY <1>0, InPlaceIsTyped
<1>2. /\ Replacing(n) \in Seq(Seq(Chars)) /\ Len(Replacing(n)) = n
      /\ Replacing(n + 1) \in Seq(Seq(Chars)) /\ Len(Replacing(n + 1)) = n + 1
      /\ \A k \in 1 .. n : Replacing(n)[k] = InPlaceOf(k)
      /\ \A k \in 1 .. n + 1 : Replacing(n + 1)[k] = InPlaceOf(k)
  BY <1>0, <1>1 DEF Replacing
<1>3. /\ Append(Replacing(n), InPlaceOf(n + 1)) \in Seq(Seq(Chars))
      /\ Len(Append(Replacing(n), InPlaceOf(n + 1))) = n + 1
      /\ \A k \in 1 .. n + 1 : Append(Replacing(n), InPlaceOf(n + 1))[k] = InPlaceOf(k)
  BY <1>0, <1>1, <1>2
<1>4. Replacing(n + 1) = Append(Replacing(n), InPlaceOf(n + 1))
  BY <1>2, <1>3, SeqEqual
<1>5. InPlaceOf(n + 1) \in Seq(Chars)
  BY <1>0, <1>1
<1> QED BY <1>2, <1>4, <1>5, FlattenAppend

LEMMA ConcatNothing ==
    ASSUME NEW C, NEW s \in Seq(C) PROVE s \o <<>> = s
OBVIOUS

\* Behind a replaced occurrence the characters it covers leave nothing.
LEMMA ReplacingOccurrence ==
    ASSUME StrTypeOK, sep # <<>>, pos + 1 \in FoundAt(1), Replaced \cap Before(pos + 1) = {}
    PROVE  FlattenSeq(Replacing(pos + Len(sep))) = FlattenSeq(Replacing(pos)) \o to
<1>0. /\ Len(sep) \in Nat \ {0} /\ Len(str) \in Nat /\ pos \in Nat
      /\ pos + Len(sep) <= Len(str) /\ to \in Seq(Chars)
  BY DEF StrTypeOK, FoundAt
<1>1. pos + 1 \in Replaced
  BY ReplacedExists
<1>2. \A k \in pos + 2 .. pos + Len(sep) : InPlaceOf(k) = <<>>
  <2> SUFFICES ASSUME NEW k \in pos + 2 .. pos + Len(sep) PROVE InPlaceOf(k) = <<>>
    OBVIOUS
  <2>1. pos + 1 \in Before(k)
    BY <1>0 DEF Before
  <2>2. Replaced \cap Before(k) # {}
    BY <1>1, <2>1
  <2>3. k \notin Replaced
    BY <2>2, ReplacedExists
  <2> QED BY <2>2, <2>3 DEF InPlaceOf
<1> DEFINE w == FlattenSeq(Replacing(pos)) \o to
           S == {m \in Nat : m + 1 <= Len(sep) => FlattenSeq(Replacing(pos + (m + 1))) = w}
<1>3. w \in Seq(Chars)
  <2>1. FlattenSeq(Replacing(pos)) \in Seq(Chars)
    <3>1. \A k \in 1 .. pos : InPlaceOf(k) \in Seq(Chars)
      BY <1>0, InPlaceIsTyped
    <3>2. Replacing(pos) \in Seq(Seq(Chars))
      BY <1>0, <3>1 DEF Replacing
    <3> QED BY <1>0, <3>2, FlattenAppend
  <2> QED BY <1>0, <2>1
<1>4. FlattenSeq(Replacing(pos + 1)) = w
  <2>1. InPlaceOf(pos + 1) = to
    BY <1>1 DEF InPlaceOf
  <2>2. pos \in 0 .. Len(str) - 1
    BY <1>0
  <2> QED BY <2>1, <2>2, ReplacingOne
<1> HIDE DEF w
<1>5. 0 \in S
  BY <1>4
<1>6. ASSUME NEW m \in Nat, m \in S PROVE m + 1 \in S
  <2> SUFFICES ASSUME (m + 1) + 1 <= Len(sep)
               PROVE  FlattenSeq(Replacing(pos + ((m + 1) + 1))) = w
    OBVIOUS
  <2>1. FlattenSeq(Replacing(pos + (m + 1))) = w
    BY <1>0, <1>6
  <2>2. PICK n : n = pos + (m + 1)
    OBVIOUS
  <2>3. /\ n \in 0 .. Len(str) - 1 /\ n + 1 = pos + ((m + 1) + 1)
        /\ n + 1 \in pos + 2 .. pos + Len(sep)
    BY <1>0, <2>2
  <2>4. FlattenSeq(Replacing(n + 1)) = FlattenSeq(Replacing(n)) \o InPlaceOf(n + 1)
    BY <2>3, ReplacingOne
  <2>5. InPlaceOf(n + 1) = <<>> /\ FlattenSeq(Replacing(n)) = w
    BY <1>2, <2>1, <2>2, <2>3
  <2> QED BY <1>3, <2>3, <2>4, <2>5, ConcatNothing
<1>7. Nat \subseteq S
  <2> HIDE DEF S
  <2> QED BY <1>5, <1>6, NatSetInduction
<1>8. Len(sep) - 1 \in S /\ (Len(sep) - 1) + 1 = Len(sep)
  <2>1. Len(sep) - 1 \in Nat /\ (Len(sep) - 1) + 1 = Len(sep)
    BY <1>0
  <2> HIDE DEF S
  <2> QED BY <1>7, <2>1
<1> QED BY <1>0, <1>8 DEF w

LEMMA ReplacedFound == StrTypeOK => Replaced \subseteq FoundAt(1)
BY ReplacedExists

LEMMA ReplaceKeeps ==
    ASSUME StrInv, ReplaceInv, StringReplace PROVE ReplaceInv'
<1>0. /\ StrTypeOK /\ Len(str) \in Nat /\ pos \in 0 .. Len(str) /\ pos \in Nat
      /\ Len(sep) \in Nat /\ ended = FALSE
      /\ str' = str /\ sep' = sep /\ to' = to
  BY DEF StrInv, StrTypeOK, StringReplace
<1>1. /\ FoundAt(1)' = FoundAt(1) /\ \A k : Before(k)' = Before(k)
  BY <1>0 DEF FoundAt, Before
<1>2. Replaced' = Replaced
  BY <1>0 DEF Replaced, FoundAt, Before
<1>3. \A k : InPlaceOf(k)' = InPlaceOf(k)
  BY <1>0, <1>1, <1>2 DEF InPlaceOf
<1>4. \A n : Replacing(n)' = Replacing(n)
  BY <1>3, Zenon DEF Replacing
<1>5. CASE sep = <<>> /\ out' = str
  BY <1>0, <1>5 DEF ReplaceInv
<1>6. ASSUME sep # <<>>, NEW n \in 0 .. Len(str), pos' = n, out' = FlattenSeq(Replacing(n)),
             Replaced \cap Before(n + 1) = {}, ended' => n = Len(str)
      PROVE  ReplaceInv'
  <2>1. (Replaced \cap Before(pos + 1))' = Replaced \cap Before(n + 1)
    BY <1>0, <1>2, <1>6 DEF Before
  <2>2. FlattenSeq(Replacing(pos))' = FlattenSeq(Replacing(n))
    <3>1. Replacing(pos)' = Replacing(n)
      BY <1>3, <1>6, Zenon DEF Replacing
    <3> QED BY <3>1, Zenon
  <2> QED BY <1>0, <1>6, <2>1, <2>2, Zenon DEF ReplaceInv
<1>7. ASSUME sep # <<>>
      PROVE  out = FlattenSeq(Replacing(pos)) /\ Replaced \cap Before(pos + 1) = {}
  BY <1>7 DEF ReplaceInv
<1>8. pos + 1 \in FoundAt(pos + 1) <=> pos + 1 \in FoundAt(1)
  BY <1>0 DEF FoundAt
<1>9. CASE /\ sep # <<>>
           /\ pos + 1 \in FoundAt(pos + 1)
           /\ out' = out \o to
           /\ pos' = pos + Len(sep)
           /\ ended' = ended
  <2>1. FlattenSeq(Replacing(pos + Len(sep))) = FlattenSeq(Replacing(pos)) \o to
    BY <1>0, <1>7, <1>8, <1>9, ReplacingOccurrence
  <2>2. PICK n : n = pos + Len(sep)
    OBVIOUS
  <2>3. n \in 0 .. Len(str)
    BY <1>0, <1>9, <2>2 DEF FoundAt
  <2>4. Replaced \cap Before(n + 1) = {}
    <3>1. pos + 1 \in Replaced
      BY <1>0, <1>7, <1>8, <1>9, ReplacedExists
    <3>2. ASSUME NEW k \in Replaced, k \in Before(n + 1) PROVE FALSE
      <4>1. k \in pos + 2 .. pos + Len(sep)
        BY <1>0, <2>2, <3>2 DEF Before
      <4>2. pos + 1 \in Before(k)
        BY <1>0, <4>1 DEF Before
      <4> QED BY <1>0, <3>1, <3>2, <4>2, ReplacedExists
    <3> QED BY <3>2
  <2> QED BY <1>0, <1>6, <1>7, <1>9, <2>1, <2>2, <2>3, <2>4
<1>10. CASE /\ sep # <<>> /\ pos < Len(str)
            /\ pos + 1 \notin FoundAt(pos + 1)
            /\ out' = Append(out, str[pos + 1])
            /\ pos' = pos + 1
            /\ ended' = ended
  <2>1. InPlaceOf(pos + 1) = <<str[pos + 1]>>
    <3>1. pos + 1 \notin Replaced
      BY <1>0, <1>8, <1>10, ReplacedExists
    <3> QED BY <1>7, <1>10, <3>1 DEF InPlaceOf
  <2>2. PICK n : n = pos + 1
    OBVIOUS
  <2>3. n \in 0 .. Len(str) /\ pos \in 0 .. Len(str) - 1
    BY <1>0, <1>10, <2>2
  <2>4. out' = FlattenSeq(Replacing(n))
    <3>1. FlattenSeq(Replacing(pos + 1)) = out \o <<str[pos + 1]>>
      BY <1>0, <1>7, <1>10, <2>1, <2>3, ReplacingOne
    <3>2. out \in Seq(Chars) /\ str[pos + 1] \in Chars
      BY <1>0, <1>10 DEF StrTypeOK
    <3>3. Append(out, str[pos + 1]) = out \o <<str[pos + 1]>>
      BY <3>2, AppendIsConcat
    <3> QED BY <1>10, <2>2, <3>1, <3>3
  <2>5. Replaced \cap Before(n + 1) = {}
    <3>1. ASSUME NEW k \in Replaced, k \in Before(n + 1) PROVE FALSE
      <4>1. k \in Before(pos + 1) \/ k = pos + 1
        BY <1>0, <2>2, <3>1 DEF Before
      <4>2. k # pos + 1
        BY <1>0, <1>8, <1>10, <3>1, ReplacedExists
      <4> QED BY <1>7, <1>10, <3>1, <4>1, <4>2
    <3> QED BY <3>1
  <2> QED BY <1>0, <1>6, <1>10, <2>2, <2>3, <2>4, <2>5
<1>11. CASE sep # <<>> /\ pos = Len(str) /\ ended' = TRUE /\ UNCHANGED <<out, pos>>
  <2>1. PICK n : n = pos
    OBVIOUS
  <2> QED BY <1>0, <1>6, <1>7, <1>11, <2>1
<1> QED BY <1>5, <1>9, <1>10, <1>11 DEF StringReplace

-----------------------------------------------------------------------------
(* CStrings: trim's two ends, and all four functions.                       *)

TrimInv ==
    /\ \A k \in 1 .. Len(str) : k <= pos \/ k > fin => IsSep(k)
    /\ ended => /\ pos < fin => ~IsSep(pos + 1) /\ ~IsSep(fin)
                /\ out = SubSeq(str, pos + 1, fin)

LEMMA TrimKeeps ==
    ASSUME StrInv, TrimInv, fn = "trim", Trim PROVE TrimInv'
<1>0. /\ Len(str) \in Nat /\ pos \in 0 .. Len(str) /\ fin \in 0 .. Len(str) /\ pos <= fin
      /\ ended = FALSE /\ str' = str /\ sep' = sep
      /\ \A k \in 1 .. Len(str) : k <= pos \/ k > fin => IsSep(k)
  BY DEF StrInv, StrTypeOK, WalkInv, Trim, TrimInv
<1>1. \A k : IsSep(k)' = IsSep(k)
  BY <1>0 DEF IsSep
<1>2. CASE IsSep(pos + 1) /\ pos' = pos + 1 /\ UNCHANGED <<fin, ended>>
  <2>1. \A k \in 1 .. Len(str) : k <= pos + 1 \/ k > fin => IsSep(k)
    BY <1>0, <1>2
  <2> QED BY <1>0, <1>1, <1>2, <2>1 DEF TrimInv
<1>3. CASE IsSep(fin) /\ fin' = fin - 1 /\ UNCHANGED <<pos, ended>>
  <2>1. \A k \in 1 .. Len(str) : k <= pos \/ k > fin - 1 => IsSep(k)
    BY <1>0, <1>3
  <2> QED BY <1>0, <1>1, <1>3, <2>1 DEF TrimInv
<1>4. CASE /\ ~(pos < fin /\ IsSep(pos + 1)) /\ ~(fin > pos /\ IsSep(fin))
           /\ out' = SubSeq(str, pos + 1, fin) /\ UNCHANGED <<pos, fin>>
  <2>1. pos < fin => ~IsSep(pos + 1) /\ ~IsSep(fin)
    BY <1>0, <1>4
  <2>2. IsSep(pos + 1)' = IsSep(pos + 1) /\ IsSep(fin)' = IsSep(fin)
    BY <1>0, <1>4 DEF IsSep
  <2> QED BY <1>0, <1>1, <1>4, <2>1, <2>2 DEF TrimInv
<1> QED BY <1>2, <1>3, <1>4 DEF Trim

LEMMA TrimIsRight ==
    ASSUME StrInv, TrimInv, fn = "trim", ended PROVE EndsTrimmed
<1>0. /\ Len(str) \in Nat /\ pos \in 0 .. Len(str) /\ fin \in 0 .. Len(str) /\ pos <= fin
      /\ str \in Seq(Chars) /\ out = SubSeq(str, pos + 1, fin)
      /\ pos < fin => ~IsSep(pos + 1) /\ ~IsSep(fin)
      /\ \A k \in 1 .. Len(str) : k <= pos \/ k > fin => IsSep(k)
  BY DEF StrInv, StrTypeOK, WalkInv, TrimInv
<1>1. /\ Len(out) = fin - pos /\ DOMAIN out = 1 .. fin - pos
      /\ \A i \in 1 .. fin - pos : out[i] = str[pos + i]
  BY <1>0
<1>2. \A k \in {1, Len(out)} \cap DOMAIN out : out[k] \notin ToSet(sep)
  <2> SUFFICES ASSUME NEW k \in {1, Len(out)} \cap DOMAIN out PROVE out[k] \notin ToSet(sep)
    OBVIOUS
  <2>1. pos < fin /\ (k = 1 \/ k = fin - pos) /\ out[k] = str[pos + k]
    BY <1>0, <1>1
  <2>2. pos + (fin - pos) = fin
    BY <1>0
  <2> QED BY <1>0, <2>1, <2>2 DEF IsSep
<1>3. pos + Len(out) = fin
  BY <1>0, <1>1
<1> QED BY <1>0, <1>2, <1>3 DEF EndsTrimmed

PieceInv ==
    /\ StrInv
    /\ fn = "strtok" => StrtokInv
    /\ fn = "strtokIncludingDelimiters" => IncludingInv
    /\ fn = "stringReplace" => ReplaceInv
    /\ fn = "trim" => TrimInv

LEMMA PieceInitially == StrInit => PieceInv
BY StrInitially DEF StrInit, PieceInv

\* A call that begins has done nothing yet.
LEMMA PiecesBegin == ASSUME StrInv, CallString PROVE PieceInv'
<1>0. StrInv'
  BY StrInductive DEF StrNext
<1>1. /\ pos' = 0 /\ fin' = Len(str') /\ toks' = <<>> /\ out' = <<>> /\ ended' = FALSE
      /\ str' \in Seq(Chars) /\ Len(str') \in Nat /\ sep' \in Seq(Chars)
  BY StringsAssumption DEF CallString
<1>2. Len(toks') = 0 /\ FlattenSeq(<<>>) = <<>>
  BY <1>1 DEF FlattenSeq
<1>3. StrtokInv'
  <2>1. \A j : j \notin {i \in RunStarts' : i <= 0}
    BY <1>1 DEF RunStarts
  <2>2. RunsUpTo(pos)' = {}
    BY <1>1, <2>1, Zenon DEF RunsUpTo
  <2>3. Cardinality({}) = 0
    BY FS_EmptySet
  <2> QED BY <1>1, <1>2, <2>2, <2>3 DEF StrtokInv
<1>4. IncludingInv'
  <2>1. SubSeq(str', 1, 0) = <<>>
    BY <1>1, WholeString
  <2>2. \A n \in 1 .. Len(toks') : FALSE
    BY <1>2
  <2> QED BY <1>1, <1>2, <2>1, <2>2 DEF IncludingInv
<1>5. ReplaceInv'
  <2>1. FlattenSeq(Replacing(pos))' = <<>>
    <3>1. Replacing(pos)' = <<>>
      BY <1>1 DEF Replacing
    <3> QED BY <1>2, <3>1, Zenon
  <2>2. (Replaced \cap Before(pos + 1))' = {}
    <3>1. Replaced' \subseteq FoundAt(1)'
      <4>1. StrTypeOK'
        BY <1>0 DEF StrInv
      <4>2. (StrTypeOK => Replaced \subseteq FoundAt(1))'
        BY ReplacedFound, PTL
      <4> QED BY <4>1, <4>2
    <3>2. \A k \in FoundAt(1)' : k \in Int /\ k >= 1
      BY <1>1 DEF FoundAt
    <3>3. \A k \in Before(pos + 1)' : k < 1
      BY <1>1 DEF Before
    <3> QED BY <3>1, <3>2, <3>3
  <2> QED BY <1>1, <2>1, <2>2 DEF ReplaceInv
<1>6. TrimInv'
  BY <1>1 DEF TrimInv
<1> QED BY <1>0, <1>3, <1>4, <1>5, <1>6 DEF PieceInv

LEMMA PieceInductive ==
    ASSUME PieceInv, [StrNext]_strVars PROVE PieceInv'
<1>0. StrInv /\ StrInv'
  BY StrInductive DEF PieceInv
<1>1. CASE CallString
  BY <1>0, <1>1, PiecesBegin
<1>2. CASE Strtok
  <2>1. fn = "strtok" /\ fn' = "strtok"
    BY <1>2 DEF Strtok, Finish
  <2> QED BY <1>0, <1>2, <2>1, StrtokKeeps DEF PieceInv
<1>3. CASE StrtokIncludingDelimiters
  <2>1. fn = "strtokIncludingDelimiters" /\ fn' = fn
    BY <1>3 DEF StrtokIncludingDelimiters, Finish
  <2> QED BY <1>0, <1>3, <2>1, IncludingKeeps DEF PieceInv
<1>4. CASE StringReplace
  <2>1. fn = "stringReplace" /\ fn' = fn
    BY <1>4 DEF StringReplace
  <2> QED BY <1>0, <1>4, <2>1, ReplaceKeeps DEF PieceInv
<1>5. CASE Trim
  <2>1. fn = "trim" /\ fn' = fn
    BY <1>5 DEF Trim
  <2> QED BY <1>0, <1>5, <2>1, TrimKeeps DEF PieceInv
<1>6. CASE ReturnString
  <2>1. fn' = "idle"
    BY <1>6 DEF ReturnString
  <2> QED BY <1>0, <2>1 DEF PieceInv
<1>7. CASE UNCHANGED strVars
  <2>1. /\ StrtokInv' = StrtokInv /\ IncludingInv' = IncludingInv
        /\ ReplaceInv' = ReplaceInv /\ TrimInv' = TrimInv /\ fn' = fn
    BY <1>7 DEF strVars, StrtokInv, IncludingInv, ReplaceInv, TrimInv, RunsUpTo, RunStarts,
                RunFrom, IsSep, Replacing, InPlaceOf, Replaced, Before, FoundAt
  <2> QED BY <1>0, <2>1 DEF PieceInv
<1> QED BY <1>1, <1>2, <1>3, <1>4, <1>5, <1>6, <1>7 DEF StrNext, Turn

\* PiecesRight: what the four functions return is what their names promise, for any
\* strings and separators.
THEOREM PiecesCorrect == StrSpec => []PiecesRight
<1>1. ASSUME PieceInv, ended PROVE PiecesRight
  <2>0. StrInv /\ StrTypeOK /\ fn # "idle" /\ fn \in StrFunctions
    BY <1>1 DEF PieceInv, StrInv, WalkInv, StrTypeOK
  <2>1. CASE fn = "strtok"
    BY <1>1, <2>0, <2>1, StrtokIsRight DEF PieceInv, PiecesRight
  <2>2. CASE fn = "strtokIncludingDelimiters"
    BY <1>1, <2>2 DEF PieceInv, PiecesRight, IncludingInv, PiecesOfSource, IsPiece
  <2>3. CASE fn = "stringReplace"
    BY <1>1, <2>3 DEF PieceInv, PiecesRight, ReplaceInv, EachReplaced, Replacing
  <2>4. CASE fn = "trim"
    BY <1>1, <2>0, <2>4, TrimIsRight DEF PieceInv, PiecesRight
  <2> QED BY <2>0, <2>1, <2>2, <2>3, <2>4 DEF StrFunctions
<1>2. PieceInv => PiecesRight
  BY <1>1 DEF PiecesRight
<1> QED BY <1>2, PieceInitially, PieceInductive, PTL DEF StrSpec

-----------------------------------------------------------------------------
(* Blas.  The two running indices are where their loop began plus a stride *)
(* for each turn, and after so many turns a routine has done what it does  *)
(* to so many elements.                                                    *)

BlasInv ==
    /\ calls \subseteq Call
    /\ step \in Nat /\ ix \in Int /\ iy \in Int
    /\ xs \in [0 .. Extent -> Int] /\ ys \in [0 .. Extent -> Int]
    /\ total \in Int
    /\ norm \in [scale : Nat, num : Nat, den : Nat \ {0}]
    /\ \A c, d \in calls : c = d
    /\ \A c \in calls :
          /\ Usable(c)
          /\ step <= Turns(c)
          /\ Skipped(c) => step = 0
          /\ ix = BeginX(c) + step * c.sx
          /\ iy = Begin(c.n, c.sy) + step * c.sy
          /\ RightAfter(c, step)

LEMMA CallIsTyped ==
    ASSUME NEW c \in Call
    PROVE  /\ c.op \in {"dcopy", "ddot", "daxpy", "dscal", "dnrm2"}
           /\ c.n \in Int /\ c.sx \in Int /\ c.sy \in Int /\ c.a \in Int
           /\ c.x \in [0 .. Extent -> Int] /\ c.y \in [0 .. Extent -> Int]
           /\ Begin(c.n, c.sx) \in Int /\ Begin(c.n, c.sy) \in Int /\ BeginX(c) \in Int
           /\ Turns(c) \in Nat
           /\ c.n > 0 => /\ (c.n - 1) * c.sx \in -Extent .. Extent
                         /\ (c.n - 1) * c.sy \in -Extent .. Extent
<1>1. /\ c.op \in Routines /\ c.n \in Lengths /\ c.sx \in Strides /\ c.sy \in Strides
      /\ c.a \in Factors /\ c.x \in Vectors /\ c.y \in Vectors
  BY DEF Call
<1>2. /\ c.n \in Int /\ c.sx \in Int /\ c.sy \in Int /\ c.a \in Int
      /\ c.x \in [0 .. Extent -> Int] /\ c.y \in [0 .. Extent -> Int]
  BY <1>1, BlasAssumption
<1>3. c.op \in {"dcopy", "ddot", "daxpy", "dscal", "dnrm2"}
  BY <1>1, BlasAssumption
<1>4. c.n > 0 => /\ (c.n - 1) * c.sx \in -Extent .. Extent
                 /\ (c.n - 1) * c.sy \in -Extent .. Extent
  BY <1>1, BlasAssumption
<1> QED BY <1>2, <1>3, <1>4 DEF Begin, BeginX, Turns

LEMMA OneMoreStride ==
    ASSUME NEW b \in Int, NEW s \in Int, NEW k \in Nat
    PROVE  b + (k + 1) * s = (b + k * s) + s
OBVIOUS

LEMMA StrideFromBegin ==
    ASSUME NEW n \in Int, NEW s \in Int, NEW k \in Int
    PROVE  Begin(n, s) + k * s = Cell(n, s, k)
<1>1. CASE s >= 0
  BY <1>1 DEF Begin, Cell
<1>2. CASE s < 0
  <2>1. (1 - n) * s + k * s = (n - 1 - k) * (-s)
    OBVIOUS
  <2> QED BY <1>2, <2>1 DEF Begin, Cell
<1> QED BY <1>1, <1>2

LEMMA ProductGrows ==
    ASSUME NEW a \in Nat, NEW b \in Nat, a <= b, NEW s \in Nat
    PROVE  a * s \in Nat /\ a * s <= b * s
<1>1. PICK d \in Nat : b = a + d
  <2>1. b - a \in Nat /\ b = a + (b - a)
    OBVIOUS
  <2> QED BY <2>1
<1>2. (a + d) * s = a * s + d * s /\ a * s \in Nat /\ d * s \in Nat
  OBVIOUS
<1> QED BY <1>1, <1>2

\* An element the strides choose is inside the vector that was passed.
LEMMA CellInside ==
    ASSUME NEW n \in Int, NEW s \in Int, n > 0, (n - 1) * s \in -Extent .. Extent,
           NEW k \in 0 .. n - 1
    PROVE  Cell(n, s, k) \in 0 .. Extent
<1> USE BlasAssumption
<1>1. CASE s >= 0
  <2>1. k * s \in Nat /\ k * s <= (n - 1) * s
    <3>1. k \in Nat /\ n - 1 \in Nat /\ k <= n - 1 /\ s \in Nat
      BY <1>1
    <3> QED BY <3>1, ProductGrows
  <2> QED BY <1>1, <2>1 DEF Cell
<1>2. CASE s < 0
  <2>1. (n - 1 - k) * (-s) \in Nat /\ (n - 1 - k) * (-s) <= (n - 1) * (-s)
    <3>1. n - 1 - k \in Nat /\ n - 1 \in Nat /\ n - 1 - k <= n - 1 /\ -s \in Nat
      BY <1>2
    <3> QED BY <3>1, ProductGrows
  <2>2. (n - 1) * (-s) = -((n - 1) * s)
    OBVIOUS
  <2> QED BY <1>2, <2>1, <2>2 DEF Cell
<1> QED BY <1>1, <1>2

\* With a stride every element has a cell of its own.
LEMMA CellsDiffer ==
    ASSUME NEW n \in Int, NEW s \in Int, s > 0, NEW k \in Nat, NEW m \in Nat, k < m
    PROVE  Cell(n, s, k) # Cell(n, s, m)
<1>1. PICK d \in Nat : m = k + 1 + d
  <2>1. m - k - 1 \in Nat /\ m = k + 1 + (m - k - 1)
    OBVIOUS
  <2> QED BY <2>1
<1>2. (k + 1 + d) * s = k * s + s + d * s /\ d * s \in Nat /\ k * s \in Int
  OBVIOUS
<1> QED BY <1>1, <1>2 DEF Cell

\* The partial sums: none is 0, and each term is added once.
LEMMA SumsAdd ==
    ASSUME NEW n \in Nat, NEW f \in [0 .. n - 1 -> Int]
    PROVE  /\ Sums(f, n) \in [0 .. n -> Int]
           /\ Sums(f, n)[0] = 0
           /\ \A k \in 0 .. n - 1 : Sums(f, n)[k + 1] = Sums(f, n)[k] + f[k]
<1> DEFINE h == [k \in 0 .. n - 1 |-> [v \in Int |-> v + f[k]]]
           IsSum(s) == s = [k \in 0 .. n |-> IF k = 0 THEN 0 ELSE s[k - 1] + f[k - 1]]
<1>1. h \in StepFunctions(Int, n) /\ 0 \in Int
  BY DEF StepFunctions
<1>2. PICK s : RecursionOf(s, Int, 0, n, h)
  <2> HIDE DEF h
  <2> QED BY <1>1, BoundedRecursion, Zenon
<1>20. s \in [0 .. n -> Int] /\ s[0] = 0 /\ \A k \in 0 .. n - 1 : s[k + 1] = h[k][s[k]]
  BY <1>2 DEF RecursionOf
<1>3. \A k \in 0 .. n : s[k] = IF k = 0 THEN 0 ELSE s[k - 1] + f[k - 1]
  <2> SUFFICES ASSUME NEW k \in 1 .. n PROVE s[k] = s[k - 1] + f[k - 1]
    BY <1>20
  <2>1. k - 1 \in 0 .. n - 1 /\ (k - 1) + 1 = k /\ s[k - 1] \in Int
    BY <1>20
  <2>2. s[k] = h[k - 1][s[k - 1]]
    BY <1>20, <2>1
  <2> QED BY <2>1, <2>2
<1>4. IsSum(s)
  BY <1>20, <1>3
<1>5. Sums(f, n) = CHOOSE g : IsSum(g)
  BY DEF Sums
<1>6. IsSum(Sums(f, n))
  <2> HIDE DEF IsSum
  <2> QED BY <1>4, <1>5
<1> DEFINE g == Sums(f, n)
<1>7. \A k \in 0 .. n : g[k] = IF k = 0 THEN 0 ELSE g[k - 1] + f[k - 1]
  BY <1>6
<1>8. g[0] = 0 /\ \A k \in 0 .. n - 1 : g[k + 1] = g[k] + f[k]
  <2>1. \A k \in 0 .. n - 1 : k + 1 \in 0 .. n /\ k + 1 # 0 /\ (k + 1) - 1 = k
    OBVIOUS
  <2> HIDE DEF g
  <2>2. g[0] = 0
    BY <1>7
  <2>3. ASSUME NEW k \in 0 .. n - 1 PROVE g[k + 1] = g[k] + f[k]
    BY <1>7, <2>1
  <2> QED BY <2>2, <2>3
<1>9. \A k \in Nat : k \in 0 .. n => g[k] \in Int
  <2> DEFINE S == {k \in Nat : k \in 0 .. n => g[k] \in Int}
  <2> HIDE DEF g
  <2>1. 0 \in S
    BY <1>8
  <2>2. ASSUME NEW k \in Nat, k \in S PROVE k + 1 \in S
    <3> SUFFICES ASSUME k + 1 \in 0 .. n PROVE g[k + 1] \in Int
      OBVIOUS
    <3>0. k \in 0 .. n - 1 /\ k \in 0 .. n
      OBVIOUS
    <3>1. g[k] \in Int /\ f[k] \in Int
      BY <2>2, <3>0
    <3>2. g[k + 1] = g[k] + f[k]
      BY <1>8, <3>0
    <3> QED BY <3>1, <3>2
  <2> HIDE DEF S
  <2>3. Nat \subseteq S
    BY <2>1, <2>2, NatSetInduction
  <2> QED BY <2>3 DEF S
<1>10. g \in [0 .. n -> Int]
  BY <1>6, <1>9
<1> QED BY <1>8, <1>10

\* The element of turn m is added to those of its cell, and to no others.
LEMMA OneMoreElement ==
    ASSUME NEW n \in Int, NEW s \in Int, NEW m \in Nat, NEW i
    PROVE  In(m + 1, n, s, i) = IF Cell(n, s, m) = i THEN In(m, n, s, i) \cup {m}
                                ELSE In(m, n, s, i)
<1>1. 0 .. (m + 1) - 1 = (0 .. m - 1) \cup {m} /\ m \notin 0 .. m - 1
  OBVIOUS
<1> QED BY <1>1, Zenon DEF In

LEMMA LastElement ==
    ASSUME NEW m \in Nat, NEW K \in SUBSET (0 .. m - 1)
    PROVE  Max(K \cup {m}) = m
<1>1. m \in K \cup {m} /\ \A y \in K \cup {m} : m >= y
  OBVIOUS
<1>2. \A x \in K \cup {m} : (\A y \in K \cup {m} : x >= y) => x = m
  OBVIOUS
<1> QED BY <1>1, <1>2 DEF Max

\* What one turn adds to what each routine has done.
LEMMA OneTurnCopies ==
    ASSUME NEW c \in Call, NEW m \in Nat
    PROVE  Copied(c, m + 1) = [Copied(c, m) EXCEPT ![Cell(c.n, c.sy, m)] = XAt(c, m)]
<1> DEFINE j == Cell(c.n, c.sy, m)
<1>1. c.n \in Int /\ c.sy \in Int
  BY CallIsTyped
<1>2. ASSUME NEW i \in 0 .. Extent, i # j PROVE Copied(c, m + 1)[i] = Copied(c, m)[i]
  <2>1. In(m + 1, c.n, c.sy, i) = In(m, c.n, c.sy, i)
    <3>1. \A e : In(m + 1, c.n, c.sy, e) = IF Cell(c.n, c.sy, m) = e THEN In(m, c.n, c.sy, e) \cup {m}
                                          ELSE In(m, c.n, c.sy, e)
      BY <1>1, OneMoreElement, Zenon
    <3> QED BY <1>2, <3>1, Zenon
  <2> QED BY <2>1 DEF Copied
<1>3. ASSUME j \in 0 .. Extent PROVE Copied(c, m + 1)[j] = XAt(c, m)
  <2>1. In(m + 1, c.n, c.sy, j) = In(m, c.n, c.sy, j) \cup {m}
    BY <1>1, OneMoreElement
  <2>2. Max(In(m, c.n, c.sy, j) \cup {m}) = m
    BY LastElement DEF In
  <2> HIDE DEF j
  <2> QED BY <1>3, <2>1, <2>2 DEF Copied
<1>4. /\ Copied(c, m + 1) = [i \in 0 .. Extent |-> Copied(c, m + 1)[i]]
      /\ Copied(c, m) = [i \in 0 .. Extent |-> Copied(c, m)[i]]
  BY DEF Copied
<1> HIDE DEF j
<1> QED BY <1>2, <1>3, <1>4 DEF j

LEMMA OneTurnScales ==
    ASSUME NEW c \in Call, NEW m \in Nat, c.sx > 0
    PROVE  Scaled(c, m + 1) = [Scaled(c, m) EXCEPT ![Cell(c.n, c.sx, m)] = c.a * @]
<1> DEFINE j == Cell(c.n, c.sx, m)
<1>1. c.n \in Int /\ c.sx \in Int
  BY CallIsTyped
<1>2. ASSUME NEW i \in 0 .. Extent, i # j PROVE Scaled(c, m + 1)[i] = Scaled(c, m)[i]
  <2>1. In(m + 1, c.n, c.sx, i) = In(m, c.n, c.sx, i)
    <3>1. \A e : In(m + 1, c.n, c.sx, e) = IF Cell(c.n, c.sx, m) = e THEN In(m, c.n, c.sx, e) \cup {m}
                                          ELSE In(m, c.n, c.sx, e)
      BY <1>1, OneMoreElement, Zenon
    <3> QED BY <1>2, <3>1, Zenon
  <2> QED BY <2>1 DEF Scaled
<1>3. ASSUME j \in 0 .. Extent PROVE Scaled(c, m + 1)[j] = c.a * Scaled(c, m)[j]
  <2>1. In(m + 1, c.n, c.sx, j) = In(m, c.n, c.sx, j) \cup {m}
    BY <1>1, OneMoreElement
  <2>2. In(m, c.n, c.sx, j) = {}
    <3>1. \A k \in 0 .. m - 1 : k \in Nat /\ k < m
      OBVIOUS
    <3> QED BY <1>1, <3>1, CellsDiffer DEF In
  <2> HIDE DEF j
  <2> QED BY <1>3, <2>1, <2>2 DEF Scaled
<1>4. /\ Scaled(c, m + 1) = [i \in 0 .. Extent |-> Scaled(c, m + 1)[i]]
      /\ Scaled(c, m) = [i \in 0 .. Extent |-> Scaled(c, m)[i]]
  BY DEF Scaled
<1> HIDE DEF j
<1> QED BY <1>2, <1>3, <1>4 DEF j

\* An element within its vector is a number.
LEMMA ElementsAreNumbers ==
    ASSUME NEW c \in Call, NEW k \in 0 .. Turns(c) - 1
    PROVE  /\ Cell(c.n, c.sx, k) \in 0 .. Extent /\ Cell(c.n, c.sy, k) \in 0 .. Extent
           /\ XAt(c, k) \in Int /\ YAt(c, k) \in Int
<1>1. c.n > 0 /\ k \in 0 .. c.n - 1
  BY CallIsTyped DEF Turns
<1>2. Cell(c.n, c.sx, k) \in 0 .. Extent /\ Cell(c.n, c.sy, k) \in 0 .. Extent
  BY <1>1, CallIsTyped, CellInside
<1> QED BY <1>2, CallIsTyped DEF XAt, YAt

LEMMA Distributes ==
    ASSUME NEW y \in Int, NEW a \in Int, NEW s \in Int, NEW x \in Int
    PROVE  y + a * (s + x) = (y + a * s) + a * x /\ s + 0 = s
OBVIOUS

LEMMA OneTurnAdds ==
    ASSUME NEW c \in Call, NEW m \in 0 .. Turns(c) - 1
    PROVE  Added(c, m + 1) = [Added(c, m) EXCEPT ![Cell(c.n, c.sy, m)] = @ + c.a * XAt(c, m)]
<1> DEFINE j == Cell(c.n, c.sy, m)
           F(i) == [k \in 0 .. Turns(c) - 1 |->
                        IF Cell(c.n, c.sy, k) = i THEN XAt(c, k) ELSE 0]
           S(i) == Sums(F(i), Turns(c))
<1>1. Turns(c) \in Nat /\ c.a \in Int /\ XAt(c, m) \in Int
  BY CallIsTyped, ElementsAreNumbers
<1>2. ASSUME NEW i PROVE S(i)[m] \in Int /\ S(i)[m + 1] = S(i)[m] + F(i)[m]
  <2>1. F(i) \in [0 .. Turns(c) - 1 -> Int]
    BY ElementsAreNumbers
  <2>2. m \in 0 .. Turns(c)
    BY <1>1
  <2> HIDE DEF F
  <2> QED BY <1>1, <2>1, <2>2, SumsAdd
<1>3. \A i : F(i)[m] = IF j = i THEN XAt(c, m) ELSE 0
  OBVIOUS
<1>4. \A k : Added(c, k) = [i \in 0 .. Extent |-> c.y[i] + c.a * S(i)[k]]
  BY DEF Added
<1> HIDE DEF S, F, j
<1>5. ASSUME NEW i \in 0 .. Extent, i # j PROVE Added(c, m + 1)[i] = Added(c, m)[i]
  <2>1. S(i)[m + 1] = S(i)[m]
    <3>1. S(i)[m] \in Int /\ S(i)[m + 1] = S(i)[m] + F(i)[m] /\ F(i)[m] = 0
      BY <1>2, <1>3, <1>5
    <3> QED BY <3>1
  <2>2. /\ Added(c, m + 1)[i] = c.y[i] + c.a * S(i)[m + 1]
        /\ Added(c, m)[i] = c.y[i] + c.a * S(i)[m]
    BY <1>4, <1>5
  <2> QED BY <2>1, <2>2
<1>6. ASSUME j \in 0 .. Extent PROVE Added(c, m + 1)[j] = Added(c, m)[j] + c.a * XAt(c, m)
  <2>1. S(j)[m] \in Int /\ S(j)[m + 1] = S(j)[m] + XAt(c, m)
    BY <1>2, <1>3
  <2>2. c.y[j] \in Int
    BY <1>6, CallIsTyped
  <2>3. /\ Added(c, m + 1)[j] = c.y[j] + c.a * S(j)[m + 1]
        /\ Added(c, m)[j] = c.y[j] + c.a * S(j)[m]
    BY <1>4, <1>6
  <2> QED BY <1>1, <2>1, <2>2, <2>3, Distributes
<1>7. /\ Added(c, m + 1) = [i \in 0 .. Extent |-> Added(c, m + 1)[i]]
      /\ Added(c, m) = [i \in 0 .. Extent |-> Added(c, m)[i]]
  BY <1>4
<1> QED BY <1>5, <1>6, <1>7 DEF j

LEMMA OneTurnSums ==
    ASSUME NEW c \in Call, NEW m \in 0 .. Turns(c) - 1
    PROVE  /\ Products(c)[m + 1] = Products(c)[m] + XAt(c, m) * YAt(c, m)
           /\ Squares(c)[m + 1] = Squares(c)[m] + Square(XAt(c, m))
           /\ Products(c)[m] \in Int /\ Squares(c)[m] \in Int
<1> DEFINE f == [k \in 0 .. Turns(c) - 1 |-> XAt(c, k) * YAt(c, k)]
           g == [k \in 0 .. Turns(c) - 1 |-> Square(XAt(c, k))]
<1>1. Turns(c) \in Nat /\ m \in 0 .. Turns(c)
  BY CallIsTyped
<1>2. f \in [0 .. Turns(c) - 1 -> Int] /\ g \in [0 .. Turns(c) - 1 -> Int]
  BY ElementsAreNumbers DEF Square
<1>3. /\ Products(c) = Sums(f, Turns(c)) /\ Squares(c) = Sums(g, Turns(c))
      /\ f[m] = XAt(c, m) * YAt(c, m) /\ g[m] = Square(XAt(c, m))
  BY DEF Products, Squares
<1> HIDE DEF f, g
<1>4. /\ Sums(f, Turns(c))[m + 1] = Sums(f, Turns(c))[m] + f[m]
      /\ Sums(g, Turns(c))[m + 1] = Sums(g, Turns(c))[m] + g[m]
      /\ Sums(f, Turns(c))[m] \in Int /\ Sums(g, Turns(c))[m] \in Int
  BY <1>1, <1>2, SumsAdd
<1> QED BY <1>3, <1>4

\* Before the first turn nothing is done.
LEMMA NothingDone ==
    ASSUME NEW c \in Call
    PROVE  /\ Copied(c, 0) = c.y /\ Scaled(c, 0) = c.x /\ Added(c, 0) = c.y
           /\ Products(c)[0] = 0 /\ Squares(c)[0] = 0
<1>1. /\ c.x \in [0 .. Extent -> Int] /\ c.y \in [0 .. Extent -> Int]
      /\ Turns(c) \in Nat /\ c.a \in Int
  BY CallIsTyped
<1>2. \A n, s, i : In(0, n, s, i) = {}
  <2>1. 0 .. 0 - 1 = {}
    OBVIOUS
  <2> QED BY <2>1, Zenon DEF In
<1>3. Copied(c, 0) = c.y /\ Scaled(c, 0) = c.x
  BY <1>1, <1>2 DEF Copied, Scaled
<1>4. ASSUME NEW f \in [0 .. Turns(c) - 1 -> Int] PROVE Sums(f, Turns(c))[0] = 0
  BY <1>1, SumsAdd
<1>5. Products(c)[0] = 0 /\ Squares(c)[0] = 0
  <2>1. /\ [k \in 0 .. Turns(c) - 1 |-> XAt(c, k) * YAt(c, k)] \in [0 .. Turns(c) - 1 -> Int]
        /\ [k \in 0 .. Turns(c) - 1 |-> Square(XAt(c, k))] \in [0 .. Turns(c) - 1 -> Int]
    BY ElementsAreNumbers DEF Square
  <2> QED BY <1>4, <2>1, Zenon DEF Products, Squares
<1>6. Added(c, 0) = c.y
  <2> DEFINE F(i) == [k \in 0 .. Turns(c) - 1 |->
                          IF Cell(c.n, c.sy, k) = i THEN XAt(c, k) ELSE 0]
  <2>1. ASSUME NEW i PROVE Sums(F(i), Turns(c))[0] = 0
    <3>1. F(i) \in [0 .. Turns(c) - 1 -> Int]
      BY ElementsAreNumbers
    <3> HIDE DEF F
    <3> QED BY <1>4, <3>1
  <2>2. Added(c, 0) = [i \in 0 .. Extent |-> c.y[i] + c.a * Sums(F(i), Turns(c))[0]]
    BY DEF Added
  <2> HIDE DEF F
  <2>3. \A i \in 0 .. Extent : c.y[i] + c.a * Sums(F(i), Turns(c))[0] = c.y[i]
    <3>1. \A y \in Int, a \in Int : y + a * 0 = y
      OBVIOUS
    <3> QED BY <1>1, <2>1, <3>1
  <2> QED BY <1>1, <2>2, <2>3
<1> QED BY <1>3, <1>5, <1>6

\* daxpy by zero, which returns at once, would change nothing.
LEMMA AddedByZero ==
    ASSUME NEW c \in Call, c.a = 0
    PROVE  Added(c, Turns(c)) = c.y
<1> DEFINE F(i) == [k \in 0 .. Turns(c) - 1 |->
                        IF Cell(c.n, c.sy, k) = i THEN XAt(c, k) ELSE 0]
           S(i) == Sums(F(i), Turns(c))
<1>1. c.y \in [0 .. Extent -> Int] /\ Turns(c) \in Nat /\ Turns(c) \in 0 .. Turns(c)
  BY CallIsTyped
<1>2. ASSUME NEW i PROVE S(i)[Turns(c)] \in Int
  <2>1. F(i) \in [0 .. Turns(c) - 1 -> Int]
    BY ElementsAreNumbers
  <2> HIDE DEF F
  <2> QED BY <1>1, <2>1, SumsAdd
<1>3. Added(c, Turns(c)) = [i \in 0 .. Extent |-> c.y[i] + c.a * S(i)[Turns(c)]]
  BY DEF Added
<1> HIDE DEF S
<1>4. \A i \in 0 .. Extent : c.y[i] + c.a * S(i)[Turns(c)] = c.y[i]
  <2>1. \A y \in Int, s \in Int : y + 0 * s = y
    OBVIOUS
  <2> QED BY <1>1, <1>2, <2>1
<1> QED BY <1>1, <1>3, <1>4

LEMMA SquareOfAbsolute ==
    ASSUME NEW x \in Int
    PROVE  /\ Square(Absolute(x)) = Square(x) /\ Absolute(x) \in Nat
           /\ x # 0 => Absolute(x) # 0
           /\ x = 0 => Square(x) = 0
<1>1. (-x) * (-x) = x * x
  OBVIOUS
<1> QED BY <1>1 DEF Square, Absolute

LEMMA Rescale ==
    ASSUME NEW a \in Int, NEW d \in Int, NEW q \in Int, NEW e \in Int, NEW s \in Int, a = d * q
    PROVE  (a + d * e) * s = (d * s) * (q + e)
<1>1. (d * q + d * e) * s = (d * s) * (q + e)
  OBVIOUS
<1> QED BY <1>1

LEMMA PositiveProduct ==
    ASSUME NEW a \in Nat \ {0}, NEW b \in Nat \ {0} PROVE a * b \in Nat \ {0}
<1>1. PICK k \in Nat : b = k + 1
  <2>1. b - 1 \in Nat /\ b = (b - 1) + 1
    OBVIOUS
  <2> QED BY <2>1
<1>2. a * (k + 1) = a * k + a /\ a * k \in Nat
  OBVIOUS
<1> QED BY <1>1, <1>2

\* One element more in dnrm2's scale and ssq: the sum of the squares they stand for has
\* its square more.
LEMMA SquareIsAdded ==
    ASSUME NEW v \in [scale : Nat, num : Nat, den : Nat \ {0}], NEW e \in Nat \ {0},
           NEW q \in Int, v.num * Square(v.scale) = v.den * q
    PROVE  LET w == AddSquare(v, e) IN
           /\ w \in [scale : Nat, num : Nat, den : Nat \ {0}]
           /\ w.num * Square(w.scale) = w.den * (q + Square(e))
<1> DEFINE s == IF v.scale < e THEN e ELSE v.scale
           w == AddSquare(v, e)
<1>1. v.scale \in Nat /\ v.num \in Nat /\ v.den \in Nat \ {0} /\ s \in Nat \ {0}
  OBVIOUS
<1>2. w = [scale |-> s, num |-> v.num * Square(v.scale) + v.den * Square(e),
           den |-> v.den * Square(s)]
  BY DEF AddSquare
<1> HIDE DEF s, w
<1>3. /\ Square(s) \in Nat \ {0} /\ Square(e) \in Nat \ {0}
      /\ v.den * Square(s) \in Nat \ {0} /\ v.den * Square(e) \in Nat \ {0}
  BY <1>1, PositiveProduct DEF Square
<1>4. v.num * Square(v.scale) \in Nat
  <2>1. \A a \in Nat, b \in Nat : a * b \in Nat
    OBVIOUS
  <2> QED BY <1>1, <2>1 DEF Square
<1>5. (v.num * Square(v.scale) + v.den * Square(e)) * Square(s)
        = (v.den * Square(s)) * (q + Square(e))
  <2>1. v.num * Square(v.scale) \in Int /\ v.den \in Int /\ Square(e) \in Int /\ Square(s) \in Int
    BY <1>1, <1>3, <1>4
  <2> QED BY <2>1, Rescale
<1>6. w \in [scale : Nat, num : Nat, den : Nat \ {0}]
  BY <1>1, <1>2, <1>3, <1>4
<1>7. w.num * Square(w.scale) = w.den * (q + Square(e))
  BY <1>2, <1>5
<1> QED BY <1>6, <1>7 DEF w

LEMMA NoCall == BlasInv /\ calls = {} => BlasTypeOK
BY FS_EmptySet DEF BlasInv, BlasTypeOK

LEMMA BlasInvTyped == BlasInv => BlasTypeOK
<1> SUFFICES ASSUME BlasInv PROVE BlasTypeOK
  OBVIOUS
<1>1. ASSUME NEW c \in calls PROVE Cardinality(calls) <= 1
  <2>1. calls = {c}
    BY DEF BlasInv
  <2>2. Cardinality({c}) = 1
    BY FS_Singleton, Zenon
  <2> QED BY <2>1, <2>2
<1>2. CASE calls = {}
  BY <1>2, NoCall
<1> QED BY <1>1, <1>2 DEF BlasInv, BlasTypeOK

LEMMA WithoutCall ==
    ASSUME calls' = {}, step' = 0, ix' = 0, iy' = 0, xs' = AnyVector, ys' = AnyVector,
           total' = 0, norm' = NormZero
    PROVE  BlasInv'
<1>1. AnyVector \in [0 .. Extent -> Int]
  BY BlasAssumption DEF AnyVector
<1>2. NormZero \in [scale : Nat, num : Nat, den : Nat \ {0}]
  BY DEF NormZero
<1> QED BY <1>1, <1>2 DEF BlasInv

LEMMA BlasInitially == BlasInit => BlasInv
<1>1. AnyVector \in [0 .. Extent -> Int]
  BY BlasAssumption DEF AnyVector
<1>2. NormZero \in [scale : Nat, num : Nat, den : Nat \ {0}]
  BY DEF NormZero
<1> QED BY <1>1, <1>2 DEF BlasInit, BlasInv

LEMMA CallBegins == ASSUME CallBlas PROVE BlasInv'
<1>1. PICK c \in Call : /\ Usable(c) /\ calls' = {c} /\ ix' = BeginX(c)
                        /\ iy' = Begin(c.n, c.sy) /\ step' = 0
                        /\ xs' = c.x /\ ys' = c.y /\ total' = 0 /\ norm' = NormZero
  BY DEF CallBlas
<1>2. 0 * c.sx = 0 /\ 0 * c.sy = 0 /\ 0 <= Turns(c)
      /\ BeginX(c) \in Int /\ Begin(c.n, c.sy) \in Int
      /\ c.x \in [0 .. Extent -> Int] /\ c.y \in [0 .. Extent -> Int]
  BY CallIsTyped
<1>3. NormZero \in [scale : Nat, num : Nat, den : Nat \ {0}]
  BY DEF NormZero
<1>4. NormZero.num * Square(NormZero.scale) = NormZero.den * 0
  BY DEF NormZero, Square
<1>5. RightAfter(c, step)'
  BY <1>1, <1>4, NothingDone DEF RightAfter
<1>6. BeginX(c) = BeginX(c) + 0 * c.sx /\ Begin(c.n, c.sy) = Begin(c.n, c.sy) + 0 * c.sy
  BY <1>2
<1> QED BY <1>1, <1>2, <1>3, <1>5, <1>6 DEF BlasInv

\* Where the indices are is the element of the turn.
LEMMA IndicesAreRight ==
    ASSUME BlasInv, NEW c \in calls, ~Over(c)
    PROVE  /\ step \in 0 .. Turns(c) - 1
           /\ ix = Cell(c.n, c.sx, step)
           /\ c.op \notin {"dscal", "dnrm2"} => iy = Cell(c.n, c.sy, step)
<1>1. /\ c \in Call /\ step \in Nat /\ Usable(c)
      /\ ix = BeginX(c) + step * c.sx /\ iy = Begin(c.n, c.sy) + step * c.sy
  BY DEF BlasInv
<1>2. c.n \in Int /\ c.sx \in Int /\ c.sy \in Int
  BY <1>1, CallIsTyped
<1>3. BeginX(c) = Begin(c.n, c.sx)
  <2>1. c.op \in {"dscal", "dnrm2"} => c.sx >= 0
    BY <1>1, <1>2 DEF Usable, Over, Skipped
  <2> QED BY <2>1 DEF BeginX, Begin
<1>4. step \in 0 .. Turns(c) - 1
  BY <1>1, <1>2 DEF Over, Turns
<1>5. /\ Begin(c.n, c.sx) + step * c.sx = Cell(c.n, c.sx, step)
      /\ Begin(c.n, c.sy) + step * c.sy = Cell(c.n, c.sy, step)
  <2>1. step \in Int
    BY <1>1
  <2> QED BY <1>2, <2>1, StrideFromBegin
<1> QED BY <1>1, <1>3, <1>4, <1>5

LEMMA TurnKeepsIt ==
    ASSUME BlasInv, NEW c \in calls, Iterate(c)
    PROVE  /\ RightAfter(c, step)'
           /\ xs' \in [0 .. Extent -> Int] /\ ys' \in [0 .. Extent -> Int]
           /\ total' \in Int
           /\ norm' \in [scale : Nat, num : Nat, den : Nat \ {0}]
<1>1. /\ ~Over(c) /\ c \in Call /\ RightAfter(c, step) /\ step' = step + 1
      /\ xs \in [0 .. Extent -> Int] /\ ys \in [0 .. Extent -> Int]
      /\ total \in Int /\ norm \in [scale : Nat, num : Nat, den : Nat \ {0}]
      /\ ~Skipped(c)
  BY DEF BlasInv, Iterate, Over
<1>2. PICK m \in 0 .. Turns(c) - 1 : m = step
  BY <1>1, IndicesAreRight
<1>3. m \in Nat /\ step' = m + 1
  BY <1>1, <1>2
<1>4. ix = Cell(c.n, c.sx, m) /\ (c.op \notin {"dscal", "dnrm2"} => iy = Cell(c.n, c.sy, m))
  BY <1>1, <1>2, IndicesAreRight
<1>5. /\ ix \in 0 .. Extent /\ (c.op \notin {"dscal", "dnrm2"} => iy \in 0 .. Extent)
      /\ XAt(c, m) = c.x[ix] /\ XAt(c, m) \in Int /\ c.a \in Int
  <2>1. /\ Cell(c.n, c.sx, m) \in 0 .. Extent /\ Cell(c.n, c.sy, m) \in 0 .. Extent
        /\ XAt(c, m) \in Int
    BY <1>1, ElementsAreNumbers
  <2>2. c.a \in Int
    BY <1>1, CallIsTyped
  <2> QED BY <1>4, <2>1, <2>2 DEF XAt
<1>6. CASE c.op = "dcopy"
  <2>1. xs' = xs /\ total' = total /\ norm' = norm /\ ys' = [ys EXCEPT ![iy] = xs[ix]]
    BY <1>6 DEF Iterate
  <2>2. xs = c.x /\ ys = Copied(c, m)
    BY <1>1, <1>2, <1>6 DEF RightAfter
  <2>3. ys' = Copied(c, m + 1)
    BY <1>1, <1>3, <1>4, <1>5, <1>6, <2>1, <2>2, OneTurnCopies
  <2>4. ys' \in [0 .. Extent -> Int]
    BY <1>1, <1>5, <1>6, <2>1
  <2> QED BY <1>1, <1>3, <1>6, <2>1, <2>2, <2>3, <2>4 DEF RightAfter
<1>7. CASE c.op = "daxpy"
  <2>1. /\ xs' = xs /\ total' = total /\ norm' = norm
        /\ ys' = [ys EXCEPT ![iy] = @ + c.a * xs[ix]]
    BY <1>7 DEF Iterate
  <2>2. xs = c.x /\ ys = Added(c, m)
    BY <1>1, <1>2, <1>7 DEF RightAfter
  <2>3. ys' = Added(c, m + 1)
    BY <1>1, <1>2, <1>4, <1>5, <1>7, <2>1, <2>2, OneTurnAdds
  <2>4. ys' \in [0 .. Extent -> Int]
    <3>1. ys[iy] \in Int /\ c.a * xs[ix] \in Int /\ ys[iy] + c.a * xs[ix] \in Int
      BY <1>1, <1>5, <1>7
    <3> QED BY <1>1, <2>1, <3>1
  <2> QED BY <1>1, <1>3, <1>7, <2>1, <2>2, <2>3, <2>4 DEF RightAfter
<1>8. CASE c.op = "dscal"
  <2>1. /\ ys' = ys /\ total' = total /\ norm' = norm
        /\ xs' = [xs EXCEPT ![ix] = c.a * @]
    BY <1>8 DEF Iterate
  <2>2. ys = c.y /\ (c.sx > 0 => xs = Scaled(c, m))
    BY <1>1, <1>2, <1>8 DEF RightAfter
  <2>3. c.sx > 0 => xs' = Scaled(c, m + 1)
    BY <1>1, <1>3, <1>4, <2>1, <2>2, OneTurnScales
  <2>4. xs' \in [0 .. Extent -> Int]
    <3>1. c.a * xs[ix] \in Int
      BY <1>1, <1>5
    <3> QED BY <1>1, <2>1, <3>1
  <2> QED BY <1>1, <1>3, <1>8, <2>1, <2>2, <2>3, <2>4 DEF RightAfter
<1>9. CASE c.op = "ddot"
  <2>1. /\ xs' = xs /\ ys' = ys /\ norm' = norm
        /\ total' = total + xs[ix] * ys[iy]
    BY <1>9 DEF Iterate
  <2>2. xs = c.x /\ ys = c.y /\ total = Products(c)[m]
    BY <1>1, <1>2, <1>9 DEF RightAfter
  <2>3. YAt(c, m) = ys[iy] /\ xs[ix] = XAt(c, m)
    BY <1>4, <1>5, <1>9, <2>2 DEF YAt
  <2>4. total' = Products(c)[m + 1]
    BY <1>1, <1>2, <2>1, <2>2, <2>3, OneTurnSums
  <2>5. xs[ix] * ys[iy] \in Int
    <3>1. YAt(c, m) \in Int
      BY <1>1, <1>2, ElementsAreNumbers
    <3> QED BY <1>5, <2>3, <3>1
  <2> QED BY <1>1, <1>3, <1>9, <2>1, <2>2, <2>4, <2>5 DEF RightAfter
<1>10. CASE c.op = "dnrm2"
  <2>1. /\ xs' = xs /\ ys' = ys /\ total' = total
        /\ norm' = IF xs[ix] # 0 THEN AddSquare(norm, Absolute(xs[ix])) ELSE norm
    BY <1>10 DEF Iterate
  <2>2. /\ xs = c.x /\ ys = c.y
        /\ norm.num * Square(norm.scale) = norm.den * Squares(c)[m]
    BY <1>1, <1>2, <1>10, CallIsTyped DEF RightAfter, Skipped
  <2> DEFINE x == XAt(c, m)
             q == Squares(c)[m]
  <2>3. x \in Int /\ q \in Int /\ Squares(c)[m + 1] = q + Square(x)
    BY <1>1, <1>2, <1>5, OneTurnSums
  <2>4. norm' = IF x # 0 THEN AddSquare(norm, Absolute(x)) ELSE norm
    BY <1>5, <2>1, <2>2
  <2>5. norm.num * Square(norm.scale) = norm.den * q
    BY <2>2
  <2> HIDE DEF x, q
  <2>6. CASE x # 0
    <3>1. Absolute(x) \in Nat \ {0} /\ Square(Absolute(x)) = Square(x)
      BY <2>3, <2>6, SquareOfAbsolute
    <3>2. norm' = AddSquare(norm, Absolute(x))
      BY <2>4, <2>6
    <3>3. /\ norm' \in [scale : Nat, num : Nat, den : Nat \ {0}]
          /\ norm'.num * Square(norm'.scale) = norm'.den * (q + Square(x))
      <4> DEFINE w == AddSquare(norm, Absolute(x))
      <4>1. /\ w \in [scale : Nat, num : Nat, den : Nat \ {0}]
            /\ w.num * Square(w.scale) = w.den * (q + Square(Absolute(x)))
        BY <1>1, <2>3, <2>5, <3>1, SquareIsAdded
      <4> HIDE DEF w
      <4> QED BY <3>1, <3>2, <4>1 DEF w
    <3> QED BY <1>1, <1>3, <1>10, <2>1, <2>2, <2>3, <3>3 DEF RightAfter
  <2>7. CASE x = 0
    <3>1. norm' = norm /\ Squares(c)[m + 1] = q
      BY <2>3, <2>4, <2>7, SquareOfAbsolute
    <3> QED BY <1>1, <1>3, <1>10, <2>1, <2>2, <2>5, <3>1 DEF RightAfter
  <2> QED BY <2>6, <2>7
<1> QED BY <1>1, <1>6, <1>7, <1>8, <1>9, <1>10, CallIsTyped

LEMMA BlasInductive ==
    ASSUME BlasInv, [BlasNext]_blasVars PROVE BlasInv'
<1>1. CASE CallBlas
  BY <1>1, CallBegins
<1>2. ASSUME NEW c \in calls, Iterate(c) PROVE BlasInv'
  <2>1. /\ calls' = calls /\ step' = step + 1 /\ ix' = ix + c.sx /\ iy' = iy + c.sy
        /\ ~Over(c) /\ c \in Call /\ step \in Nat /\ calls = {c} /\ Usable(c)
        /\ ix = BeginX(c) + step * c.sx /\ iy = Begin(c.n, c.sy) + step * c.sy
    BY <1>2 DEF Iterate, BlasInv
  <2>2. ix' = BeginX(c) + step' * c.sx /\ iy' = Begin(c.n, c.sy) + step' * c.sy
    <3>1. /\ BeginX(c) + (step + 1) * c.sx = (BeginX(c) + step * c.sx) + c.sx
          /\ Begin(c.n, c.sy) + (step + 1) * c.sy = (Begin(c.n, c.sy) + step * c.sy) + c.sy
      BY <2>1, CallIsTyped, OneMoreStride
    <3> QED BY <2>1, <3>1
  <2>3. ix' \in Int /\ iy' \in Int /\ step' \in Nat
    <3>1. ix \in Int /\ iy \in Int
      BY DEF BlasInv
    <3>2. c.sx \in Int /\ c.sy \in Int
      BY <2>1, CallIsTyped
    <3> QED BY <2>1, <3>1, <3>2
  <2>4. step' <= Turns(c) /\ ~Skipped(c)
    BY <1>2, <2>1, IndicesAreRight, CallIsTyped DEF Over
  <2>5. /\ RightAfter(c, step)'
        /\ xs' \in [0 .. Extent -> Int] /\ ys' \in [0 .. Extent -> Int]
        /\ total' \in Int /\ norm' \in [scale : Nat, num : Nat, den : Nat \ {0}]
    BY <1>2, TurnKeepsIt
  <2> QED BY <2>1, <2>2, <2>3, <2>4, <2>5 DEF BlasInv
<1>3. ASSUME NEW c \in calls, Answer(c) PROVE BlasInv'
  BY <1>3, WithoutCall DEF Answer
<1>4. CASE UNCHANGED blasVars
  BY <1>4 DEF blasVars, BlasInv, RightAfter
<1> QED BY <1>1, <1>2, <1>3, <1>4 DEF BlasNext, InBlas

\* The types of the vector loops' state.
THEOREM BlasTypeCorrect == BlasSpec => []BlasTypeOK
BY BlasInitially, BlasInductive, BlasInvTyped, PTL DEF BlasSpec

\* omcweb_blas_extras.c: at every turn of every loop the element touched is the one
\* that the strides choose, and so inside the vector.
THEOREM ElementsAreRight == BlasSpec => []AtItsElement
<1>1. BlasInv => AtItsElement
  BY IndicesAreRight DEF AtItsElement
<1> QED BY <1>1, BlasInitially, BlasInductive, PTL DEF BlasSpec

\* omcweb_blas_extras.c: each routine leaves the vector, the inner product or the norm
\* that it is named for, for any vectors, lengths and strides.
THEOREM RoutinesAreRight == BlasSpec => []BlasRight
<1>1. ASSUME BlasInv, NEW c \in calls, Over(c) PROVE RightAfter(c, Turns(c))
  <2>1. c \in Call /\ step \in Nat /\ step <= Turns(c) /\ RightAfter(c, step)
        /\ (Skipped(c) => step = 0)
    BY <1>1 DEF BlasInv
  <2>2. CASE ~Skipped(c)
    <3>1. step = Turns(c)
      BY <1>1, <2>1, <2>2, CallIsTyped DEF Over, Turns
    <3> QED BY <2>1, <3>1
  <2>3. CASE Skipped(c)
    <3>1. RightAfter(c, 0)
      BY <2>1, <2>3
    <3>2. CASE c.op = "dnrm2" /\ c.sx < 1
      <4>1. ~(c.sx >= 1)
        BY <2>1, <3>2, CallIsTyped
      <4> QED BY <3>1, <3>2, <4>1 DEF RightAfter
    <3>3. CASE c.op = "daxpy" /\ c.a = 0
      <4>1. Added(c, Turns(c)) = c.y
        BY <2>1, <3>3, AddedByZero
      <4>2. xs = c.x /\ ys = c.y
        BY <2>1, <3>1, <3>3, NothingDone DEF RightAfter
      <4> QED BY <3>3, <4>1, <4>2 DEF RightAfter
    <3> QED BY <2>3, <3>2, <3>3 DEF Skipped
  <2> QED BY <2>2, <2>3
<1>2. BlasInv => BlasRight
  BY <1>1 DEF BlasRight
<1> QED BY <1>2, BlasInitially, BlasInductive, PTL DEF BlasSpec

=============================================================================
