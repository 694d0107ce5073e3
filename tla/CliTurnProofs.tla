--------------------------- MODULE CliTurnProofs ---------------------------
(***************************************************************************)
(* Proofs about CliTurn, and about the texts of TokenText and the renderer *)
(* of OutputWriter it works on.                                            *)
(***************************************************************************)
EXTENDS CliTurn, RecursionProofs

-----------------------------------------------------------------------------
(* The lines of the screen while a turn streams.                            *)
Mark == {Newline} \cup {<<a, c, p>> : a \in Agents, c \in Channels, p \in Displayed}
KeyOf(m) == <<m[1], m[2]>>
OnOneLine(one, two) == one = Newline \/ two = Newline \/ KeyOf(one) = KeyOf(two)
Apartness(line) == \A i \in 1..Len(line) - 1 : OnOneLine(line[i], line[i + 1])

(* What is pending on a line is of the last key.                            *)
Tidy(line, pending, last) ==
    /\ line \in Seq(Mark)
    /\ Apartness(line)
    /\ \/ line = <<>>
       \/ line[Len(line)] = Newline
       \/ pending /\ KeyOf(line[Len(line)]) = last

(* Marks of one key, and line ends.                                         *)
OfKey(key, marks) ==
    /\ marks \in Seq(Mark)
    /\ \A i \in 1..Len(marks) : marks[i] = Newline \/ KeyOf(marks[i]) = key

LEMMA MarksKeepApart ==
    ASSUME NEW key, NEW marks, OfKey(key, marks)
    PROVE  Apartness(marks)
<1> SUFFICES ASSUME NEW i \in 1..Len(marks) - 1 PROVE OnOneLine(marks[i], marks[i + 1])
  BY DEF Apartness
<1>1. Len(marks) \in Nat
  BY DEF OfKey
<1>2. i \in 1..Len(marks) /\ i + 1 \in 1..Len(marks)
  BY <1>1
<1>3. /\ marks[i] = Newline \/ KeyOf(marks[i]) = key
      /\ marks[i + 1] = Newline \/ KeyOf(marks[i + 1]) = key
  BY <1>2 DEF OfKey
<1> QED
  BY <1>3, Zenon DEF OnOneLine

(* Two lines may be joined where their ends may be neighbours.              *)
LEMMA JoinedApart ==
    ASSUME NEW s \in Seq(Mark), NEW t \in Seq(Mark), Apartness(s), Apartness(t),
           s = <<>> \/ t = <<>> \/ OnOneLine(s[Len(s)], t[1])
    PROVE  Joint(s, t) \in Seq(Mark) /\ Apartness(Joint(s, t))
<1>1. PICK st, m, n : st = Joint(s, t) /\ m = Len(s) /\ n = Len(t)
  OBVIOUS
<1>2. /\ m \in Nat /\ n \in Nat /\ st \in Seq(Mark) /\ Len(st) = m + n
      /\ \A i \in 1..m + n : st[i] = IF i <= m THEN s[i] ELSE t[i - m]
  BY <1>1, ConcatProperties DEF Joint
<1>3. (m = 0 => s = <<>>) /\ (n = 0 => t = <<>>) /\ (s = <<>> => m = 0) /\ (t = <<>> => n = 0)
  BY <1>1
<1>4. ASSUME NEW i \in 1..Len(st) - 1 PROVE OnOneLine(st[i], st[i + 1])
  <2>1. i \in 1..m + n /\ i + 1 \in 1..m + n
    BY <1>2
  <2>2. CASE i < m
    <3>1. st[i] = s[i] /\ st[i + 1] = s[i + 1] /\ i \in 1..Len(s) - 1
      BY <1>1, <1>2, <2>1, <2>2
    <3> QED
      BY <3>1 DEF Apartness
  <2>3. CASE i = m
    <3>1. st[i] = s[Len(s)] /\ st[i + 1] = t[1] /\ m # 0 /\ n # 0
      BY <1>1, <1>2, <2>1, <2>3
    <3> QED
      BY <1>3, <3>1
  <2>4. CASE i > m
    <3>1. st[i] = t[i - m] /\ st[i + 1] = t[(i - m) + 1] /\ i - m \in 1..Len(t) - 1
      BY <1>1, <1>2, <2>1, <2>4
    <3> QED
      BY <3>1 DEF Apartness
  <2> QED
    BY <1>2, <2>1, <2>2, <2>3, <2>4
<1> QED
  BY <1>1, <1>2, <1>4 DEF Apartness

(* A line goes on with the marks of a key, on a line of their own when      *)
(* something of another key is pending.                                     *)
LEMMA TidyGoesOn ==
    ASSUME NEW line, NEW pending, NEW last, Tidy(line, pending, last),
           NEW key \in Keys, NEW marks, OfKey(key, marks)
    PROVE  Tidy(Joint(Joint(line, IF pending /\ last \notin {<<>>, key} THEN <<Newline>> ELSE <<>>),
                      marks),
                ~EndsLine(marks), key)
<1>1. PICK between, mid, new :
         /\ between = IF pending /\ last \notin {<<>>, key} THEN <<Newline>> ELSE <<>>
         /\ mid = Joint(line, between) /\ new = Joint(mid, marks)
  OBVIOUS
<1>2. line \in Seq(Mark) /\ marks \in Seq(Mark) /\ Apartness(line) /\ Apartness(marks)
  BY MarksKeepApart DEF Tidy, OfKey
<1>3. /\ <<Newline>> \in Seq(Mark) /\ Len(<<Newline>>) = 1 /\ <<Newline>>[1] = Newline
      /\ <<>> \in Seq(Mark)
  BY DEF Mark
<1>4. Apartness(<<Newline>>)
  BY <1>3 DEF Apartness
<1>5. /\ mid \in Seq(Mark) /\ Apartness(mid)
      /\ \/ mid = <<>>
         \/ mid[Len(mid)] = Newline
         \/ KeyOf(mid[Len(mid)]) = key
  <2>1. CASE pending /\ last \notin {<<>>, key}
    <3>1. between = <<Newline>> /\ OnOneLine(line[Len(line)], <<Newline>>[1])
      BY <1>1, <1>3, <2>1 DEF OnOneLine
    <3>2. mid \in Seq(Mark) /\ Apartness(mid)
      <4>1. Joint(line, <<Newline>>) \in Seq(Mark) /\ Apartness(Joint(line, <<Newline>>))
        BY <1>2, <1>3, <1>4, <3>1, JoinedApart
      <4> QED
        BY <1>1, <3>1, <4>1
    <3>3. mid[Len(mid)] = Newline
      <4>1. mid = line \o <<Newline>>
        BY <1>1, <3>1 DEF Joint
      <4>2. Len(line) \in Nat
        BY <1>2
      <4> QED
        BY <1>2, <1>3, <4>1, <4>2
    <3> QED
      BY <3>2, <3>3
  <2>2. CASE ~(pending /\ last \notin {<<>>, key})
    <3>1. line \o <<>> = line
      BY <1>2, ConcatEmptySeq
    <3>2. mid = line
      BY <1>1, <2>2, <3>1 DEF Joint
    <3>3. \/ line = <<>>
          \/ line[Len(line)] = Newline
          \/ pending /\ KeyOf(line[Len(line)]) = last
      BY DEF Tidy
    <3>4. KeyOf(line[Len(line)]) # <<>>
      BY DEF KeyOf
    <3> QED
      BY <1>2, <2>2, <3>2, <3>3, <3>4
  <2> QED
    BY <2>1, <2>2
<1>6. CASE marks = <<>>
  <2>1. mid \o <<>> = mid
    BY <1>5, ConcatEmptySeq
  <2>2. new = mid
    BY <1>1, <1>6, <2>1 DEF Joint
  <2>3. ~EndsLine(marks)
    BY <1>6 DEF EndsLine
  <2>4. Tidy(mid, ~EndsLine(marks), key)
    BY <1>5, <2>3 DEF Tidy
  <2> QED
    BY <1>1, <2>2, <2>4
<1>7. CASE marks # <<>>
  <2>1. Len(marks) \in Nat \ {0} /\ 1 \in 1..Len(marks) /\ Len(marks) \in 1..Len(marks)
    BY <1>2, <1>7
  <2>2. /\ marks[1] = Newline \/ KeyOf(marks[1]) = key
        /\ marks[Len(marks)] = Newline \/ KeyOf(marks[Len(marks)]) = key
    BY <2>1 DEF OfKey
  <2>3. mid = <<>> \/ OnOneLine(mid[Len(mid)], marks[1])
    BY <1>5, <2>2, Zenon DEF OnOneLine
  <2>4. new \in Seq(Mark) /\ Apartness(new)
    <3>1. Joint(mid, marks) \in Seq(Mark) /\ Apartness(Joint(mid, marks))
      BY <1>2, <1>5, <2>3, JoinedApart
    <3> QED
      BY <1>1, <3>1
  <2>5. new[Len(new)] = marks[Len(marks)]
    <3>1. new = mid \o marks
      BY <1>1 DEF Joint
    <3>2. Len(mid) \in Nat /\ Len(new) = Len(mid) + Len(marks)
      BY <1>2, <1>5, <3>1, ConcatProperties
    <3>3. Len(new) \in 1..Len(mid) + Len(marks) /\ ~(Len(new) <= Len(mid))
          /\ Len(new) - Len(mid) = Len(marks)
      BY <2>1, <3>2
    <3> QED
      BY <1>2, <1>5, <3>1, <3>3, ConcatProperties
  <2>6. ~EndsLine(marks) \/ marks[Len(marks)] = Newline
    BY DEF EndsLine, Last
  <2>7. Tidy(new, ~EndsLine(marks), key)
    <3>1. EndsLine(marks) <=> marks[Len(marks)] = Newline
      BY <1>7 DEF EndsLine, Last
    <3>2. CASE EndsLine(marks)
      BY <2>4, <2>5, <3>1, <3>2 DEF Tidy
    <3>3. CASE ~EndsLine(marks)
      BY <2>2, <2>4, <2>5, <3>1, <3>3 DEF Tidy
    <3> QED
      BY <3>2, <3>3
  <2> QED
    BY <1>1, <2>7
<1> QED
  BY <1>6, <1>7

LEMMA OfKeyJoined ==
    ASSUME NEW key, NEW s, NEW t, OfKey(key, s), OfKey(key, t)
    PROVE  OfKey(key, s \o t)
<1>1. PICK st, m, n : st = s \o t /\ m = Len(s) /\ n = Len(t)
  OBVIOUS
<1>2. /\ m \in Nat /\ n \in Nat /\ st \in Seq(Mark) /\ Len(st) = m + n
      /\ \A i \in 1..m + n : st[i] = IF i <= m THEN s[i] ELSE t[i - m]
  <2>1. s \in Seq(Mark) /\ t \in Seq(Mark)
    BY DEF OfKey
  <2> QED
    BY <1>1, <2>1, ConcatProperties
<1>3. ASSUME NEW i \in 1..Len(st) PROVE st[i] = Newline \/ KeyOf(st[i]) = key
  <2>1. CASE i <= m
    <3>1. st[i] = s[i] /\ i \in 1..Len(s)
      BY <1>1, <1>2, <2>1
    <3> QED
      BY <3>1 DEF OfKey
  <2>2. CASE i > m
    <3>1. st[i] = t[i - m] /\ i - m \in 1..Len(t)
      BY <1>1, <1>2, <2>2
    <3> QED
      BY <3>1 DEF OfKey
  <2> QED
    BY <1>2, <2>1, <2>2
<1> QED
  BY <1>1, <1>2, <1>3 DEF OfKey

LEMMA MarksOfKey ==
    ASSUME NEW key \in Keys, NEW text \in Seq(Displayed)
    PROVE  /\ OfKey(key, Marks(key, text)) /\ OfKey(key, Label(key))
           /\ OfKey(key, <<>>) /\ OfKey(key, <<Newline>>)
<1>1. key[1] \in Agents /\ key[2] \in Channels /\ <<key[1], key[2]>> = key
  BY DEF Keys
<1>2. ASSUME NEW p \in Displayed
      PROVE  <<key[1], key[2], p>> \in Mark /\ KeyOf(<<key[1], key[2], p>>) = key
  BY <1>1 DEF Mark, KeyOf
<1>3. OfKey(key, Marks(key, text))
  <2>1. PICK n, marks : n = Len(text) /\ marks = Marks(key, text)
    OBVIOUS
  <2>2. n \in Nat /\ marks = [i \in 1..n |-> <<key[1], key[2], text[i]>>]
    BY <2>1 DEF Marks
  <2>3. \A i \in 1..n : text[i] \in Displayed
    BY <2>1
  <2>4. \A i \in 1..n : marks[i] \in Mark /\ KeyOf(marks[i]) = key
    BY <1>2, <2>2, <2>3
  <2>5. marks \in Seq(Mark) /\ Len(marks) = n
    BY <2>2, <2>4
  <2> QED
    BY <2>1, <2>4, <2>5 DEF OfKey
<1>4. OfKey(key, Label(key))
  <2>1. PICK one : one = <<key[1], key[2], "label">>
    OBVIOUS
  <2>2. one \in Mark /\ KeyOf(one) = key /\ Newline \in Mark
    <3>1. "label" \in Displayed
      BY DEF Displayed
    <3> QED
      BY <1>2, <2>1, <3>1 DEF Mark
  <2>3. <<one, Newline>> \in Seq(Mark) /\ Len(<<one, Newline>>) = 2
    BY <2>2
  <2> QED
    BY <2>1, <2>2, <2>3 DEF OfKey, Label
<1>5. OfKey(key, <<>>) /\ OfKey(key, <<Newline>>)
  BY DEF OfKey, Mark
<1> QED
  BY <1>3, <1>4, <1>5

-----------------------------------------------------------------------------
(* What is written of marks besides labels and line ends.                   *)
WrittenOf(m) == IF m = Newline \/ m[3] = "label" THEN <<>> ELSE <<m>>
WrittenParts(marks) ==
    [i \in 1..Len(marks) |->
        IF marks[i] = Newline \/ marks[i][3] = "label" THEN <<>> ELSE <<marks[i]>>]

LEMMA WrittenOfTyped ==
    ASSUME NEW m \in Mark
    PROVE  WrittenOf(m) \in Seq(Mark)
BY DEF WrittenOf

LEMMA WrittenTyped ==
    ASSUME NEW marks \in Seq(Mark)
    PROVE  /\ WrittenParts(marks) \in Seq(Seq(Mark)) /\ Len(WrittenParts(marks)) = Len(marks)
           /\ \A i \in 1..Len(marks) : WrittenParts(marks)[i] = WrittenOf(marks[i])
           /\ Written(marks) = FlattenSeq(WrittenParts(marks)) /\ Written(marks) \in Seq(Mark)
<1>1. Len(marks) \in Nat /\ \A i \in 1..Len(marks) : marks[i] \in Mark
  OBVIOUS
<1>2. /\ WrittenParts(marks) \in Seq(Seq(Mark)) /\ Len(WrittenParts(marks)) = Len(marks)
      /\ \A i \in 1..Len(marks) : WrittenParts(marks)[i] = WrittenOf(marks[i])
  <2>1. WrittenParts(marks) = [i \in 1..Len(marks) |-> WrittenOf(marks[i])]
    BY DEF WrittenParts, WrittenOf
  <2>2. \A i \in 1..Len(marks) : WrittenOf(marks[i]) \in Seq(Mark)
    BY <1>1, WrittenOfTyped
  <2> QED
    BY <1>1, <2>1, <2>2
<1>3. Written(marks) = FlattenSeq(WrittenParts(marks))
  BY Zenon DEF Written, WrittenParts
<1>4. FlattenSeq(WrittenParts(marks)) \in Seq(Mark)
  BY <1>2, FlattenText
<1> QED
  BY <1>2, <1>3, <1>4

LEMMA WrittenNothing == Written(<<>>) = <<>>
<1>1. <<>> \in Seq(Mark) /\ Len(<<>>) = 0
  BY EmptySeq
<1>2. /\ Len(WrittenParts(<<>>)) = 0 /\ Written(<<>>) = FlattenSeq(WrittenParts(<<>>))
      /\ WrittenParts(<<>>) \in Seq(Seq(Mark))
  BY <1>1, WrittenTyped
<1>3. WrittenParts(<<>>) = <<>>
  BY <1>2, EmptySeq
<1> QED
  BY <1>2, <1>3, FlattenNothing

LEMMA WrittenAppend ==
    ASSUME NEW marks \in Seq(Mark), NEW m \in Mark
    PROVE  Written(Append(marks, m)) = Joint(Written(marks), WrittenOf(m))
<1>1. PICK all, parts, new, one :
         /\ all = Append(marks, m) /\ parts = WrittenParts(marks)
         /\ new = WrittenParts(all) /\ one = WrittenOf(m)
  OBVIOUS
<1>2. /\ all \in Seq(Mark) /\ Len(marks) \in Nat /\ Len(all) = Len(marks) + 1
      /\ all[Len(marks) + 1] = m /\ \A i \in 1..Len(marks) : all[i] = marks[i]
  BY <1>1
<1>3. /\ parts \in Seq(Seq(Mark)) /\ Len(parts) = Len(marks)
      /\ \A i \in 1..Len(marks) : parts[i] = WrittenOf(marks[i])
      /\ Written(marks) = FlattenSeq(parts)
  BY <1>1, WrittenTyped
<1>4. /\ new \in Seq(Seq(Mark)) /\ Len(new) = Len(all)
      /\ \A i \in 1..Len(all) : new[i] = WrittenOf(all[i])
      /\ Written(all) = FlattenSeq(new)
  BY <1>1, <1>2, WrittenTyped
<1>5. one \in Seq(Mark)
  BY <1>1, WrittenOfTyped
<1>6. new = Append(parts, one)
  <2>1. Len(new) = Len(parts) + 1 /\ \A i \in 1..Len(parts) : new[i] = parts[i]
    BY <1>2, <1>3, <1>4
  <2>2. new[Len(parts) + 1] = one
    BY <1>1, <1>2, <1>3, <1>4
  <2>3. PICK S : S = Seq(Mark)
    OBVIOUS
  <2>4. parts \in Seq(S) /\ new \in Seq(S) /\ one \in S
    BY <1>3, <1>4, <1>5, <2>3
  <2> QED
    BY <2>1, <2>2, <2>4, AppendIs
<1>7. FlattenSeq(Append(parts, one)) = Joint(FlattenSeq(parts), one)
  BY <1>3, <1>5, FlattenMore
<1> QED
  BY <1>1, <1>3, <1>4, <1>6, <1>7, Zenon

LEMMA WrittenJoint ==
    ASSUME NEW s \in Seq(Mark), NEW t \in Seq(Mark)
    PROVE  Written(Joint(s, t)) = Joint(Written(s), Written(t))
<1> DEFINE P == {x \in Seq(Mark) : Written(Joint(s, x)) = Joint(Written(s), Written(x))}
<1>1. Written(s) \in Seq(Mark)
  BY WrittenTyped
<1>2. <<>> \in P
  <2>1. Joint(s, <<>>) = s /\ Joint(Written(s), <<>>) = Written(s)
    BY <1>1, JointNothing
  <2> QED
    BY <2>1, WrittenNothing
<1>3. ASSUME NEW x \in Seq(Mark), NEW m \in Mark, x \in P PROVE Append(x, m) \in P
  <2>1. Written(Joint(s, x)) = Joint(Written(s), Written(x))
    BY <1>3
  <2>2. Append(Joint(s, x), m) = Joint(s, Append(x, m)) /\ Joint(s, x) \in Seq(Mark)
    BY JointAppend, JointTyped
  <2>3. Written(Append(Joint(s, x), m)) = Joint(Written(Joint(s, x)), WrittenOf(m))
    BY <2>2, WrittenAppend
  <2>4. Written(Append(x, m)) = Joint(Written(x), WrittenOf(m))
    BY WrittenAppend
  <2>5. Written(x) \in Seq(Mark) /\ WrittenOf(m) \in Seq(Mark)
    BY WrittenTyped, WrittenOfTyped
  <2>6. Joint(Joint(Written(s), Written(x)), WrittenOf(m))
        = Joint(Written(s), Joint(Written(x), WrittenOf(m)))
    BY <1>1, <2>5, JointTwice
  <2>7. Written(Joint(s, Append(x, m))) = Joint(Written(s), Written(Append(x, m)))
    BY <2>1, <2>2, <2>3, <2>4, <2>6, Zenon
  <2>8. Append(x, m) \in Seq(Mark)
    OBVIOUS
  <2> QED
    BY <2>7, <2>8
<1>4. Seq(Mark) \subseteq P
  <2> HIDE DEF P
  <2> QED
    BY <1>2, <1>3, SequencesOf
<1> QED
  BY <1>4

WrittenEach(texts) == [i \in 1..Len(texts) |-> Written(texts[i])]

LEMMA WrittenFlat ==
    ASSUME NEW texts \in Seq(Seq(Mark))
    PROVE  Written(FlattenSeq(texts)) = FlattenSeq(WrittenEach(texts))
<1> DEFINE P == {x \in Seq(Seq(Mark)) : Written(FlattenSeq(x)) = FlattenSeq(WrittenEach(x))}
<1>1. ASSUME NEW x \in Seq(Seq(Mark))
      PROVE  WrittenEach(x) \in Seq(Seq(Mark)) /\ Len(WrittenEach(x)) = Len(x)
  <2>1. Len(x) \in Nat /\ \A i \in 1..Len(x) : Written(x[i]) \in Seq(Mark)
    BY WrittenTyped
  <2> QED
    BY <2>1 DEF WrittenEach
<1>2. <<>> \in P
  <2>1. <<>> \in Seq(Seq(Mark)) /\ Len(<<>>) = 0
    BY EmptySeq
  <2>2. WrittenEach(<<>>) = <<>>
    BY <1>1, <2>1, EmptySeq
  <2> QED
    BY <2>1, <2>2, FlattenNothing, WrittenNothing
<1>3. ASSUME NEW x \in Seq(Seq(Mark)), NEW e \in Seq(Mark), x \in P PROVE Append(x, e) \in P
  <2>1. PICK all, parts, new, one :
           /\ all = Append(x, e) /\ parts = WrittenEach(x)
           /\ new = WrittenEach(all) /\ one = Written(e)
    OBVIOUS
  <2>2. /\ all \in Seq(Seq(Mark)) /\ Len(x) \in Nat /\ Len(all) = Len(x) + 1
        /\ all[Len(x) + 1] = e /\ \A i \in 1..Len(x) : all[i] = x[i]
    BY <2>1
  <2>3. /\ parts \in Seq(Seq(Mark)) /\ Len(parts) = Len(x)
        /\ new \in Seq(Seq(Mark)) /\ Len(new) = Len(all) /\ one \in Seq(Mark)
    BY <1>1, <2>1, <2>2, WrittenTyped
  <2>4. /\ \A i \in 1..Len(x) : parts[i] = Written(x[i])
        /\ \A i \in 1..Len(all) : new[i] = Written(all[i])
    BY <2>1 DEF WrittenEach
  <2>5. new = Append(parts, one)
    <3>1. Len(new) = Len(parts) + 1 /\ \A i \in 1..Len(parts) : new[i] = parts[i]
      <4>1. Len(new) = Len(parts) + 1
        BY <2>2, <2>3
      <4>2. ASSUME NEW i \in 1..Len(parts) PROVE new[i] = parts[i]
        <5>1. i \in 1..Len(x) /\ i \in 1..Len(all)
          BY <2>2, <2>3
        <5>2. new[i] = Written(all[i]) /\ parts[i] = Written(x[i]) /\ all[i] = x[i]
          BY <2>2, <2>4, <5>1
        <5> QED
          BY <5>2, Zenon
      <4> QED
        BY <4>1, <4>2
    <3>2. new[Len(parts) + 1] = one
      <4>1. Len(x) + 1 \in 1..Len(all) /\ Len(parts) + 1 = Len(x) + 1
        BY <2>2, <2>3
      <4>2. new[Len(x) + 1] = Written(all[Len(x) + 1])
        BY <2>4, <4>1
      <4> QED
        BY <2>1, <2>2, <4>1, <4>2, Zenon
    <3>3. PICK S : S = Seq(Mark)
      OBVIOUS
    <3>4. parts \in Seq(S) /\ new \in Seq(S) /\ one \in S
      BY <2>3, <3>3
    <3> QED
      BY <3>1, <3>2, <3>4, AppendIs
  <2>6. FlattenSeq(Append(parts, one)) = Joint(FlattenSeq(parts), one)
    BY <2>3, FlattenMore
  <2>7. FlattenSeq(Append(x, e)) = Joint(FlattenSeq(x), e) /\ FlattenSeq(x) \in Seq(Mark)
    BY FlattenMore, FlattenText
  <2>8. Written(Joint(FlattenSeq(x), e)) = Joint(Written(FlattenSeq(x)), Written(e))
    BY <2>7, WrittenJoint
  <2>9. Written(FlattenSeq(x)) = FlattenSeq(WrittenEach(x))
    BY <1>3
  <2>10. Written(FlattenSeq(all)) = FlattenSeq(new)
    BY <2>1, <2>5, <2>6, <2>7, <2>8, <2>9, Zenon
  <2>11. all \in P
    BY <2>1, <2>2, <2>10
  <2> QED
    BY <2>1, <2>11, Zenon
<1>4. Seq(Seq(Mark)) \subseteq P
  <2> HIDE DEF P
  <2> QED
    BY <1>2, <1>3, SequencesOf
<1> QED
  BY <1>4

(* Marks that spell a text of a key, with or without labels and line ends;  *)
(* a tool call has only a label.                                            *)
IsEntry(key, text) == key[2] = "tool_calls" => text = <<"label">>

Spells(key, text, marks) ==
    /\ IsEntry(key, text) /\ OfKey(key, marks)
    /\ Written(marks) = Written(Marks(key, text))

LEMMA NoneWritten ==
    ASSUME NEW key \in Keys
    PROVE  /\ Written(<<Newline>>) = <<>> /\ Written(Label(key)) = <<>>
           /\ Written(Marks(key, <<"label">>)) = <<>>
<1>1. PICK one : one = <<key[1], key[2], "label">>
  OBVIOUS
<1>2. Newline \in Mark /\ one \in Mark /\ WrittenOf(Newline) = <<>> /\ WrittenOf(one) = <<>>
  <2>1. key[1] \in Agents /\ key[2] \in Channels /\ "label" \in Displayed
    BY DEF Keys, Displayed
  <2> QED
    BY <1>1, <2>1 DEF Mark, WrittenOf
<1>3. ASSUME NEW marks \in Seq(Mark), Written(marks) = <<>>, NEW m \in Mark, WrittenOf(m) = <<>>
      PROVE  Written(Append(marks, m)) = <<>>
  <2>1. Written(Append(marks, m)) = Joint(<<>>, <<>>)
    BY <1>3, WrittenAppend, Zenon
  <2>2. <<>> \in Seq(Mark)
    OBVIOUS
  <2>3. Joint(<<>>, <<>>) = <<>>
    BY <2>2, JointNothing
  <2> QED
    BY <2>1, <2>3, Zenon
<1>9. ASSUME NEW m \in Mark, NEW n \in Mark
      PROVE  /\ <<>> \in Seq(Mark) /\ Append(<<>>, m) = <<m>>
             /\ <<m>> \in Seq(Mark) /\ Append(<<m>>, n) = <<m, n>>
  <2>1. <<>> \in Seq(Mark) /\ <<m>> \in Seq(Mark)
    OBVIOUS
  <2>2. Append(<<>>, m) = <<m>>
    OBVIOUS
  <2>3. Append(<<m>>, n) = <<m, n>>
    <3>1. PICK u, v : u = <<m>> /\ v = <<m, n>>
      OBVIOUS
    <3>2. /\ u \in Seq(Mark) /\ Len(u) = 1 /\ u[1] = m
          /\ v \in Seq(Mark) /\ Len(v) = 2 /\ v[1] = m /\ v[2] = n
      BY <3>1
    <3>3. Len(v) = Len(u) + 1 /\ v[Len(u) + 1] = n /\ \A i \in 1..Len(u) : v[i] = u[i]
      BY <3>2
    <3>4. v = Append(u, n)
      BY <3>2, <3>3, AppendIs
    <3> QED
      BY <3>1, <3>4
  <2> QED
    BY <2>1, <2>2, <2>3
<1>4. /\ <<>> \in Seq(Mark) /\ Append(<<>>, Newline) = <<Newline>> /\ Append(<<>>, one) = <<one>>
      /\ <<one>> \in Seq(Mark) /\ Append(<<one>>, Newline) = <<one, Newline>>
  BY <1>2, <1>9, Zenon
<1>5. Written(<<Newline>>) = <<>> /\ Written(<<one>>) = <<>>
  BY <1>2, <1>3, <1>4, WrittenNothing
<1>6. Written(<<one, Newline>>) = <<>>
  BY <1>2, <1>3, <1>4, <1>5
<1>7. Label(key) = <<one, Newline>>
  BY <1>1 DEF Label
<1>8. Marks(key, <<"label">>) = <<one>>
  <2>1. Len(<<"label">>) = 1 /\ <<"label">>[1] = "label"
    OBVIOUS
  <2> QED
    BY <1>1, <2>1 DEF Marks
<1> QED
  BY <1>5, <1>6, <1>7, <1>8

LEMMA SpellsAround ==
    ASSUME NEW key \in Keys, NEW text, NEW s, NEW t, Spells(key, text, s),
           OfKey(key, t), Written(t) = <<>>
    PROVE  Spells(key, text, s \o t) /\ Spells(key, text, t \o s)
<1>1. s \in Seq(Mark) /\ t \in Seq(Mark) /\ OfKey(key, s \o t) /\ OfKey(key, t \o s)
  BY OfKeyJoined DEF Spells, OfKey
<1>2. Written(s) \in Seq(Mark) /\ Written(s) = Written(Marks(key, text))
  BY <1>1, WrittenTyped DEF Spells
<1>3. Written(Joint(s, t)) = Joint(Written(s), <<>>) /\ Written(Joint(t, s)) = Joint(<<>>, Written(s))
  BY <1>1, WrittenJoint
<1>4. Joint(Written(s), <<>>) = Written(s) /\ Joint(<<>>, Written(s)) = Written(s)
  BY <1>2, JointNothing
<1> QED
  BY <1>1, <1>2, <1>3, <1>4, Zenon DEF Spells, Joint

LEMMA SpellsLabel ==
    ASSUME NEW key \in Keys
    PROVE  Spells(key, <<"label">>, Label(key))
<1>1. <<"label">> \in Seq(Displayed)
  BY DEF Displayed
<1>2. OfKey(key, Label(key))
  BY <1>1, MarksOfKey
<1> QED
  BY <1>2, NoneWritten, Zenon DEF Spells, IsEntry

LEMMA SpellsText ==
    ASSUME NEW key \in Keys, NEW text \in Seq(Displayed), key[2] # "tool_calls"
    PROVE  /\ Spells(key, text, Marks(key, text))
           /\ Spells(key, text, <<>> \o Marks(key, text))
           /\ Spells(key, text, Label(key) \o Marks(key, text))
           /\ Spells(key, text, Label(key) \o Marks(key, text) \o <<Newline>>)
<1>1. /\ OfKey(key, Marks(key, text)) /\ OfKey(key, Label(key))
      /\ OfKey(key, <<>>) /\ OfKey(key, <<Newline>>)
  BY MarksOfKey
<1>2. /\ Written(<<Newline>>) = <<>> /\ Written(Label(key)) = <<>> /\ Written(<<>>) = <<>>
      /\ Written(Marks(key, <<"label">>)) = <<>>
  BY NoneWritten, WrittenNothing
<1>3. Spells(key, text, Marks(key, text))
  BY <1>1, <1>2, Zenon DEF Spells, IsEntry
<1>4. Spells(key, text, <<>> \o Marks(key, text)) /\ Spells(key, text, Label(key) \o Marks(key, text))
  BY <1>1, <1>2, <1>3, SpellsAround
<1>5. Spells(key, text, Label(key) \o Marks(key, text) \o <<Newline>>)
  BY <1>1, <1>2, <1>4, SpellsAround
<1> QED
  BY <1>3, <1>4, <1>5

(* What was recorded of a stream and keys, by entry.                        *)
Entry == {e \in Keys \X Seq(Displayed) : IsEntry(e[1], e[2])}

ExpectedOf(o, e, s, keys) ==
    IF StreamOf(o, e[1]) = s /\ e[1] \in keys THEN Written(Marks(e[1], e[2])) ELSE <<>>

ExpectedParts(o, entries, s, keys) ==
    [i \in 1..Len(entries) |->
        IF StreamOf(o, entries[i][1]) = s /\ entries[i][1] \in keys
        THEN Written(Marks(entries[i][1], entries[i][2])) ELSE <<>>]

LEMMA EntryMarks ==
    ASSUME NEW e \in Entry
    PROVE  /\ e[1] \in Keys /\ e[2] \in Seq(Displayed)
           /\ Marks(e[1], e[2]) \in Seq(Mark) /\ Written(Marks(e[1], e[2])) \in Seq(Mark)
<1>1. e[1] \in Keys /\ e[2] \in Seq(Displayed)
  BY DEF Entry
<1>2. Marks(e[1], e[2]) \in Seq(Mark)
  BY <1>1, MarksOfKey DEF OfKey
<1> QED
  BY <1>1, <1>2, WrittenTyped

LEMMA ExpectedTyped ==
    ASSUME NEW o, NEW entries \in Seq(Entry), NEW s, NEW keys
    PROVE  /\ ExpectedParts(o, entries, s, keys) \in Seq(Seq(Mark))
           /\ Len(ExpectedParts(o, entries, s, keys)) = Len(entries)
           /\ \A i \in 1..Len(entries) :
                ExpectedParts(o, entries, s, keys)[i] = ExpectedOf(o, entries[i], s, keys)
           /\ Expected(o, entries, s, keys) = FlattenSeq(ExpectedParts(o, entries, s, keys))
           /\ Expected(o, entries, s, keys) \in Seq(Mark)
<1>1. Len(entries) \in Nat /\ \A i \in 1..Len(entries) : entries[i] \in Entry
  OBVIOUS
<1>2. /\ ExpectedParts(o, entries, s, keys) \in Seq(Seq(Mark))
      /\ Len(ExpectedParts(o, entries, s, keys)) = Len(entries)
      /\ \A i \in 1..Len(entries) :
           ExpectedParts(o, entries, s, keys)[i] = ExpectedOf(o, entries[i], s, keys)
  <2>1. ExpectedParts(o, entries, s, keys)
        = [i \in 1..Len(entries) |-> ExpectedOf(o, entries[i], s, keys)]
    BY DEF ExpectedParts, ExpectedOf
  <2>2. ASSUME NEW i \in 1..Len(entries) PROVE ExpectedOf(o, entries[i], s, keys) \in Seq(Mark)
    <3>1. Written(Marks(entries[i][1], entries[i][2])) \in Seq(Mark) /\ <<>> \in Seq(Mark)
      BY <1>1, EntryMarks
    <3> QED
      BY <3>1, Zenon DEF ExpectedOf
  <2> QED
    BY <1>1, <2>1, <2>2
<1>3. Expected(o, entries, s, keys) = FlattenSeq(ExpectedParts(o, entries, s, keys))
  BY Zenon DEF Expected, ExpectedParts
<1>4. FlattenSeq(ExpectedParts(o, entries, s, keys)) \in Seq(Mark)
  BY <1>2, FlattenText
<1> QED
  BY <1>2, <1>3, <1>4, Zenon

LEMMA ExpectedNothing ==
    ASSUME NEW o, NEW s, NEW keys
    PROVE  Expected(o, <<>>, s, keys) = <<>>
<1>1. PICK none : none = <<>>
  OBVIOUS
<1>4. none \in Seq(Entry)
  BY <1>1
<1>2. /\ ExpectedParts(o, none, s, keys) \in Seq(Seq(Mark))
      /\ Len(ExpectedParts(o, none, s, keys)) = Len(none)
      /\ Expected(o, none, s, keys) = FlattenSeq(ExpectedParts(o, none, s, keys))
  BY <1>4, ExpectedTyped
<1>3. ExpectedParts(o, none, s, keys) = <<>>
  BY <1>1, <1>2, EmptySeq
<1> QED
  BY <1>1, <1>2, <1>3, FlattenNothing

LEMMA ExpectedGrows ==
    ASSUME NEW o, NEW entries \in Seq(Entry), NEW e \in Entry, NEW s, NEW keys
    PROVE  Expected(o, Append(entries, e), s, keys)
           = Joint(Expected(o, entries, s, keys), ExpectedOf(o, e, s, keys))
<1>1. PICK all, parts, new, one :
         /\ all = Append(entries, e) /\ parts = ExpectedParts(o, entries, s, keys)
         /\ new = ExpectedParts(o, all, s, keys) /\ one = ExpectedOf(o, e, s, keys)
  OBVIOUS
<1>2. /\ all \in Seq(Entry) /\ Len(entries) \in Nat /\ Len(all) = Len(entries) + 1
      /\ all[Len(entries) + 1] = e /\ \A i \in 1..Len(entries) : all[i] = entries[i]
  BY <1>1
<1>3. /\ parts \in Seq(Seq(Mark)) /\ Len(parts) = Len(entries)
      /\ \A i \in 1..Len(entries) : parts[i] = ExpectedOf(o, entries[i], s, keys)
      /\ Expected(o, entries, s, keys) = FlattenSeq(parts)
  BY <1>1, ExpectedTyped
<1>4. /\ new \in Seq(Seq(Mark)) /\ Len(new) = Len(all)
      /\ \A i \in 1..Len(all) : new[i] = ExpectedOf(o, all[i], s, keys)
      /\ Expected(o, all, s, keys) = FlattenSeq(new)
  <2>1. /\ ExpectedParts(o, all, s, keys) \in Seq(Seq(Mark))
        /\ Len(ExpectedParts(o, all, s, keys)) = Len(all)
        /\ \A i \in 1..Len(all) :
             ExpectedParts(o, all, s, keys)[i] = ExpectedOf(o, all[i], s, keys)
        /\ Expected(o, all, s, keys) = FlattenSeq(ExpectedParts(o, all, s, keys))
    BY <1>2, ExpectedTyped
  <2> QED
    BY <1>1, <2>1, Zenon
<1>5. one \in Seq(Mark)
  <2>1. Written(Marks(e[1], e[2])) \in Seq(Mark) /\ <<>> \in Seq(Mark)
    BY EntryMarks
  <2> QED
    BY <1>1, <2>1, Zenon DEF ExpectedOf
<1>6. new = Append(parts, one)
  <2>1. Len(new) = Len(parts) + 1
    BY <1>2, <1>3, <1>4
  <2>2. ASSUME NEW i \in 1..Len(parts) PROVE new[i] = parts[i]
    <3>1. i \in 1..Len(entries) /\ i \in 1..Len(all)
      BY <1>2, <1>3
    <3>2. /\ new[i] = ExpectedOf(o, all[i], s, keys) /\ all[i] = entries[i]
          /\ parts[i] = ExpectedOf(o, entries[i], s, keys)
      BY <1>2, <1>3, <1>4, <3>1
    <3> QED
      BY <3>2, Zenon
  <2>3. new[Len(parts) + 1] = one
    <3>1. Len(entries) + 1 \in 1..Len(all) /\ Len(parts) + 1 = Len(entries) + 1
      BY <1>2, <1>3
    <3>2. new[Len(entries) + 1] = ExpectedOf(o, all[Len(entries) + 1], s, keys)
      BY <1>4, <3>1
    <3> QED
      BY <1>1, <1>2, <3>1, <3>2, Zenon
  <2>4. PICK S : S = Seq(Mark)
    OBVIOUS
  <2>5. parts \in Seq(S) /\ new \in Seq(S) /\ one \in S
    BY <1>3, <1>4, <1>5, <2>4
  <2> QED
    BY <2>1, <2>2, <2>3, <2>5, AppendIs
<1>7. FlattenSeq(Append(parts, one)) = Joint(FlattenSeq(parts), one)
  BY <1>3, <1>5, FlattenMore
<1> QED
  BY <1>1, <1>3, <1>4, <1>6, <1>7, Zenon

-----------------------------------------------------------------------------
(* The renderer.  A screen that is written when a turn is over holds what   *)
(* no line is made of; while a turn streams, the lines are tidy.            *)
Renderers(screens) ==
    [entries : Seq(Entry), screen : screens, last : [Streams -> {<<>>} \cup Keys],
     pending : [Streams -> BOOLEAN], streaming : SUBSET (Agents \X Spoken),
     labelled : SUBSET (Agents \X Spoken), held : {<<>>, <<"head">>, <<"head", "id">>}]

Lines(w) ==
    /\ w.screen \in [Streams -> Seq(Mark)]
    /\ \A s \in Streams : Tidy(w.screen[s], w.pending[s], w.last[s])

Shaped(w) == w \in Renderers({w.screen})

(* What is on the screen before the turn is over.                           *)
Copied(o, w) ==
    /\ o.mode = "stream" => \A s \in Streams : Written(w.screen[s]) = Expected(o, w.entries, s, Keys)
    /\ o.mode = "json" => w.screen \in [Streams -> Seq(Mark)] /\ w.screen["stderr"] = <<>>

Renders(o, w) == Shaped(w) /\ (o.mode = "stream" => Lines(w)) /\ Copied(o, w)

(* A writer that only writes.                                               *)
SameBesides(w, z) ==
    /\ z.streaming = w.streaming
    /\ z.labelled = w.labelled
    /\ z.held = w.held

LEMMA NewRenders ==
    ASSUME NEW o
    PROVE  Renders(o, NewRenderer)
<1>1. NewRenderer \in Renderers({NewRenderer.screen})
  BY DEF NewRenderer, Renderers
<1>2. Lines(NewRenderer)
  <2>1. NewRenderer.screen \in [Streams -> Seq(Mark)]
    BY DEF NewRenderer
  <2>2. ASSUME NEW s \in Streams PROVE NewRenderer.screen[s] = <<>>
    BY DEF NewRenderer
  <2>3. ASSUME NEW a, NEW b PROVE Tidy(<<>>, a, b)
    <3>1. <<>> \in Seq(Mark) /\ Len(<<>>) = 0
      OBVIOUS
    <3>2. Apartness(<<>>)
      BY <3>1 DEF Apartness
    <3> QED
      BY <3>1, <3>2 DEF Tidy
  <2> QED
    BY <2>1, <2>2, <2>3 DEF Lines
<1>3. Copied(o, NewRenderer)
  <2>1. /\ NewRenderer.entries = <<>> /\ NewRenderer.screen \in [Streams -> Seq(Mark)]
        /\ \A s \in Streams : NewRenderer.screen[s] = <<>>
    BY DEF NewRenderer
  <2>2. "stderr" \in Streams
    BY DEF Streams
  <2>3. \A s \in Streams : Written(NewRenderer.screen[s]) = Expected(o, NewRenderer.entries, s, Keys)
    BY <2>1, WrittenNothing, ExpectedNothing
  <2> QED
    BY <2>1, <2>2, <2>3 DEF Copied
<1> QED
  BY <1>1, <1>2, <1>3 DEF Renders, Shaped

LEMMA StreamChunkIsTidy ==
    ASSUME NEW o, NEW w, Shaped(w), Lines(w), NEW key \in Keys, NEW marks, OfKey(key, marks)
    PROVE  /\ Shaped(StreamChunk(o, w, key, marks)) /\ Lines(StreamChunk(o, w, key, marks))
           /\ SameBesides(w, StreamChunk(o, w, key, marks))
           /\ StreamChunk(o, w, key, marks).entries = w.entries
           /\ \A t \in Streams :
                Written(StreamChunk(o, w, key, marks).screen[t])
                = Joint(Written(w.screen[t]),
                        IF StreamOf(o, key) = t THEN Written(marks) ELSE <<>>)
<1>1. PICK s, ends, between, line, z :
         /\ s = StreamOf(o, key) /\ ends = EndsLine(marks)
         /\ between = IF w.pending[s] /\ w.last[s] \notin {<<>>, key} THEN <<Newline>> ELSE <<>>
         /\ line = Joint(Joint(w.screen[s], between), marks)
         /\ z = StreamChunk(o, w, key, marks)
  OBVIOUS
<1>2. s \in Streams /\ ends \in BOOLEAN
  BY <1>1 DEF StreamOf, TraceStream, Streams, EndsLine
<1>3. z = [w EXCEPT !.screen[s] = line, !.last[s] = key, !.pending[s] = ~ends]
  BY <1>1 DEF StreamChunk, Joint
<1>4. /\ w.screen \in [Streams -> Seq(Mark)] /\ w.last \in [Streams -> {<<>>} \cup Keys]
      /\ w.pending \in [Streams -> BOOLEAN]
  BY DEF Lines, Shaped, Renderers
<1>5. Tidy(line, ~ends, key)
  <2>1. Tidy(w.screen[s], w.pending[s], w.last[s])
    BY <1>2 DEF Lines
  <2> QED
    BY <1>1, <2>1, TidyGoesOn
<1>6. line \in Seq(Mark)
  BY <1>5 DEF Tidy
<1>7. PICK screen, last, pending :
         /\ screen = [w.screen EXCEPT ![s] = line]
         /\ last = [w.last EXCEPT ![s] = key]
         /\ pending = [w.pending EXCEPT ![s] = ~ends]
  OBVIOUS
<1>8. z = [w EXCEPT !.screen = screen, !.last = last, !.pending = pending]
  BY <1>3, <1>7 DEF Shaped, Renderers
<1>9. /\ screen \in [Streams -> Seq(Mark)] /\ last \in [Streams -> {<<>>} \cup Keys]
      /\ pending \in [Streams -> BOOLEAN]
  BY <1>2, <1>4, <1>6, <1>7
<1>10. /\ z.screen = screen /\ z.last = last /\ z.pending = pending
       /\ z.entries = w.entries /\ SameBesides(w, z) /\ Shaped(z)
  BY <1>8, <1>9 DEF Shaped, Renderers, SameBesides
<1>11. ASSUME NEW t \in Streams PROVE Tidy(screen[t], pending[t], last[t])
  <2>1. CASE t = s
    BY <1>2, <1>4, <1>5, <1>7, <2>1
  <2>2. CASE t # s
    <3>1. screen[t] = w.screen[t] /\ pending[t] = w.pending[t] /\ last[t] = w.last[t]
      BY <1>4, <1>7, <2>2
    <3>2. Tidy(w.screen[t], w.pending[t], w.last[t])
      BY DEF Lines
    <3> QED
      BY <3>1, <3>2
  <2> QED
    BY <2>1, <2>2
<1>12. Lines(z)
  BY <1>9, <1>10, <1>11 DEF Lines
<1>13. Written(line) = Joint(Written(w.screen[s]), Written(marks))
  <2>1. /\ w.screen[s] \in Seq(Mark) /\ marks \in Seq(Mark) /\ between \in Seq(Mark)
        /\ Written(between) = <<>>
    BY <1>1, <1>2, <1>4, NoneWritten, WrittenNothing, MarksOfKey, EmptySeq DEF OfKey
  <2>2. Joint(w.screen[s], between) \in Seq(Mark) /\ Written(w.screen[s]) \in Seq(Mark)
    BY <2>1, JointTyped, WrittenTyped
  <2>3. Written(line) = Joint(Written(Joint(w.screen[s], between)), Written(marks))
    BY <1>1, <2>1, <2>2, WrittenJoint
  <2>4. Written(Joint(w.screen[s], between)) = Joint(Written(w.screen[s]), Written(between))
    BY <2>1, WrittenJoint
  <2>5. Joint(Written(w.screen[s]), <<>>) = Written(w.screen[s])
    BY <2>2, JointNothing
  <2> QED
    BY <2>1, <2>3, <2>4, <2>5, Zenon
<1>14. ASSUME NEW t \in Streams
       PROVE  Written(z.screen[t])
              = Joint(Written(w.screen[t]), IF s = t THEN Written(marks) ELSE <<>>)
  <2>1. CASE t = s
    <3>1. z.screen[t] = line
      BY <1>2, <1>4, <1>7, <1>10, <2>1
    <3> QED
      BY <1>13, <2>1, <3>1, Zenon
  <2>2. CASE t # s
    <3>1. z.screen[t] = w.screen[t] /\ w.screen[t] \in Seq(Mark)
      BY <1>4, <1>7, <1>10, <2>2
    <3>2. Written(w.screen[t]) \in Seq(Mark)
      BY <3>1, WrittenTyped
    <3>3. Joint(Written(w.screen[t]), <<>>) = Written(w.screen[t])
      BY <3>2, JointNothing
    <3> QED
      BY <2>2, <3>1, <3>3, Zenon
  <2> QED
    BY <2>1, <2>2
<1> QED
  BY <1>1, <1>10, <1>12, <1>14, Zenon

-----------------------------------------------------------------------------
(* What was recorded of a key, in order.                                    *)
PartsOf(key, entries) ==
    [i \in 1..Len(entries) |-> IF entries[i][1] = key THEN entries[i][2] ELSE <<>>]
AnswerText(key, entries) == FlattenSeq(PartsOf(key, entries))
Text(o, w) == AnswerText(RootAnswer(o), w.entries)

LEMMA PartsAreTexts ==
    ASSUME NEW key, NEW entries \in Seq(Entry)
    PROVE  /\ PartsOf(key, entries) \in Seq(Seq(Displayed))
           /\ Len(PartsOf(key, entries)) = Len(entries)
<1>1. Len(entries) \in Nat /\ \A i \in 1..Len(entries) : entries[i] \in Entry
  OBVIOUS
<1>2. \A e \in Entry : e[2] \in Seq(Displayed)
  BY DEF Entry
<1>3. <<>> \in Seq(Displayed)
  OBVIOUS
<1> QED
  BY <1>1, <1>2, <1>3 DEF PartsOf

LEMMA JointNone ==
    ASSUME NEW text \in Seq(Displayed)
    PROVE  Joint(text, <<>>) = text /\ Joint(<<>>, text) = text
BY ConcatEmptySeq DEF Joint

LEMMA TextGrows ==
    ASSUME NEW key, NEW entries \in Seq(Entry), NEW e \in Entry
    PROVE  /\ AnswerText(key, entries) \in Seq(Displayed)
           /\ AnswerText(key, Append(entries, e)) =
                Joint(AnswerText(key, entries), IF e[1] = key THEN e[2] ELSE <<>>)
<1>1. PICK more, parts, all :
         /\ more = IF e[1] = key THEN e[2] ELSE <<>>
         /\ parts = PartsOf(key, entries)
         /\ all = PartsOf(key, Append(entries, e))
  OBVIOUS
<1>2. more \in Seq(Displayed) /\ Append(entries, e) \in Seq(Entry)
  BY <1>1 DEF Entry
<1>3. /\ parts \in Seq(Seq(Displayed)) /\ Len(parts) = Len(entries)
      /\ all \in Seq(Seq(Displayed)) /\ Len(all) = Len(Append(entries, e))
  BY <1>1, <1>2, PartsAreTexts
<1>4. all = Append(parts, more)
  <2>1. Len(entries) \in Nat /\ Len(all) = Len(entries) + 1
    BY <1>3
  <2>2. /\ Append(parts, more) \in Seq(Seq(Displayed))
        /\ Len(Append(parts, more)) = Len(entries) + 1
        /\ \A i \in 1..Len(entries) : Append(parts, more)[i] = parts[i]
        /\ Append(parts, more)[Len(entries) + 1] = more
    BY <1>2, <1>3, AppendProperties
  <2>3. \A i \in 1..Len(entries) : all[i] = parts[i]
    BY <1>1, <1>3, <2>1 DEF PartsOf
  <2>4. all[Len(entries) + 1] = more
    <3>1. Len(entries) + 1 \in 1..Len(Append(entries, e))
          /\ Append(entries, e)[Len(entries) + 1] = e
      BY <2>1
    <3> QED
      BY <1>1, <3>1 DEF PartsOf
  <2>5. \A i \in 1..Len(all) : all[i] = Append(parts, more)[i]
    BY <2>1, <2>2, <2>3, <2>4
  <2>6. Len(all) = Len(Append(parts, more))
    BY <2>1, <2>2
  <2> HIDE <2>3, <2>4
  <2> QED
    BY <1>3, <2>2, <2>5, <2>6, SeqEqual
<1>5. FlattenSeq(parts) \in Seq(Displayed)
  BY <1>3, FlattenText
<1>6. FlattenSeq(Append(parts, more)) = Joint(FlattenSeq(parts), more)
  BY <1>2, <1>3, FlattenMore
<1> QED
  BY <1>1, <1>4, <1>5, <1>6, Zenon DEF AnswerText

LEMMA RecordIs ==
    ASSUME NEW o, NEW w, Renders(o, w), NEW key \in Keys, NEW text \in Seq(Displayed),
           NEW marks, Spells(key, text, marks)
    PROVE  /\ Renders(o, Record(o, w, key, text, marks))
           /\ SameBesides(w, Record(o, w, key, text, marks))
           /\ Text(o, w) \in Seq(Displayed)
           /\ key = RootAnswer(o) =>
                Text(o, Record(o, w, key, text, marks)) = Joint(Text(o, w), text)
           /\ key # RootAnswer(o) => Text(o, Record(o, w, key, text, marks)) = Text(o, w)
<1>1. PICK v, z : v = [w EXCEPT !.entries = Append(@, <<key, text>>)]
                  /\ z = Record(o, w, key, text, marks)
  OBVIOUS
<1>2. <<key, text>> \in Entry /\ w.entries \in Seq(Entry) /\ Shaped(w)
  <2>1. IsEntry(key, text)
    BY DEF Spells
  <2> QED
    BY <2>1 DEF Entry, Renders, Shaped, Renderers
<1>3. Append(w.entries, <<key, text>>) \in Seq(Entry)
  BY <1>2
<1>4. PICK entries : entries = Append(w.entries, <<key, text>>)
  OBVIOUS
<1>5. /\ v = [w EXCEPT !.entries = entries] /\ entries \in Seq(Entry)
  BY <1>1, <1>3, <1>4
<1>6. /\ Shaped(v) /\ v.screen = w.screen
      /\ v.pending = w.pending /\ v.last = w.last /\ v.entries = entries
      /\ SameBesides(w, v)
  BY <1>2, <1>5 DEF Shaped, Renderers, SameBesides
<1>7. Renders(o, z) /\ SameBesides(w, z) /\ z.entries = entries
  <2>1. CASE o.mode = "stream"
    <3>1. Lines(w) /\ OfKey(key, marks)
      BY <2>1 DEF Renders, Spells
    <3>2. Lines(v)
      BY <1>6, <3>1 DEF Lines
    <3>3. z = StreamChunk(o, v, key, marks)
      BY <1>1, <2>1 DEF Record
    <3>4. /\ Shaped(StreamChunk(o, v, key, marks)) /\ Lines(StreamChunk(o, v, key, marks))
          /\ SameBesides(v, StreamChunk(o, v, key, marks))
          /\ StreamChunk(o, v, key, marks).entries = v.entries
          /\ \A t \in Streams :
               Written(StreamChunk(o, v, key, marks).screen[t])
               = Joint(Written(v.screen[t]),
                       IF StreamOf(o, key) = t THEN Written(marks) ELSE <<>>)
      BY <1>6, <3>1, <3>2, StreamChunkIsTidy
    <3>5. ASSUME NEW t \in Streams
          PROVE  Written(z.screen[t]) = Expected(o, z.entries, t, Keys)
      <4>1. Written(w.screen[t]) = Expected(o, w.entries, t, Keys)
        BY <2>1 DEF Renders, Copied
      <4>2. Expected(o, entries, t, Keys)
            = Joint(Expected(o, w.entries, t, Keys), ExpectedOf(o, <<key, text>>, t, Keys))
        BY <1>2, <1>4, ExpectedGrows
      <4>3. ExpectedOf(o, <<key, text>>, t, Keys)
            = IF StreamOf(o, key) = t THEN Written(marks) ELSE <<>>
        <5>1. <<key, text>>[1] = key /\ <<key, text>>[2] = text
          OBVIOUS
        <5>2. Written(marks) = Written(Marks(key, text))
          BY DEF Spells
        <5> QED
          BY <5>1, <5>2, Zenon DEF ExpectedOf
      <4>4. Written(z.screen[t])
            = Joint(Written(w.screen[t]), IF StreamOf(o, key) = t THEN Written(marks) ELSE <<>>)
        BY <1>6, <3>3, <3>4, Zenon
      <4> QED
        BY <1>6, <3>3, <3>4, <4>1, <4>2, <4>3, <4>4, Zenon
    <3>6. Copied(o, z)
      BY <2>1, <3>5 DEF Copied
    <3> QED
      BY <1>6, <3>3, <3>4, <3>6 DEF Renders, SameBesides
  <2>2. CASE o.mode # "stream"
    <3>1. z = v
      BY <1>1, <2>2 DEF Record
    <3>2. Copied(o, z)
      BY <1>6, <2>2, <3>1 DEF Renders, Copied
    <3> QED
      BY <1>6, <2>2, <3>1, <3>2 DEF Renders
  <2> QED
    BY <2>1, <2>2
<1>8. /\ AnswerText(RootAnswer(o), w.entries) \in Seq(Displayed)
      /\ AnswerText(RootAnswer(o), entries) =
           Joint(AnswerText(RootAnswer(o), w.entries),
                 IF <<key, text>>[1] = RootAnswer(o) THEN <<key, text>>[2] ELSE <<>>)
  BY <1>2, <1>4, TextGrows
<1>9. <<key, text>>[1] = key /\ <<key, text>>[2] = text
  OBVIOUS
<1>10. Joint(AnswerText(RootAnswer(o), w.entries), <<>>) = AnswerText(RootAnswer(o), w.entries)
  BY <1>8, JointNone
<1>11. Text(o, w) = AnswerText(RootAnswer(o), w.entries) /\ Text(o, z) = AnswerText(RootAnswer(o), entries)
  BY <1>7 DEF Text
<1> QED
  BY <1>1, <1>7, <1>8, <1>9, <1>10, <1>11, Zenon

LEMMA AlikeRenders ==
    ASSUME NEW o, NEW w, NEW v, Renders(o, w), Shaped(v), v.screen = w.screen,
           v.pending = w.pending, v.last = w.last, v.entries = w.entries
    PROVE  Renders(o, v) /\ Text(o, v) = Text(o, w)
<1>1. Lines(w) => Lines(v)
  BY DEF Lines
<1>2. Copied(o, w) => Copied(o, v)
  BY Zenon DEF Copied
<1> QED
  BY <1>1, <1>2 DEF Renders, Text

(* The text of a key is recorded with the label it needs.                   *)
LEMMA RecordTextIs ==
    ASSUME NEW o, NEW w, Renders(o, w), NEW key \in Agents \X Spoken,
           NEW text \in Seq(Displayed)
    PROVE  /\ Renders(o, RecordText(o, w, key, text))
           /\ RecordText(o, w, key, text).streaming = w.streaming
           /\ RecordText(o, w, key, text).held = w.held
           /\ Text(o, w) \in Seq(Displayed)
           /\ key = RootAnswer(o) =>
                Text(o, RecordText(o, w, key, text)) = Joint(Text(o, w), text)
           /\ key # RootAnswer(o) => Text(o, RecordText(o, w, key, text)) = Text(o, w)
<1>1. PICK labelled, header, v, z :
         /\ labelled = IF o.mode = "stream" /\ key[1] # o.root
                       THEN w.labelled \cup {key} ELSE w.labelled
         /\ header = IF HasLabel(o, w, key) THEN <<>> ELSE Label(key)
         /\ v = [w EXCEPT !.labelled = labelled]
         /\ z = Record(o, v, key, text, header \o Marks(key, text))
  OBVIOUS
<1>2. z = RecordText(o, w, key, text)
  BY <1>1 DEF RecordText
<1>3. Shaped(w) /\ w.labelled \subseteq Agents \X Spoken
  BY DEF Renders, Shaped, Renderers
<1>4. labelled \subseteq Agents \X Spoken
  BY <1>1, <1>3
<1>5. /\ Shaped(v) /\ v.screen = w.screen /\ v.pending = w.pending /\ v.last = w.last
      /\ v.entries = w.entries /\ v.streaming = w.streaming /\ v.held = w.held
  BY <1>1, <1>3, <1>4 DEF Shaped, Renderers
<1>6. Renders(o, v) /\ Text(o, v) = Text(o, w)
  BY <1>5, AlikeRenders
<1>7. key \in Keys /\ key[2] # "tool_calls"
  BY DEF Keys, Spoken, Channels
<1>8. Spells(key, text, header \o Marks(key, text))
  BY <1>1, <1>7, SpellsText, Zenon
<1>9. /\ Renders(o, Record(o, v, key, text, header \o Marks(key, text)))
      /\ SameBesides(v, Record(o, v, key, text, header \o Marks(key, text)))
      /\ Text(o, v) \in Seq(Displayed)
      /\ key = RootAnswer(o) =>
           Text(o, Record(o, v, key, text, header \o Marks(key, text))) = Joint(Text(o, v), text)
      /\ key # RootAnswer(o) =>
           Text(o, Record(o, v, key, text, header \o Marks(key, text))) = Text(o, v)
  BY <1>6, <1>7, <1>8, RecordIs
<1>10. /\ Renders(o, z) /\ SameBesides(v, z) /\ Text(o, v) \in Seq(Displayed)
       /\ key = RootAnswer(o) => Text(o, z) = Joint(Text(o, v), text)
       /\ key # RootAnswer(o) => Text(o, z) = Text(o, v)
  BY <1>1, <1>9, Zenon
<1>11. z.streaming = w.streaming /\ z.held = w.held
  BY <1>5, <1>10 DEF SameBesides
<1> QED
  BY <1>2, <1>6, <1>10, <1>11, Zenon

LEMMA ChunkText ==
    ASSUME NEW y \in Seq(Pieces), NEW flush \in BOOLEAN
    PROVE  /\ Chunk(y, flush).shown \in Seq(Displayed)
           /\ Chunk(y, flush).held \in {<<>>, <<"head">>, <<"head", "id">>}
<1>1. /\ Whole(y) \in Seq(Pieces) /\ Held(y) \in {<<>>, <<"head">>, <<"head", "id">>}
  BY WholeAndHeld
<1>2. Expanded(y) \in Seq(Displayed) /\ Expanded(Whole(y)) \in Seq(Displayed)
  BY <1>1, ExpandText
<1>3. flush = TRUE \/ flush = FALSE
  OBVIOUS
<1> QED
  BY <1>1, <1>2, <1>3, ChunkShows

(* The root's answer: what was held goes before the text.                   *)
Answered(o, w, z, chunk) ==
    /\ Renders(o, z) /\ z.streaming = w.streaming /\ z.held = chunk.held
    /\ Text(o, w) \in Seq(Displayed)
    /\ Enabled(o, RootAnswer(o)) => Text(o, z) = Joint(Text(o, w), chunk.shown)
    /\ ~Enabled(o, RootAnswer(o)) => Text(o, z) = Text(o, w)

LEMMA WriteAnswerIs ==
    ASSUME NEW o, NEW w, Renders(o, w), o.root \in Agents, NEW text, NEW flush \in BOOLEAN,
           NEW y \in Seq(Pieces), y = Joint(w.held, text)
    PROVE  Answered(o, w, WriteAnswer(o, w, text, flush), Chunk(y, flush))
<1>1. PICK part, held, kept, z :
         /\ part = Chunk(y, flush).shown /\ held = Chunk(y, flush).held
         /\ kept = [w EXCEPT !.held = held]
         /\ z = WriteAnswer(o, w, text, flush)
  OBVIOUS
<1>2. part \in Seq(Displayed) /\ held \in {<<>>, <<"head">>, <<"head", "id">>}
  <2>2. /\ Chunk(y, flush).shown \in Seq(Displayed)
        /\ Chunk(y, flush).held \in {<<>>, <<"head">>, <<"head", "id">>}
    BY ChunkText
  <2> QED
    BY <1>1, <2>2, Zenon
<1>3. z = IF part = <<>> \/ ~Enabled(o, RootAnswer(o)) THEN kept
          ELSE RecordText(o, kept, RootAnswer(o), part)
  BY <1>1, Zenon DEF WriteAnswer, Joint
<1>4. Shaped(w)
  BY DEF Renders
<1>5. /\ Shaped(kept) /\ kept.screen = w.screen /\ kept.pending = w.pending /\ kept.last = w.last
      /\ kept.entries = w.entries /\ kept.streaming = w.streaming /\ kept.held = held
  BY <1>1, <1>2, <1>4 DEF Shaped, Renderers
<1>6. Renders(o, kept) /\ Text(o, kept) = Text(o, w)
  BY <1>5, AlikeRenders
<1>7. RootAnswer(o) \in Agents \X Spoken
  BY DEF RootAnswer, Spoken
<1>8. /\ Renders(o, RecordText(o, kept, RootAnswer(o), part))
      /\ RecordText(o, kept, RootAnswer(o), part).streaming = kept.streaming
      /\ RecordText(o, kept, RootAnswer(o), part).held = kept.held
      /\ Text(o, kept) \in Seq(Displayed)
      /\ Text(o, RecordText(o, kept, RootAnswer(o), part)) = Joint(Text(o, kept), part)
  BY <1>2, <1>6, <1>7, RecordTextIs
<1>9. Joint(Text(o, w), <<>>) = Text(o, w)
  BY <1>6, <1>8, JointNone
<1>10. /\ Renders(o, z) /\ z.streaming = w.streaming /\ z.held = held
       /\ Enabled(o, RootAnswer(o)) => Text(o, z) = Joint(Text(o, w), part)
       /\ ~Enabled(o, RootAnswer(o)) => Text(o, z) = Text(o, w)
  <2>1. CASE part = <<>> \/ ~Enabled(o, RootAnswer(o))
    <3>1. z = kept
      BY <1>3, <2>1
    <3> QED
      BY <1>5, <1>6, <1>9, <2>1, <3>1
  <2>2. CASE part # <<>> /\ Enabled(o, RootAnswer(o))
    <3>1. z = RecordText(o, kept, RootAnswer(o), part)
      BY <1>3, <2>2
    <3> QED
      BY <1>5, <1>6, <1>8, <2>2, <3>1
  <2> QED
    BY <2>1, <2>2
<1>11. Text(o, w) \in Seq(Displayed)
  BY <1>6, <1>8
<1> QED
  BY <1>1, <1>10, <1>11, Zenon DEF Answered

-----------------------------------------------------------------------------
(* What the renderer does to the root's answer: nothing,                    *)
Quiet(o, w, z) ==
    /\ Renders(o, z)
    /\ Text(o, z) = Text(o, w)
    /\ z.held = w.held
    /\ RootAnswer(o) \in z.streaming <=> RootAnswer(o) \in w.streaming

(* or it adds a text to it.                                                 *)
Adds(o, w, z, text) ==
    /\ Renders(o, z)
    /\ Text(o, w) \in Seq(Displayed)
    /\ Text(o, z) = Joint(Text(o, w), text)

Restreamed(w, S) == [w EXCEPT !.streaming = S]
Unlabelled(w, S, L) == [w EXCEPT !.streaming = S, !.labelled = L]
Likewise(o, w, v, S) ==
    Renders(o, v) /\ Text(o, v) = Text(o, w) /\ v.streaming = S /\ v.held = w.held

LEMMA StreamingChanges ==
    ASSUME NEW o, NEW w, Renders(o, w), NEW S, S \subseteq Agents \X Spoken
    PROVE  Likewise(o, w, Restreamed(w, S), S)
<1>1. PICK v : v = Restreamed(w, S)
  OBVIOUS
<1>2. Shaped(w)
  BY DEF Renders
<1>3. /\ Shaped(v) /\ v.screen = w.screen /\ v.pending = w.pending /\ v.last = w.last
      /\ v.entries = w.entries /\ v.streaming = S /\ v.held = w.held
  BY <1>1, <1>2 DEF Shaped, Renderers, Restreamed
<1>4. Renders(o, v) /\ Text(o, v) = Text(o, w)
  BY <1>3, AlikeRenders
<1> QED
  BY <1>1, <1>3, <1>4, Zenon DEF Likewise

LEMMA BothChange ==
    ASSUME NEW o, NEW w, Renders(o, w), NEW S, S \subseteq Agents \X Spoken,
           NEW L, L \subseteq Agents \X Spoken
    PROVE  Likewise(o, w, Unlabelled(w, S, L), S)
<1>1. PICK v : v = Unlabelled(w, S, L)
  OBVIOUS
<1>2. Shaped(w)
  BY DEF Renders
<1>3. /\ Shaped(v) /\ v.screen = w.screen /\ v.pending = w.pending /\ v.last = w.last
      /\ v.entries = w.entries /\ v.streaming = S /\ v.held = w.held
  BY <1>1, <1>2 DEF Shaped, Renderers, Unlabelled
<1>4. Renders(o, v) /\ Text(o, v) = Text(o, w)
  BY <1>3, AlikeRenders
<1> QED
  BY <1>1, <1>3, <1>4, Zenon DEF Likewise

LEMMA StreamingTyped ==
    ASSUME NEW o, NEW w, Renders(o, w)
    PROVE  w.streaming \subseteq Agents \X Spoken /\ w.labelled \subseteq Agents \X Spoken
BY DEF Renders, Shaped, Renderers

(* A delta of another key                                                   *)
LEMMA OtherDelta ==
    ASSUME NEW o, NEW w, Renders(o, w), NEW key \in Agents \X Spoken, key # RootAnswer(o),
           NEW text \in Seq(Displayed)
    PROVE  Quiet(o, w, WriteDelta(o, w, key, text))
<1>1. PICK S, v, z : /\ S = w.streaming \cup {key}
                     /\ v = Restreamed(w, S)
                     /\ z = WriteDelta(o, w, key, text)
  OBVIOUS
<1>2. CASE text = <<>> \/ ~Enabled(o, key)
  <2>1. z = w
    BY <1>1, <1>2 DEF WriteDelta
  <2> QED
    BY <1>1, <2>1 DEF Quiet
<1>3. CASE text # <<>> /\ Enabled(o, key)
  <2>1. z = RecordText(o, v, key, text)
    BY <1>1, <1>3 DEF WriteDelta, Restreamed
  <2>2. S \subseteq Agents \X Spoken
    BY <1>1, StreamingTyped
  <2>3. Renders(o, v) /\ Text(o, v) = Text(o, w) /\ v.streaming = S /\ v.held = w.held
    BY <1>1, <2>2, StreamingChanges DEF Likewise
  <2>4. /\ Renders(o, RecordText(o, v, key, text))
        /\ RecordText(o, v, key, text).streaming = v.streaming
        /\ RecordText(o, v, key, text).held = v.held
        /\ Text(o, RecordText(o, v, key, text)) = Text(o, v)
    BY <2>3, RecordTextIs
  <2>5. RootAnswer(o) \in S <=> RootAnswer(o) \in w.streaming
    BY <1>1
  <2> QED
    BY <1>1, <2>1, <2>3, <2>4, <2>5 DEF Quiet
<1> QED
  BY <1>2, <1>3

(* and one of the root's answer                                             *)
LEMMA AnswerDelta ==
    ASSUME NEW o, NEW w, Renders(o, w), o.root \in Agents, NEW text, text # <<>>,
           Enabled(o, RootAnswer(o)), NEW y \in Seq(Pieces), y = Joint(w.held, text)
    PROVE  /\ Adds(o, w, WriteDelta(o, w, RootAnswer(o), text), Expanded(Whole(y)))
           /\ WriteDelta(o, w, RootAnswer(o), text).held = Held(y)
           /\ RootAnswer(o) \in WriteDelta(o, w, RootAnswer(o), text).streaming
<1>1. PICK S, v, z : /\ S = w.streaming \cup {RootAnswer(o)}
                     /\ v = Restreamed(w, S)
                     /\ z = WriteDelta(o, w, RootAnswer(o), text)
  OBVIOUS
<1>2. z = WriteAnswer(o, v, text, FALSE)
  BY <1>1, Zenon DEF WriteDelta, Restreamed
<1>3. S \subseteq Agents \X Spoken
  <2>1. RootAnswer(o) \in Agents \X Spoken
    BY DEF RootAnswer, Spoken
  <2> QED
    BY <1>1, <2>1, StreamingTyped
<1>4. Renders(o, v) /\ Text(o, v) = Text(o, w) /\ v.streaming = S /\ v.held = w.held
  BY <1>1, <1>3, StreamingChanges DEF Likewise
<1>5. y = Joint(v.held, text) /\ FALSE \in BOOLEAN
  BY <1>4, Zenon
<1>6. Answered(o, v, WriteAnswer(o, v, text, FALSE), Chunk(y, FALSE))
  BY <1>4, <1>5, WriteAnswerIs, Zenon
<1>7. Chunk(y, FALSE).shown = Expanded(Whole(y)) /\ Chunk(y, FALSE).held = Held(y)
  BY ChunkShows
<1>8. RootAnswer(o) \in S
  BY <1>1
<1> QED
  BY <1>1, <1>2, <1>4, <1>6, <1>7, <1>8, Zenon DEF Adds, Answered

LEMMA HeldIsText ==
    ASSUME NEW o, NEW w, Renders(o, w)
    PROVE  w.held \in Seq(Pieces) /\ w.held = Joint(w.held, <<>>)
<1>1. w.held \in {<<>>, <<"head">>, <<"head", "id">>}
  BY DEF Renders, Shaped, Renderers
<1>2. <<>> \in Seq(Pieces) /\ <<"head">> \in Seq(Pieces) /\ <<"head", "id">> \in Seq(Pieces)
  BY DEF Pieces
<1>3. w.held \in Seq(Pieces)
  BY <1>1, <1>2, Zenon
<1>4. w.held \in Seq(Displayed)
  BY <1>3, PiecesAreDisplayed
<1> QED
  BY <1>3, <1>4, JointNone

(* A final text of another key                                              *)
LEMMA OtherFinal ==
    ASSUME NEW o, NEW w, Renders(o, w), NEW key \in Agents \X Spoken, key # RootAnswer(o),
           NEW text \in Seq(Displayed)
    PROVE  Quiet(o, w, WriteFinal(o, w, key, text))
<1>1. PICK S, L, z : /\ S = w.streaming \ {key} /\ L = w.labelled \ {key}
                     /\ z = WriteFinal(o, w, key, text)
  OBVIOUS
<1>2. CASE key \in w.streaming
  <2>1. z = Unlabelled(w, S, L)
    BY <1>1, <1>2, Zenon DEF WriteFinal, EndStreamed, Unlabelled
  <2>2. S \subseteq Agents \X Spoken /\ L \subseteq Agents \X Spoken
    BY <1>1, StreamingTyped
  <2>3. Likewise(o, w, Unlabelled(w, S, L), S)
    BY <2>2, BothChange
  <2>4. RootAnswer(o) \in S <=> RootAnswer(o) \in w.streaming
    BY <1>1
  <2> QED
    BY <1>1, <2>1, <2>3, <2>4, Zenon DEF Likewise, Quiet
<1>3. CASE key \notin w.streaming /\ (text = <<>> \/ ~Enabled(o, key))
  <2>1. z = w
    BY <1>1, <1>3 DEF WriteFinal
  <2> QED
    BY <1>1, <2>1 DEF Quiet
<1>4. CASE key \notin w.streaming /\ text # <<>> /\ Enabled(o, key)
  <2>1. z = RecordText(o, w, key, text)
    BY <1>1, <1>4 DEF WriteFinal
  <2>2. /\ Renders(o, RecordText(o, w, key, text))
        /\ RecordText(o, w, key, text).streaming = w.streaming
        /\ RecordText(o, w, key, text).held = w.held
        /\ Text(o, RecordText(o, w, key, text)) = Text(o, w)
    BY RecordTextIs
  <2> QED
    BY <1>1, <2>1, <2>2 DEF Quiet
<1> QED
  BY <1>2, <1>3, <1>4

(* and of the root's answer: what is held, when it is streamed,             *)
LEMMA StreamedFinal ==
    ASSUME NEW o, NEW w, Renders(o, w), o.root \in Agents, NEW text,
           RootAnswer(o) \in w.streaming, Enabled(o, RootAnswer(o))
    PROVE  /\ Adds(o, w, WriteFinal(o, w, RootAnswer(o), text), Expanded(w.held))
           /\ WriteFinal(o, w, RootAnswer(o), text).held = <<>>
           /\ RootAnswer(o) \notin WriteFinal(o, w, RootAnswer(o), text).streaming
<1>1. PICK v, y, S, L, z :
         /\ v = WriteAnswer(o, w, <<>>, TRUE) /\ y = w.held
         /\ S = v.streaming \ {RootAnswer(o)} /\ L = v.labelled \ {RootAnswer(o)}
         /\ z = WriteFinal(o, w, RootAnswer(o), text)
  OBVIOUS
<1>2. z = Unlabelled(v, S, L)
  BY <1>1, Zenon DEF WriteFinal, EndStreamed, Unlabelled
<1>3. y \in Seq(Pieces) /\ y = Joint(w.held, <<>>) /\ TRUE \in BOOLEAN
  BY <1>1, HeldIsText
<1>4. Answered(o, w, WriteAnswer(o, w, <<>>, TRUE), Chunk(y, TRUE))
  BY <1>3, WriteAnswerIs, Zenon
<1>5. Chunk(y, TRUE).shown = Expanded(y) /\ Chunk(y, TRUE).held = <<>>
  BY <1>3, ChunkShows
<1>6. Renders(o, v) /\ v.held = <<>> /\ Adds(o, w, v, Expanded(w.held))
  BY <1>1, <1>4, <1>5, Zenon DEF Answered, Adds
<1>7. S \subseteq Agents \X Spoken /\ L \subseteq Agents \X Spoken
  BY <1>1, <1>6, StreamingTyped
<1>8. Likewise(o, v, Unlabelled(v, S, L), S)
  BY <1>6, <1>7, BothChange
<1>9. RootAnswer(o) \notin S
  BY <1>1
<1> QED
  BY <1>1, <1>2, <1>6, <1>8, <1>9, Zenon DEF Likewise, Adds

(* all of it when it is not.                                                *)
LEMMA WholeFinal ==
    ASSUME NEW o, NEW w, Renders(o, w), o.root \in Agents, NEW text, text # <<>>,
           RootAnswer(o) \notin w.streaming, Enabled(o, RootAnswer(o)),
           NEW y \in Seq(Pieces), y = Joint(w.held, text)
    PROVE  /\ Adds(o, w, WriteFinal(o, w, RootAnswer(o), text), Expanded(y))
           /\ WriteFinal(o, w, RootAnswer(o), text).held = <<>>
           /\ RootAnswer(o) \notin WriteFinal(o, w, RootAnswer(o), text).streaming
<1>1. WriteFinal(o, w, RootAnswer(o), text) = WriteAnswer(o, w, text, TRUE)
  BY Zenon DEF WriteFinal
<1>2. TRUE \in BOOLEAN
  OBVIOUS
<1>3. Answered(o, w, WriteAnswer(o, w, text, TRUE), Chunk(y, TRUE))
  BY <1>2, WriteAnswerIs, Zenon
<1>4. Chunk(y, TRUE).shown = Expanded(y) /\ Chunk(y, TRUE).held = <<>>
  BY ChunkShows
<1> QED
  BY <1>1, <1>3, <1>4, Zenon DEF Answered, Adds

LEMMA HiddenFinal ==
    ASSUME NEW o, NEW w, Renders(o, w), NEW text,
           RootAnswer(o) \notin w.streaming, ~Enabled(o, RootAnswer(o))
    PROVE  /\ WriteFinal(o, w, RootAnswer(o), text) = w
           /\ WriteDelta(o, w, RootAnswer(o), text) = w
BY Zenon DEF WriteFinal, WriteDelta

(* The rest is never of the root's answer.                                  *)
LEMMA QuietRecord ==
    ASSUME NEW o, NEW w, Renders(o, w), NEW key \in Keys, key # RootAnswer(o),
           NEW text \in Seq(Displayed), NEW marks, Spells(key, text, marks)
    PROVE  Quiet(o, w, Record(o, w, key, text, marks))
<1>1. /\ Renders(o, Record(o, w, key, text, marks))
      /\ SameBesides(w, Record(o, w, key, text, marks))
      /\ Text(o, Record(o, w, key, text, marks)) = Text(o, w)
  BY RecordIs
<1> QED
  BY <1>1 DEF SameBesides, Quiet

LEMMA QuietNot ==
    ASSUME NEW o, NEW w, Renders(o, w)
    PROVE  Quiet(o, w, w)
BY DEF Quiet

LEMMA QuietTwice ==
    ASSUME NEW o, NEW u, NEW v, NEW w, Quiet(o, u, v), Quiet(o, v, w)
    PROVE  Quiet(o, u, w)
BY DEF Quiet

LEMMA PromptIsQuiet ==
    ASSUME NEW o, NEW w, Renders(o, w), NEW agent \in Agents, NEW text \in Seq(Displayed)
    PROVE  Quiet(o, w, WritePrompt(o, w, agent, text))
<1>1. PICK key, marks, z :
         /\ key = <<agent, "prompt">> /\ marks = Label(key) \o Marks(key, text) \o <<Newline>>
         /\ z = WritePrompt(o, w, agent, text)
  OBVIOUS
<1>2. key \in Keys /\ key # RootAnswer(o) /\ key[2] # "tool_calls"
  BY <1>1 DEF Keys, Channels, RootAnswer
<1>3. Spells(key, text, marks)
  BY <1>1, <1>2, SpellsText, Zenon
<1>4. z = IF ~Enabled(o, key) THEN w ELSE Record(o, w, key, text, marks)
  BY <1>1, Zenon DEF WritePrompt
<1>5. Quiet(o, w, Record(o, w, key, text, marks)) /\ Quiet(o, w, w)
  BY <1>2, <1>3, QuietRecord, QuietNot
<1> QED
  BY <1>1, <1>4, <1>5, Zenon

LEMMA ToolCallIsQuiet ==
    ASSUME NEW o, NEW w, Renders(o, w), NEW agent \in Agents, NEW name,
           NEW text \in Seq(Displayed)
    PROVE  Quiet(o, w, WriteToolCall(o, w, agent, name, text))
<1>1. PICK key, z : key = <<agent, "tool_calls">> /\ z = WriteToolCall(o, w, agent, name, text)
  OBVIOUS
<1>2. key \in Keys /\ key # RootAnswer(o)
  BY <1>1 DEF Keys, Channels, RootAnswer
<1>3. CASE name \in SubAgents(o)
  <2>1. name \in Agents
    BY <1>3 DEF SubAgents, Agents
  <2>2. z = WritePrompt(o, w, name, text)
    BY <1>1, <1>3, Zenon DEF WriteToolCall
  <2> QED
    BY <1>1, <2>1, <2>2, PromptIsQuiet
<1>4. CASE name \notin SubAgents(o)
  <2>1. z = IF ~Enabled(o, key) THEN w ELSE Record(o, w, key, <<"label">>, Label(key))
    BY <1>1, <1>4, Zenon DEF WriteToolCall
  <2>2. <<"label">> \in Seq(Displayed)
    BY DEF Displayed
  <2>3. Spells(key, <<"label">>, Label(key))
    BY <1>2, SpellsLabel
  <2>4. Quiet(o, w, Record(o, w, key, <<"label">>, Label(key))) /\ Quiet(o, w, w)
    BY <1>2, <2>2, <2>3, QuietRecord, QuietNot
  <2> QED
    BY <1>1, <2>1, <2>4, Zenon
<1> QED
  BY <1>3, <1>4

LEMMA ToolResultIsQuiet ==
    ASSUME NEW o, NEW w, Renders(o, w), NEW agent \in Agents, NEW name,
           NEW text \in Seq(Displayed)
    PROVE  Quiet(o, w, WriteToolResult(o, w, agent, name, text))
<1>1. PICK key, sub, marks, z :
         /\ key = <<agent, "tool_results">> /\ sub = <<name, "answer">>
         /\ marks = Label(key) \o Marks(key, text) \o <<Newline>>
         /\ z = WriteToolResult(o, w, agent, name, text)
  OBVIOUS
<1>2. key \in Keys /\ key # RootAnswer(o) /\ key[2] # "tool_calls"
  BY <1>1 DEF Keys, Channels, RootAnswer
<1>3. CASE name \in SubAgents(o) /\ Enabled(o, sub)
  <2>1. name \in Agents /\ name # o.root
    BY <1>3, AgentsAssumption DEF SubAgents, Agents
  <2>2. sub \in Agents \X Spoken /\ sub # RootAnswer(o)
    BY <1>1, <2>1 DEF Spoken, RootAnswer
  <2>3. z = WriteFinal(o, w, sub, text)
    BY <1>1, <1>3, Zenon DEF WriteToolResult
  <2> QED
    BY <1>1, <2>2, <2>3, OtherFinal
<1>4. CASE ~(name \in SubAgents(o) /\ Enabled(o, sub))
  <2>1. z = IF ~Enabled(o, key) THEN w ELSE Record(o, w, key, text, marks)
    BY <1>1, <1>4, Zenon DEF WriteToolResult
  <2>2. Spells(key, text, marks)
    BY <1>1, <1>2, SpellsText, Zenon
  <2>3. Quiet(o, w, Record(o, w, key, text, marks)) /\ Quiet(o, w, w)
    BY <1>2, <2>2, QuietRecord, QuietNot
  <2> QED
    BY <1>1, <2>1, <2>3, Zenon
<1> QED
  BY <1>3, <1>4

(* Finish.  Lines that are complete.                                        *)
IsComplete(line) == line = <<>> \/ EndsLine(line)

LEMMA NewlineEnds ==
    ASSUME NEW line \in Seq(Mark)
    PROVE  /\ Append(line, Newline) \in Seq(Mark) /\ Written(Append(line, Newline)) = Written(line)
           /\ IsComplete(Append(line, Newline))
<1>1. Newline \in Mark /\ WrittenOf(Newline) = <<>> /\ Written(line) \in Seq(Mark)
  BY WrittenTyped DEF Mark, WrittenOf
<1>2. PICK nl \in Mark : nl = Newline
  BY <1>1
<1>3. /\ Append(line, nl) \in Seq(Mark) /\ Append(line, nl) # <<>>
      /\ Append(line, nl)[Len(Append(line, nl))] = nl
  BY AppendProperties
<1>4. Written(Append(line, Newline)) = Joint(Written(line), <<>>)
  BY <1>1, WrittenAppend
<1>5. Joint(Written(line), <<>>) = Written(line)
  BY <1>1, JointNothing
<1> QED
  BY <1>2, <1>3, <1>4, <1>5, Zenon DEF IsComplete, EndsLine, Last

LEMMA LineIs ==
    ASSUME NEW marks \in Seq(Mark)
    PROVE  Line(marks) \in Seq(Mark) /\ Written(Line(marks)) = Written(marks) /\ IsComplete(Line(marks))
BY NewlineEnds, Zenon DEF Line, IsComplete

LEMMA CompleteJoint ==
    ASSUME NEW s \in Seq(Mark), NEW t \in Seq(Mark), IsComplete(s), IsComplete(t)
    PROVE  IsComplete(Joint(s, t))
<1>1. CASE t = <<>>
  BY <1>1, JointNothing
<1>2. CASE t # <<>>
  <2>1. PICK m, n, st : m = Len(s) /\ n = Len(t) /\ st = Joint(s, t)
    OBVIOUS
  <2>2. /\ m \in Nat /\ n \in Nat /\ st \in Seq(Mark) /\ Len(st) = m + n
        /\ \A i \in 1..m + n : st[i] = IF i <= m THEN s[i] ELSE t[i - m]
    BY <2>1, ConcatProperties DEF Joint
  <2>3. n > 0 /\ t[n] = Newline
    BY <1>2, <2>1 DEF IsComplete, EndsLine, Last
  <2>4. m + n \in 1..m + n /\ ~(m + n <= m) /\ (m + n) - m = n
    BY <2>2, <2>3
  <2>5. st[m + n] = t[n]
    BY <2>2, <2>4
  <2>6. st # <<>>
    BY <2>2, <2>3
  <2> QED
    BY <2>1, <2>2, <2>3, <2>5, <2>6 DEF IsComplete, EndsLine, Last
<1> QED
  BY <1>1, <1>2

LEMMA ExpectedIs ==
    ASSUME NEW o, NEW entries \in Seq(Entry), NEW s, NEW keys, NEW parts \in Seq(Seq(Mark)),
           Len(parts) = Len(entries),
           \A i \in 1..Len(entries) : Written(parts[i]) = ExpectedOf(o, entries[i], s, keys)
    PROVE  Written(FlattenSeq(parts)) = Expected(o, entries, s, keys)
<1>1. PICK want, each : want = ExpectedParts(o, entries, s, keys) /\ each = WrittenEach(parts)
  OBVIOUS
<1>2. /\ want \in Seq(Seq(Mark)) /\ Len(want) = Len(entries)
      /\ \A i \in 1..Len(entries) : want[i] = ExpectedOf(o, entries[i], s, keys)
      /\ Expected(o, entries, s, keys) = FlattenSeq(want)
  BY <1>1, ExpectedTyped
<1>3. /\ Len(entries) \in Nat /\ each = [i \in 1..Len(entries) |-> Written(parts[i])]
      /\ \A i \in 1..Len(entries) : Written(parts[i]) = want[i] /\ want[i] \in Seq(Mark)
  BY <1>1, <1>2 DEF WrittenEach
<1>4. each \in Seq(Seq(Mark)) /\ Len(each) = Len(entries)
  BY <1>3
<1>5. \A i \in 1..Len(each) : each[i] = want[i]
  BY <1>3, <1>4
<1>6. each = want
  BY <1>2, <1>4, <1>5, SeqEqual
<1>7. Written(FlattenSeq(parts)) = FlattenSeq(each)
  BY <1>1, WrittenFlat
<1> QED
  BY <1>2, <1>6, <1>7, Zenon

LEMMA ExpectedNone ==
    ASSUME NEW o, NEW entries \in Seq(Entry), NEW s, NEW keys,
           \A i \in 1..Len(entries) : ~(StreamOf(o, entries[i][1]) = s /\ entries[i][1] \in keys)
    PROVE  Expected(o, entries, s, keys) = <<>>
<1>1. Len(entries) \in Nat
  OBVIOUS
<1>2. PICK none : none = [i \in 1..Len(entries) |-> <<>>]
  OBVIOUS
<1>3. ExpectedParts(o, entries, s, keys) = none
  BY <1>2 DEF ExpectedParts
<1>4. FlattenSeq(none) = <<>>
  BY <1>1, <1>2, FlattenNone
<1> QED
  BY <1>3, <1>4, Zenon DEF Expected, ExpectedParts

LEMMA StreamsOf ==
    ASSUME NEW o, NEW key
    PROVE  /\ StreamOf(o, key) \in Streams
           /\ TraceStream(o) # "stderr" => StreamOf(o, key) = "stdout"
           /\ TraceStream(o) = "stderr" =>
                StreamOf(o, key) = IF key = RootAnswer(o) THEN "stdout" ELSE "stderr"
           /\ o.mode = "json" => TraceStream(o) # "stderr"
BY DEF StreamOf, TraceStream, Streams

(* JSON                                                                     *)
LEMMA JsonPrints ==
    ASSUME NEW o, o.mode = "json", NEW entries \in Seq(Entry), NEW w, w.entries = entries
    PROVE  /\ Json(w) \in Seq(Mark)
           /\ Written(Json(w)) = Expected(o, entries, "stdout", Keys)
           /\ Expected(o, entries, "stderr", Keys) = <<>>
<1>1. PICK parts : parts = [i \in 1..Len(entries) |-> Marks(entries[i][1], entries[i][2])]
  OBVIOUS
<1>2. Len(entries) \in Nat /\ \A i \in 1..Len(entries) : entries[i] \in Entry
  OBVIOUS
<1>3. \A i \in 1..Len(entries) : /\ entries[i][1] \in Keys
                                 /\ Marks(entries[i][1], entries[i][2]) \in Seq(Mark)
  BY <1>2, EntryMarks
<1>4. parts \in Seq(Seq(Mark)) /\ Len(parts) = Len(entries)
  BY <1>1, <1>2, <1>3
<1>5. Json(w) = FlattenSeq(parts)
  BY <1>1, Zenon DEF Json
<1>6. \A i \in 1..Len(entries) : StreamOf(o, entries[i][1]) = "stdout"
  BY StreamsOf
<1>7. ASSUME NEW i \in 1..Len(entries)
      PROVE  Written(parts[i]) = ExpectedOf(o, entries[i], "stdout", Keys)
  <2>1. parts[i] = Marks(entries[i][1], entries[i][2])
    BY <1>1
  <2> QED
    BY <1>3, <1>6, <2>1, Zenon DEF ExpectedOf
<1>8. Written(FlattenSeq(parts)) = Expected(o, entries, "stdout", Keys)
  BY <1>4, <1>7, ExpectedIs
<1>9. Expected(o, entries, "stderr", Keys) = <<>>
  <2>1. "stdout" # "stderr"
    OBVIOUS
  <2> QED
    BY <1>6, <2>1, ExpectedNone
<1> QED
  BY <1>4, <1>5, <1>8, <1>9, FlattenText

(* Buffered output                                                          *)
LEMMA RenderedSpells ==
    ASSUME NEW o, NEW e \in Entry
    PROVE  Rendered(o, e) \in Seq(Mark) /\ Written(Rendered(o, e)) = Written(Marks(e[1], e[2]))
<1>1. PICK key, text, marks : key = e[1] /\ text = e[2] /\ marks = Marks(key, text)
  OBVIOUS
<1>2. key \in Keys /\ text \in Seq(Displayed) /\ IsEntry(key, text)
  BY <1>1 DEF Entry
<1>3. CASE key \in {o.root} \X {"answer", "thinking"}
  <2>1. key[2] # "tool_calls"
    BY <1>3
  <2>2. Rendered(o, e) = marks
    BY <1>1, <1>3, Zenon DEF Rendered
  <2>3. Spells(key, text, marks)
    BY <1>1, <1>2, <2>1, SpellsText
  <2> QED
    BY <1>1, <2>2, <2>3 DEF Spells, OfKey
<1>4. CASE key \notin {o.root} \X {"answer", "thinking"} /\ key[2] = "tool_calls"
  <2>1. Rendered(o, e) = Label(key)
    BY <1>1, <1>4 DEF Rendered
  <2>2. text = <<"label">>
    BY <1>2, <1>4 DEF IsEntry
  <2>3. Spells(key, <<"label">>, Label(key))
    BY <1>2, SpellsLabel
  <2> QED
    BY <1>1, <2>1, <2>2, <2>3 DEF Spells, OfKey
<1>5. CASE key \notin {o.root} \X {"answer", "thinking"} /\ key[2] # "tool_calls"
  <2>1. \/ Rendered(o, e) = Label(key) \o marks \o <<Newline>>
        \/ Rendered(o, e) = Label(key) \o marks
    <3>1. CASE key[2] = "tool_results"
      BY <1>1, <1>5, <3>1 DEF Rendered
    <3>2. CASE key[2] # "tool_results"
      BY <1>1, <1>5, <3>2 DEF Rendered
    <3> QED
      BY <3>1, <3>2
  <2>2. Spells(key, text, Label(key) \o marks \o <<Newline>>) /\ Spells(key, text, Label(key) \o marks)
    BY <1>1, <1>2, <1>5, SpellsText
  <2>3. Spells(key, text, Rendered(o, e))
    BY <2>1, <2>2, Zenon
  <2> QED
    BY <1>1, <2>3 DEF Spells, OfKey
<1> QED
  BY <1>3, <1>4, <1>5

(* The keys of one part of the output, and its stream.                      *)
PartKeys(o, ofAnswer) == IF ofAnswer THEN {RootAnswer(o)} ELSE Keys \ {RootAnswer(o)}
PartStream(o, ofAnswer) == IF ofAnswer THEN "stdout" ELSE TraceStream(o)

LEMMA JoinedPrints ==
    ASSUME NEW o, NEW entries \in Seq(Entry), NEW ofAnswer \in BOOLEAN
    PROVE  /\ Joined(o, entries, ofAnswer) \in Seq(Mark)
           /\ Written(Joined(o, entries, ofAnswer))
              = Expected(o, entries, PartStream(o, ofAnswer), PartKeys(o, ofAnswer))
           /\ \A s \in Streams : s # PartStream(o, ofAnswer) =>
                Expected(o, entries, s, PartKeys(o, ofAnswer)) = <<>>
<1>1. PICK parts, stream, keys :
         /\ parts = [i \in 1..Len(entries) |->
                       IF (entries[i][1] = RootAnswer(o)) = ofAnswer THEN Rendered(o, entries[i])
                       ELSE <<>>]
         /\ stream = PartStream(o, ofAnswer) /\ keys = PartKeys(o, ofAnswer)
  OBVIOUS
<1>2. Len(entries) \in Nat /\ \A i \in 1..Len(entries) : entries[i] \in Entry
  OBVIOUS
<1>3. \A i \in 1..Len(entries) :
         /\ entries[i][1] \in Keys /\ Rendered(o, entries[i]) \in Seq(Mark)
         /\ Written(Rendered(o, entries[i])) = Written(Marks(entries[i][1], entries[i][2]))
  BY <1>2, EntryMarks, RenderedSpells
<1>4. parts \in Seq(Seq(Mark)) /\ Len(parts) = Len(entries)
  <2>1. <<>> \in Seq(Mark)
    OBVIOUS
  <2> QED
    BY <1>1, <1>2, <1>3, <2>1
<1>5. Joined(o, entries, ofAnswer) = FlattenSeq(parts)
  BY <1>1, Zenon DEF Joined
<1>6. ASSUME NEW i \in 1..Len(entries)
      PROVE  /\ ((entries[i][1] = RootAnswer(o)) = ofAnswer) <=> entries[i][1] \in keys
             /\ entries[i][1] \in keys => StreamOf(o, entries[i][1]) = stream
  <2>1. PICK key : key = entries[i][1]
    OBVIOUS
  <2>2. key \in Keys
    BY <1>3, <2>1
  <2>3. CASE ofAnswer = TRUE
    <3>1. keys = {RootAnswer(o)} /\ stream = "stdout"
      BY <1>1, <2>3 DEF PartKeys, PartStream
    <3>2. key = RootAnswer(o) => StreamOf(o, key) = "stdout"
      BY DEF StreamOf
    <3> QED
      BY <2>1, <2>3, <3>1, <3>2
  <2>4. CASE ofAnswer = FALSE
    <3>1. keys = Keys \ {RootAnswer(o)} /\ stream = TraceStream(o)
      BY <1>1, <2>4 DEF PartKeys, PartStream
    <3>2. key # RootAnswer(o) => StreamOf(o, key) = TraceStream(o)
      BY DEF StreamOf
    <3> QED
      BY <2>1, <2>2, <2>4, <3>1, <3>2
  <2> QED
    BY <2>3, <2>4
<1>7. ASSUME NEW i \in 1..Len(entries)
      PROVE  Written(parts[i]) = ExpectedOf(o, entries[i], stream, keys)
  <2>1. parts[i] = IF (entries[i][1] = RootAnswer(o)) = ofAnswer THEN Rendered(o, entries[i])
                   ELSE <<>>
    BY <1>1
  <2>2. CASE entries[i][1] \in keys
    <3>1. (entries[i][1] = RootAnswer(o)) = ofAnswer /\ StreamOf(o, entries[i][1]) = stream
      BY <1>6, <2>2
    <3>2. parts[i] = Rendered(o, entries[i])
      BY <2>1, <3>1, Zenon
    <3> QED
      BY <1>3, <2>2, <3>1, <3>2 DEF ExpectedOf
  <2>3. CASE entries[i][1] \notin keys
    <3>1. ~((entries[i][1] = RootAnswer(o)) = ofAnswer)
      BY <1>6, <2>3
    <3>2. parts[i] = <<>>
      BY <2>1, <3>1, Zenon
    <3> QED
      BY <2>3, <3>2, WrittenNothing, Zenon DEF ExpectedOf
  <2> QED
    BY <2>2, <2>3
<1>8. Written(FlattenSeq(parts)) = Expected(o, entries, stream, keys)
  BY <1>4, <1>7, ExpectedIs
<1>9. ASSUME NEW s \in Streams, s # stream PROVE Expected(o, entries, s, keys) = <<>>
  <2>1. \A i \in 1..Len(entries) : ~(StreamOf(o, entries[i][1]) = s /\ entries[i][1] \in keys)
    BY <1>6, <1>9
  <2> QED
    BY <2>1, ExpectedNone
<1>10. FlattenSeq(parts) \in Seq(Mark)
  BY <1>4, FlattenText
<1> QED
  BY <1>1, <1>5, <1>8, <1>9, <1>10, Zenon

(* What the trace and then the answer print of a stream.                    *)
BothParts(o, entries, s) ==
    Joint(Expected(o, entries, s, PartKeys(o, FALSE)), Expected(o, entries, s, PartKeys(o, TRUE)))

LEMMA BufferPrints ==
    ASSUME NEW o, NEW w, w.entries \in Seq(Entry), NEW s \in Streams
    PROVE  /\ IsComplete(Buffered(o, w)[s])
           /\ Written(Buffered(o, w)[s]) = BothParts(o, w.entries, s)
<1>1. PICK entries, answer, trace, a, b :
         /\ entries = w.entries /\ a = Joined(o, entries, TRUE) /\ b = Joined(o, entries, FALSE)
         /\ answer = Line(a) /\ trace = Line(b)
  OBVIOUS
<1>2. TRUE \in BOOLEAN /\ FALSE \in BOOLEAN /\ entries \in Seq(Entry)
  BY <1>1
<1>3. /\ a \in Seq(Mark) /\ b \in Seq(Mark)
      /\ Written(a) = Expected(o, entries, "stdout", PartKeys(o, TRUE))
      /\ Written(b) = Expected(o, entries, TraceStream(o), PartKeys(o, FALSE))
      /\ \A t \in Streams : t # "stdout" => Expected(o, entries, t, PartKeys(o, TRUE)) = <<>>
      /\ \A t \in Streams : t # TraceStream(o) => Expected(o, entries, t, PartKeys(o, FALSE)) = <<>>
  <2>1. PartStream(o, TRUE) = "stdout" /\ PartStream(o, FALSE) = TraceStream(o)
    BY DEF PartStream
  <2>2. /\ Joined(o, entries, TRUE) \in Seq(Mark)
        /\ Written(Joined(o, entries, TRUE))
           = Expected(o, entries, PartStream(o, TRUE), PartKeys(o, TRUE))
        /\ \A t \in Streams : t # PartStream(o, TRUE) =>
             Expected(o, entries, t, PartKeys(o, TRUE)) = <<>>
    BY <1>2, JoinedPrints
  <2>3. /\ Joined(o, entries, FALSE) \in Seq(Mark)
        /\ Written(Joined(o, entries, FALSE))
           = Expected(o, entries, PartStream(o, FALSE), PartKeys(o, FALSE))
        /\ \A t \in Streams : t # PartStream(o, FALSE) =>
             Expected(o, entries, t, PartKeys(o, FALSE)) = <<>>
    BY <1>2, JoinedPrints
  <2> QED
    BY <1>1, <2>1, <2>2, <2>3, Zenon
<1>4. /\ answer \in Seq(Mark) /\ trace \in Seq(Mark) /\ IsComplete(answer) /\ IsComplete(trace)
      /\ Written(answer) = Written(a) /\ Written(trace) = Written(b)
      /\ Written(a) \in Seq(Mark) /\ Written(b) \in Seq(Mark)
  BY <1>1, <1>3, LineIs, WrittenTyped
<1>5. IsComplete(<<>>) /\ Written(<<>>) = <<>> /\ Joint(<<>>, <<>>) = <<>>
  <2>1. <<>> \in Seq(Mark)
    OBVIOUS
  <2> QED
    BY <2>1, WrittenNothing, JointNothing DEF IsComplete
<1>6. s = "stdout" \/ s = "stderr"
  BY DEF Streams
<1>7. CASE TraceStream(o) = "stderr"
  <2>1. Buffered(o, w) = [stdout |-> answer, stderr |-> trace]
    BY <1>1, <1>7 DEF Buffered
  <2>2. CASE s = "stdout"
    <3>1. Buffered(o, w)[s] = answer
      BY <2>1, <2>2
    <3>2. Expected(o, entries, s, PartKeys(o, FALSE)) = <<>>
      BY <1>3, <1>7, <2>2
    <3>3. Joint(<<>>, Written(a)) = Written(a)
      BY <1>4, JointNothing
    <3> QED
      BY <1>1, <1>3, <1>4, <2>2, <3>1, <3>2, <3>3, Zenon DEF BothParts
  <2>3. CASE s = "stderr"
    <3>1. Buffered(o, w)[s] = trace
      BY <2>1, <2>3
    <3>2. Expected(o, entries, s, PartKeys(o, TRUE)) = <<>>
      BY <1>3, <2>3
    <3>3. Joint(Written(b), <<>>) = Written(b)
      BY <1>4, JointNothing
    <3> QED
      BY <1>1, <1>3, <1>4, <1>7, <2>3, <3>1, <3>2, <3>3, Zenon DEF BothParts
  <2> QED
    BY <1>6, <2>2, <2>3
<1>8. CASE TraceStream(o) # "stderr"
  <2>1. Buffered(o, w) = [stdout |-> Joint(trace, answer), stderr |-> <<>>]
    BY <1>1, <1>8 DEF Buffered, Joint
  <2>2. TraceStream(o) = "stdout"
    BY <1>8 DEF TraceStream
  <2>3. CASE s = "stdout"
    <3>1. Buffered(o, w)[s] = Joint(trace, answer)
      BY <2>1, <2>3
    <3>2. Written(Joint(trace, answer)) = Joint(Written(trace), Written(answer))
      BY <1>4, WrittenJoint
    <3>3. IsComplete(Joint(trace, answer))
      BY <1>4, CompleteJoint
    <3> QED
      BY <1>1, <1>3, <1>4, <2>2, <2>3, <3>1, <3>2, <3>3, Zenon DEF BothParts
  <2>4. CASE s = "stderr"
    <3>1. Buffered(o, w)[s] = <<>>
      BY <2>1, <2>4
    <3>2. /\ Expected(o, entries, s, PartKeys(o, TRUE)) = <<>>
          /\ Expected(o, entries, s, PartKeys(o, FALSE)) = <<>>
      BY <1>3, <2>2, <2>4
    <3> QED
      BY <1>1, <1>5, <3>1, <3>2, Zenon DEF BothParts
  <2> QED
    BY <1>6, <2>3, <2>4
<1> QED
  BY <1>7, <1>8

LEMMA FinishRenders ==
    ASSUME NEW o, NEW w, Renders(o, w), o.root \in Agents, o.mode \in {"stream", "buffer", "json"}
    PROVE  Renders(o, Finish(o, w)) /\ Printed(o, Finish(o, w))
<1>1. PICK v, z : v = WriteAnswer(o, w, <<>>, TRUE) /\ z = Finish(o, w)
  OBVIOUS
<1>2. Renders(o, v) /\ v.held = <<>>
  <2>1. w.held \in Seq(Pieces) /\ w.held = Joint(w.held, <<>>) /\ TRUE \in BOOLEAN
    BY HeldIsText
  <2>2. Answered(o, w, WriteAnswer(o, w, <<>>, TRUE), Chunk(w.held, TRUE))
    BY <2>1, WriteAnswerIs, Zenon
  <2>3. Chunk(w.held, TRUE).held = <<>>
    BY <2>1, ChunkShows
  <2> QED
    BY <1>1, <2>2, <2>3, Zenon DEF Answered
<1>3. Shaped(v) /\ v.entries \in Seq(Entry)
  BY <1>2 DEF Renders, Shaped, Renderers
<1>4. ASSUME NEW screen, z = [v EXCEPT !.screen = screen]
      PROVE  /\ Shaped(z) /\ z.screen = screen /\ z.pending = v.pending /\ z.last = v.last
             /\ z.entries = v.entries /\ z.held = <<>>
  BY <1>2, <1>3, <1>4 DEF Shaped, Renderers
<1>5. CASE o.mode = "json"
  <2>1. PICK out, screen : out = Append(Json(v), Newline) /\ screen = [v.screen EXCEPT !.stdout = out]
    OBVIOUS
  <2>2. z = [v EXCEPT !.screen = screen]
    BY <1>1, <1>3, <1>5, <2>1 DEF Finish, Shaped, Renderers
  <2>3. v.screen \in [Streams -> Seq(Mark)] /\ v.screen["stderr"] = <<>>
    BY <1>2, <1>5 DEF Renders, Copied
  <2>4. /\ Json(v) \in Seq(Mark) /\ Written(Json(v)) = Expected(o, v.entries, "stdout", Keys)
        /\ Expected(o, v.entries, "stderr", Keys) = <<>>
    BY <1>3, <1>5, JsonPrints
  <2>5. out \in Seq(Mark) /\ Written(out) = Written(Json(v)) /\ IsComplete(out)
    BY <2>1, <2>4, NewlineEnds
  <2>6. /\ screen \in [Streams -> Seq(Mark)] /\ screen["stdout"] = out /\ screen["stderr"] = <<>>
    BY <2>1, <2>3, <2>5 DEF Streams
  <2>7. /\ Shaped(z) /\ z.screen = screen /\ z.entries = v.entries /\ z.held = <<>>
    BY <1>4, <2>2
  <2>8. ASSUME NEW s \in Streams
        PROVE  /\ z.screen[s] = <<>> \/ EndsLine(z.screen[s])
               /\ Written(z.screen[s]) = Expected(o, z.entries, s, Keys)
    <3>1. CASE s = "stdout"
      BY <2>4, <2>5, <2>6, <2>7, <3>1 DEF IsComplete
    <3>2. CASE s = "stderr"
      BY <2>4, <2>6, <2>7, <3>2, WrittenNothing
    <3> QED
      BY <3>1, <3>2 DEF Streams
  <2>9. Printed(o, z)
    BY <1>5, <2>7, <2>8 DEF Printed
  <2> QED
    BY <1>1, <1>5, <2>6, <2>7, <2>9 DEF Renders, Copied
<1>6. CASE o.mode = "buffer"
  <2>1. z = [v EXCEPT !.screen = Buffered(o, v)]
    BY <1>1, <1>6 DEF Finish
  <2>2. Shaped(z) /\ z.screen = Buffered(o, v) /\ z.entries = v.entries /\ z.held = <<>>
    BY <1>4, <2>1
  <2>3. ASSUME NEW s \in Streams
        PROVE  /\ z.screen[s] = <<>> \/ EndsLine(z.screen[s])
               /\ Written(z.screen[s]) = Expected(o, z.entries, s, Keys \ {RootAnswer(o)})
                                         \o Expected(o, z.entries, s, {RootAnswer(o)})
    <3>1. /\ IsComplete(Buffered(o, v)[s])
          /\ Written(Buffered(o, v)[s]) = BothParts(o, v.entries, s)
      BY <1>3, BufferPrints
    <3> QED
      BY <2>2, <3>1, Zenon DEF IsComplete, BothParts, PartKeys, Joint
  <2>4. Printed(o, z)
    BY <1>6, <2>2, <2>3, Zenon DEF Printed
  <2> QED
    BY <1>1, <1>6, <2>2, <2>4 DEF Renders, Copied
<1>7. CASE o.mode = "stream"
  <2>1. PICK screen : screen = [s \in Streams |-> IF v.pending[s] THEN Append(v.screen[s], Newline)
                                                  ELSE v.screen[s]]
    OBVIOUS
  <2>2. z = [v EXCEPT !.screen = screen]
    BY <1>1, <1>7, <2>1 DEF Finish
  <2>3. /\ Shaped(z) /\ z.screen = screen /\ z.pending = v.pending /\ z.last = v.last
        /\ z.entries = v.entries /\ z.held = <<>>
    BY <1>4, <2>2
  <2>4. Lines(v) /\ \A s \in Streams : Written(v.screen[s]) = Expected(o, v.entries, s, Keys)
    BY <1>2, <1>7 DEF Renders, Copied
  <2>5. ASSUME NEW s \in Streams
        PROVE  screen[s] \in Seq(Mark) /\ Tidy(screen[s], v.pending[s], v.last[s])
    <3>1. v.screen[s] \in Seq(Mark) /\ Tidy(v.screen[s], v.pending[s], v.last[s])
      BY <2>4 DEF Lines
    <3>2. CASE ~v.pending[s]
      BY <2>1, <3>1, <3>2
    <3>3. CASE v.pending[s]
      <4>1. PICK line, new : line = v.screen[s] /\ new = Append(line, Newline)
        OBVIOUS
      <4>2. screen[s] = new
        BY <2>1, <3>3, <4>1
      <4>3. line \in Seq(Mark) /\ Apartness(line)
        BY <3>1, <4>1 DEF Tidy
      <4>4. /\ <<Newline>> \in Seq(Mark) /\ Len(<<Newline>>) = 1 /\ <<Newline>>[1] = Newline
            /\ Newline \in Mark
        BY DEF Mark
      <4>5. Apartness(<<Newline>>)
        BY <4>4 DEF Apartness
      <4>6. OnOneLine(line[Len(line)], <<Newline>>[1])
        BY <4>4 DEF OnOneLine
      <4>7. Joint(line, <<Newline>>) \in Seq(Mark) /\ Apartness(Joint(line, <<Newline>>))
        BY <4>3, <4>4, <4>5, <4>6, JoinedApart
      <4>8. new = Joint(line, <<Newline>>)
        BY <4>1, <4>3, <4>4, AppendIsConcat DEF Joint
      <4>9. new[Len(new)] = Newline
        BY <4>1, <4>3, <4>4
      <4>10. new \in Seq(Mark) /\ Apartness(new)
        BY <4>7, <4>8, Zenon
      <4> QED
        BY <4>2, <4>9, <4>10, Zenon DEF Tidy
    <3> QED
      BY <3>2, <3>3
  <2>6. screen \in [Streams -> Seq(Mark)]
    <3>1. \A s \in Streams : screen[s] \in Seq(Mark)
      BY <2>5
    <3> QED
      BY <2>1, <3>1
  <2>7. Lines(z)
    BY <2>3, <2>5, <2>6 DEF Lines
  <2>8. ASSUME NEW s \in Streams
        PROVE  /\ z.screen[s] = <<>> \/ EndsLine(z.screen[s])
               /\ Written(z.screen[s]) = Expected(o, z.entries, s, Keys)
    <3>1. /\ v.screen[s] \in Seq(Mark) /\ Tidy(v.screen[s], v.pending[s], v.last[s])
          /\ Written(v.screen[s]) = Expected(o, v.entries, s, Keys)
      BY <2>4 DEF Lines
    <3>2. CASE v.pending[s]
      <4>1. screen[s] = Append(v.screen[s], Newline)
        BY <2>1, <3>2
      <4>2. /\ Written(Append(v.screen[s], Newline)) = Written(v.screen[s])
            /\ IsComplete(Append(v.screen[s], Newline))
        BY <3>1, NewlineEnds
      <4> QED
        BY <2>3, <3>1, <4>1, <4>2, Zenon DEF IsComplete
    <3>3. CASE ~v.pending[s]
      <4>1. screen[s] = v.screen[s]
        BY <2>1, <3>3
      <4>2. v.screen[s] = <<>> \/ EndsLine(v.screen[s])
        BY <3>1, <3>3, Zenon DEF Tidy, EndsLine, Last
      <4> QED
        BY <2>3, <3>1, <4>1, <4>2, Zenon
    <3> QED
      BY <3>2, <3>3
  <2>9. Printed(o, z)
    BY <1>7, <2>3, <2>8 DEF Printed
  <2>10. Copied(o, z)
    BY <1>7, <2>8 DEF Copied
  <2> QED
    BY <1>1, <2>3, <2>7, <2>9, <2>10 DEF Renders
<1> QED
  BY <1>5, <1>6, <1>7

-----------------------------------------------------------------------------
(* The invariant.  What is told is the first answers; a told answer is      *)
(* shown whole, the one under way as far as no token is open, and the open  *)
(* token is what the renderer holds.  An answer that is hidden is never     *)
(* shown, held or streamed.                                                 *)
Visible == Enabled(options, AnswerKey)

ProcessTypes ==
    /\ options \in Options /\ phase \in Phases
    /\ session \in {"none", "open", "closed"}
    /\ cancelled \in BOOLEAN /\ interrupts \in 0..2
    /\ outcome \in Outcomes \cup {"none"}
    /\ exit \in {NoExit, 0, 1, 2, 75, 124, 130}

TurnTypes ==
    /\ speakers \in Seq(Agents)
    /\ due # <<>> => due[2] \in Seq(Pieces)
    /\ reply \in [Spoken -> Seq(Pieces)]
    /\ events \in Answers
    /\ said \in [Answers -> Seq(Pieces)]
    /\ shown \in [Answers -> Seq(Displayed)]

FirstAreTold ==
    /\ Current \in Nat /\ Current <= events
    /\ told = 0..(Current - 1)

AnswersShown ==
    /\ \A i \in Answers : i > Current => said[i] = <<>> /\ shown[i] = <<>>
    /\ Visible => \A i \in told : shown[i] = Expanded(said[i])
    /\ Visible => shown[Current] = Expanded(Whole(said[Current]))
    /\ ~Visible => shown = NoAnswers

Underway ==
    phase = "turn" /\ speakers # <<>> =>
        /\ IF Speaker = options.root THEN reply.answer = said[Current]
           ELSE said[Current] = <<>>
        /\ AnswerKey \in r.streaming <=> Visible /\ said[Current] # <<>>
        /\ r.held = IF Visible THEN Held(said[Current]) ELSE <<>>

IInv ==
    /\ ProcessTypes /\ TurnTypes /\ Renders(options, r)
    /\ FirstAreTold /\ AnswersShown /\ Underway

(* What an event adds to the text of the renderer is shown of the answer    *)
(* under way.                                                               *)
LEMMA RestOfJoint ==
    ASSUME NEW a \in Seq(Displayed), NEW b \in Seq(Displayed)
    PROVE  SubSeq(Joint(a, b), Len(a) + 1, Len(Joint(a, b))) = b
<1>1. Len(a) \in Nat /\ Len(b) \in Nat /\ Len(Joint(a, b)) = Len(a) + Len(b)
  BY ConcatProperties DEF Joint
<1>2. CASE Len(b) = 0
  <2>1. SubSeq(Joint(a, b), Len(a) + 1, Len(Joint(a, b))) = <<>>
    <3>1. Len(a) + 1 \in Int /\ Len(Joint(a, b)) \in Int /\ Len(Joint(a, b)) < Len(a) + 1
      BY <1>1, <1>2
    <3> QED
      BY <3>1, SubSeqEmpty
  <2>2. b = <<>>
    BY <1>2, EmptySeq, Zenon
  <2> QED
    BY <2>1, <2>2, Zenon
<1>3. CASE Len(b) # 0
  <2>1. PICK m, n : m = Len(a) + 1 /\ n = Len(a) + Len(b)
    OBVIOUS
  <2>2. /\ m \in Len(a) + 1..Len(a) + Len(b) /\ n \in Len(a) + 1..Len(a) + Len(b)
        /\ m - Len(a) = 1 /\ n - Len(a) = Len(b)
    BY <1>1, <1>3, <2>1
  <2>3. SubSeq(a \o b, m, n) = SubSeq(b, m - Len(a), n - Len(a))
    BY <2>2, SubSeqOfConcat2
  <2>4. SubSeq(b, 1, Len(b)) = b
    BY SubSeqFull
  <2> QED
    BY <1>1, <2>1, <2>2, <2>3, <2>4, Zenon DEF Joint
<1> QED
  BY <1>2, <1>3

LEMMA TextIsText ==
    ASSUME NEW o, NEW w, Renders(o, w)
    PROVE  Text(o, w) \in Seq(Displayed)
<1>1. w.entries \in Seq(Entry)
  BY DEF Renders, Shaped, Renderers
<1>2. PartsOf(RootAnswer(o), w.entries) \in Seq(Seq(Displayed))
  BY <1>1, PartsAreTexts
<1> QED
  BY <1>2, FlattenText DEF Text, AnswerText

LEMMA QuietAdds ==
    ASSUME NEW o, NEW w, NEW z, Renders(o, w), Quiet(o, w, z)
    PROVE  Adds(o, w, z, <<>>)
<1>1. Text(o, w) \in Seq(Displayed)
  BY TextIsText
<1>2. Joint(Text(o, w), <<>>) = Text(o, w)
  BY <1>1, JointNone
<1> QED
  BY <1>1, <1>2 DEF Quiet, Adds

LEMMA CurrentIsAnswer ==
    ASSUME TurnTypes, FirstAreTold
    PROVE  Current \in Answers /\ Current \in Nat /\ Current \notin told
<1>1. events \in 0..MaxEvents /\ MaxEvents \in Nat
  BY InputsAssumption DEF TurnTypes, Answers
<1>2. Current \in Nat /\ Current <= events /\ told = 0..(Current - 1)
  BY DEF FirstAreTold
<1> QED
  BY <1>1, <1>2 DEF Answers

LEMMA ConsumeShows ==
    ASSUME TurnTypes, FirstAreTold, NEW w, Consume(w), NEW more \in Seq(Displayed),
           Adds(options, r, w, more)
    PROVE  /\ shown' = [shown EXCEPT ![Current] = Joint(@, more)]
           /\ Streaming /\ r' = w /\ Renders(options, w)
           /\ events' = events + 1 /\ events' \in Answers
           /\ UNCHANGED process
<1>1. Shown(r) = Text(options, r) /\ Shown(w) = Text(options, w)
  BY Zenon DEF Shown, Text, AnswerText, PartsOf, AnswerKey
<1>2. r' = w
  BY DEF Consume
<1>3. shown' = [shown EXCEPT ![Current] =
                  Joint(@, SubSeq(Shown(w), Len(Shown(r)) + 1, Len(Shown(w))))]
  BY <1>2, Zenon DEF Consume, Joint
<1>4. SubSeq(Shown(w), Len(Shown(r)) + 1, Len(Shown(w))) = more
  <2>1. Text(options, r) \in Seq(Displayed) /\ Text(options, w) = Joint(Text(options, r), more)
    BY DEF Adds
  <2>2. SubSeq(Joint(Text(options, r), more), Len(Text(options, r)) + 1,
               Len(Joint(Text(options, r), more))) = more
    BY <2>1, RestOfJoint
  <2> QED
    BY <1>1, <2>1, <2>2, Zenon
<1>5. events' = events + 1 /\ events < MaxEvents /\ Streaming /\ UNCHANGED process
  BY DEF Consume
<1>6. events' \in Answers
  BY <1>5, InputsAssumption DEF TurnTypes, Answers
<1>7. Renders(options, w)
  BY DEF Adds
<1> QED
  BY <1>2, <1>3, <1>4, <1>5, <1>6, <1>7, Zenon

(* An event that adds nothing                                               *)
LEMMA QuietShowsNothing ==
    ASSUME TurnTypes, FirstAreTold, Renders(options, r), NEW w, Consume(w), Quiet(options, r, w)
    PROVE  shown' = shown
<1>1. Adds(options, r, w, <<>>) /\ <<>> \in Seq(Displayed)
  BY QuietAdds
<1>2. shown' = [shown EXCEPT ![Current] = Joint(@, <<>>)]
  BY <1>1, ConsumeShows
<1>3. shown \in [Answers -> Seq(Displayed)] /\ Current \in Answers
  BY CurrentIsAnswer DEF TurnTypes
<1>4. shown[Current] \in Seq(Displayed)
  BY <1>3
<1>5. Joint(shown[Current], <<>>) = shown[Current]
  BY <1>4, JointNone
<1> QED
  BY <1>2, <1>3, <1>5

-----------------------------------------------------------------------------
(* What the steps of a turn leave of the invariant.                         *)
LEMMA NothingIsShown ==
    Whole(<<>>) = <<>> /\ Held(<<>>) = <<>> /\ Expanded(Whole(<<>>)) = <<>>
<1>1. <<>> \in Seq(Pieces) /\ Len(<<>>) = 0
  OBVIOUS
<1>2. Len(Whole(<<>>)) = 0 - Unfinished(<<>>) /\ Len(Held(<<>>)) = Unfinished(<<>>)
      /\ Whole(<<>>) \in Seq(Pieces) /\ Held(<<>>) \in Seq(Pieces)
  BY <1>1, WholeAndHeld
<1>3. Unfinished(<<>>) \in 0..2
  BY <1>1, UnfinishedIs
<1>4. Len(Whole(<<>>)) = 0 /\ Len(Held(<<>>)) = 0
  <2>1. Len(Whole(<<>>)) \in Nat
    BY <1>2
  <2> QED
    BY <1>2, <1>3, <2>1
<1>5. Whole(<<>>) = <<>> /\ Held(<<>>) = <<>>
  BY <1>2, <1>4, EmptySeq
<1> QED
  BY <1>5, ExpandNone

LEMMA OptionsTyped ==
    ASSUME ProcessTypes
    PROVE  options.root \in Agents /\ options.mode \in {"stream", "buffer", "json"}
BY InputsAssumption DEF ProcessTypes

LEMMA ToldMore ==
    ASSUME TurnTypes, FirstAreTold, told' = told \cup {Current}
    PROVE  Current' = Current + 1 /\ told' = 0..Current
<1>1. Current \in Nat /\ told = 0..(Current - 1)
  BY DEF FirstAreTold
<1>2. told' = 0..Current
  BY <1>1
<1>3. Cardinality(0..Current) = Current + 1
  <2>1. 0 \in Int /\ Current \in Int
    BY <1>1
  <2>2. Cardinality(0..Current) = IF 0 > Current THEN 0 ELSE Current - 0 + 1
    BY <2>1, FS_Interval
  <2> QED
    BY <1>1, <2>2
<1> QED
  BY <1>2, <1>3 DEF Current

(* The answer under way becomes new, and display is shown of it.            *)
Becomes(new, display) ==
    /\ said' = [said EXCEPT ![Current] = new]
    /\ shown' = [shown EXCEPT ![Current] = display]

LEMMA BecomesTyped ==
    ASSUME TurnTypes, FirstAreTold, NEW new \in Seq(Pieces), NEW display \in Seq(Displayed),
           Becomes(new, display)
    PROVE  /\ said' \in [Answers -> Seq(Pieces)] /\ shown' \in [Answers -> Seq(Displayed)]
           /\ said'[Current] = new /\ shown'[Current] = display
           /\ \A i \in Answers : i # Current => said'[i] = said[i] /\ shown'[i] = shown[i]
<1>1. said \in [Answers -> Seq(Pieces)] /\ shown \in [Answers -> Seq(Displayed)]
  BY DEF TurnTypes
<1>2. Current \in Answers
  BY CurrentIsAnswer
<1> QED
  BY <1>1, <1>2 DEF Becomes

LEMMA NoneIsShown ==
    ASSUME FirstAreTold, AnswersShown, TurnTypes
    PROVE  ~Visible => shown[Current] = <<>>
<1>1. Current \in Answers
  BY CurrentIsAnswer
<1> QED
  BY <1>1 DEF AnswersShown, NoAnswers

(* It goes on                                                               *)
LEMMA AnswerGoesOn ==
    ASSUME TurnTypes, FirstAreTold, AnswersShown, NEW new \in Seq(Pieces),
           NEW display \in Seq(Displayed), Becomes(new, display), told' = told,
           options' = options, events' = events + 1,
           Visible => display = Expanded(Whole(new)),
           ~Visible => display = <<>>
    PROVE  FirstAreTold' /\ AnswersShown'
<1>1. Current' = Current /\ (Visible' <=> Visible)
  BY DEF Current, Visible, AnswerKey
<1>2. Current \in Answers /\ Current \in Nat /\ Current \notin told
  BY CurrentIsAnswer
<1>3. Current <= events /\ told = 0..(Current - 1) /\ events \in Nat
  BY InputsAssumption DEF FirstAreTold, TurnTypes, Answers
<1>4. FirstAreTold'
  BY <1>1, <1>2, <1>3 DEF FirstAreTold
<1>5. /\ said'[Current] = new /\ shown'[Current] = display
      /\ shown' \in [Answers -> Seq(Displayed)]
      /\ \A i \in Answers : i # Current => said'[i] = said[i] /\ shown'[i] = shown[i]
  BY BecomesTyped
<1>6. \A i \in Answers : i > Current => said'[i] = <<>> /\ shown'[i] = <<>>
  <2>1. \A i \in Answers : i > Current => said[i] = <<>> /\ shown[i] = <<>>
    BY DEF AnswersShown
  <2>2. \A i \in Answers : i > Current => i # Current
    BY <1>2 DEF Answers
  <2> QED
    BY <1>5, <2>1, <2>2
<1>7. Visible => \A i \in told : shown'[i] = Expanded(said'[i])
  <2>1. told \subseteq Answers /\ \A i \in told : i # Current
    BY <1>2, <1>3, InputsAssumption DEF TurnTypes, Answers
  <2>2. Visible => \A i \in told : shown[i] = Expanded(said[i])
    BY DEF AnswersShown
  <2> QED
    BY <1>5, <2>1, <2>2
<1>8. ~Visible => shown' = NoAnswers
  <2> SUFFICES ASSUME ~Visible PROVE shown' = NoAnswers
    OBVIOUS
  <2>1. \A i \in Answers : shown[i] = <<>>
    BY DEF AnswersShown, NoAnswers
  <2>2. \A i \in Answers : shown'[i] = <<>>
    BY <1>5, <2>1
  <2> QED
    BY <1>5, <2>2 DEF NoAnswers
<1>9. Visible => shown'[Current] = Expanded(Whole(said'[Current]))
  BY <1>5
<1> QED
  BY <1>1, <1>4, <1>6, <1>7, <1>8, <1>9 DEF AnswersShown

(* or ends.                                                                 *)
LEMMA AnswerEnds ==
    ASSUME TurnTypes, FirstAreTold, AnswersShown, NEW new \in Seq(Pieces),
           NEW display \in Seq(Displayed), Becomes(new, display), told' = told \cup {Current},
           options' = options, events' = events + 1, events' \in Answers,
           Visible => display = Expanded(new),
           ~Visible => display = <<>>
    PROVE  FirstAreTold' /\ AnswersShown' /\ said'[Current'] = <<>>
<1>1. Current' = Current + 1 /\ told' = 0..Current /\ (Visible' <=> Visible)
  BY ToldMore DEF Visible, AnswerKey
<1>2. Current \in Answers /\ Current \in Nat /\ Current \notin told
  BY CurrentIsAnswer
<1>3. Current <= events /\ told = 0..(Current - 1) /\ events \in Nat /\ MaxEvents \in Nat
      /\ events' <= MaxEvents
  BY InputsAssumption DEF FirstAreTold, TurnTypes, Answers
<1>4. FirstAreTold'
  <2>1. Current + 1 \in Nat /\ Current + 1 <= events + 1 /\ (Current + 1) - 1 = Current
    BY <1>2, <1>3
  <2> QED
    BY <1>1, <2>1 DEF FirstAreTold
<1>5. /\ said'[Current] = new /\ shown'[Current] = display
      /\ shown' \in [Answers -> Seq(Displayed)]
      /\ \A i \in Answers : i # Current => said'[i] = said[i] /\ shown'[i] = shown[i]
  BY BecomesTyped
<1>6. \A i \in Answers : i > Current => said'[i] = <<>> /\ shown'[i] = <<>>
  <2>1. \A i \in Answers : i > Current => said[i] = <<>> /\ shown[i] = <<>>
    BY DEF AnswersShown
  <2>2. \A i \in Answers : i > Current => i # Current
    BY <1>2 DEF Answers
  <2> QED
    BY <1>5, <2>1, <2>2
<1>7. Current + 1 \in Answers /\ Current + 1 > Current
  BY <1>2, <1>3 DEF Answers
<1>8. said'[Current + 1] = <<>> /\ shown'[Current + 1] = <<>>
  BY <1>6, <1>7
<1>9. Visible => \A i \in told' : shown'[i] = Expanded(said'[i])
  <2> SUFFICES ASSUME Visible, NEW i \in told' PROVE shown'[i] = Expanded(said'[i])
    OBVIOUS
  <2>1. CASE i = Current
    BY <1>5, <2>1
  <2>2. CASE i # Current
    <3>1. i \in told /\ i \in Answers
      BY <1>1, <1>2, <1>3, <2>2 DEF Answers
    <3>2. shown[i] = Expanded(said[i])
      BY <3>1 DEF AnswersShown
    <3> QED
      BY <1>5, <2>2, <3>1, <3>2
  <2> QED
    BY <2>1, <2>2
<1>10. ~Visible => shown' = NoAnswers
  <2> SUFFICES ASSUME ~Visible PROVE shown' = NoAnswers
    OBVIOUS
  <2>1. \A i \in Answers : shown[i] = <<>>
    BY DEF AnswersShown, NoAnswers
  <2>2. \A i \in Answers : shown'[i] = <<>>
    BY <1>5, <2>1
  <2> QED
    BY <1>5, <2>2 DEF NoAnswers
<1>11. Visible => shown'[Current'] = Expanded(Whole(said'[Current']))
  <2>1. Expanded(Whole(<<>>)) = <<>>
    BY NothingIsShown
  <2> QED
    BY <1>1, <1>8, <2>1
<1>12. \A i \in Answers : i > Current' => said'[i] = <<>> /\ shown'[i] = <<>>
  <2>1. \A i \in Answers : i > Current + 1 => i > Current
    BY <1>2 DEF Answers
  <2> QED
    BY <1>1, <1>6, <2>1
<1> QED
  BY <1>1, <1>4, <1>8, <1>9, <1>10, <1>11, <1>12 DEF AnswersShown

-----------------------------------------------------------------------------
(* The events of a turn.                                                    *)
LEMMA SpeakerIsAgent ==
    ASSUME TurnTypes, speakers # <<>>
    PROVE  Speaker \in Agents
<1>1. speakers \in Seq(Agents) /\ Len(speakers) \in 1..Len(speakers)
  <2>1. speakers \in Seq(Agents) /\ Len(speakers) \in Nat
    BY DEF TurnTypes
  <2>2. Len(speakers) # 0
    BY <2>1, EmptySeq
  <2> QED
    BY <2>1, <2>2
<1>2. speakers[Len(speakers)] \in Agents
  BY <1>1
<1> QED
  BY <1>2 DEF Speaker, Last

LEMMA ProcessStays ==
    ASSUME ProcessTypes, UNCHANGED process
    PROVE  /\ ProcessTypes' /\ options' = options /\ phase' = phase /\ cancelled' = cancelled
           /\ AnswerKey' = AnswerKey /\ (Visible' <=> Visible)
BY DEF ProcessTypes, process, AnswerKey, Visible

(* One that adds nothing to the root's answer                               *)
LEMMA QuietEvent ==
    ASSUME IInv, NEW w, Consume(w), Quiet(options, r, w), UNCHANGED <<said, told>>,
           TurnTypes',
           speakers' # <<>> => IF Speaker' = options.root THEN reply'.answer = said[Current]
                               ELSE said[Current] = <<>>
    PROVE  IInv' /\ shown' = shown
<1>1. /\ ProcessTypes /\ TurnTypes /\ Renders(options, r) /\ FirstAreTold /\ AnswersShown /\ Underway
  BY DEF IInv
<1>2. shown' = shown
  BY <1>1, QuietShowsNothing
<1>3. r' = w /\ Streaming /\ UNCHANGED process /\ events' = events + 1
  BY DEF Consume
<1>4. /\ ProcessTypes' /\ options' = options /\ phase' = phase
      /\ AnswerKey' = AnswerKey /\ (Visible' <=> Visible)
  BY <1>1, <1>3, ProcessStays
<1>5. Current' = Current
  BY DEF Current
<1>6. FirstAreTold'
  <2>1. events \in Nat
    BY <1>1, InputsAssumption DEF TurnTypes, Answers
  <2>2. Current \in Nat /\ Current <= events /\ told = 0..(Current - 1)
    BY <1>1 DEF FirstAreTold
  <2>3. Current <= events + 1
    BY <2>1, <2>2
  <2> QED
    BY <1>3, <1>5, <2>2, <2>3 DEF FirstAreTold
<1>7. AnswersShown'
  BY <1>1, <1>2, <1>4, <1>5 DEF AnswersShown
<1>8. Renders(options, r)'
  BY <1>3, <1>4 DEF Quiet
<1>9. phase = "turn" /\ speakers # <<>>
  BY <1>3 DEF Streaming
<1>10. /\ AnswerKey \in r'.streaming <=> Visible /\ said[Current] # <<>>
       /\ r'.held = IF Visible THEN Held(said[Current]) ELSE <<>>
  BY <1>1, <1>3, <1>9 DEF Underway, Quiet, AnswerKey
<1>11. Underway'
  BY <1>4, <1>5, <1>10 DEF Underway
<1> QED
  BY <1>2, <1>4, <1>6, <1>7, <1>8, <1>11 DEF IInv

LEMMA DeltasTyped ==
    ASSUME NEW c \in Spoken, NEW delta \in Deltas[c]
    PROVE  delta \in Seq(Pieces) /\ delta \in Seq(Displayed)
<1>1. Deltas[c] \subseteq Seq(Pieces)
  BY InputsAssumption
<1> QED
  BY <1>1, PiecesAreDisplayed

LEMMA ReplyGoesOn ==
    ASSUME TurnTypes, NEW c \in Spoken, NEW delta \in Seq(Pieces),
           reply' = [reply EXCEPT ![c] = @ \o delta]
    PROVE  /\ reply' \in [Spoken -> Seq(Pieces)]
           /\ c # "answer" => reply'.answer = reply.answer
           /\ c = "answer" => reply'.answer = Joint(reply.answer, delta)
<1>1. reply \in [Spoken -> Seq(Pieces)]
  BY DEF TurnTypes
<1>2. PICK more : more = reply[c] \o delta
  OBVIOUS
<1>3. more \in Seq(Pieces) /\ (c = "answer" => more = Joint(reply.answer, delta))
  <2>1. PICK old : old = reply[c]
    OBVIOUS
  <2>2. old \in Seq(Pieces) /\ (c = "answer" => old = reply.answer)
    BY <1>1, <2>1
  <2>3. Joint(old, delta) \in Seq(Pieces)
    BY <2>2, ConcatProperties DEF Joint
  <2>4. more = Joint(old, delta)
    BY <1>2, <2>1, Zenon DEF Joint
  <2> QED
    BY <2>2, <2>3, <2>4, Zenon
<1>4. reply' = [reply EXCEPT ![c] = more]
  BY <1>2
<1>5. "answer" \in Spoken
  BY DEF Spoken
<1> HIDE <1>2
<1> QED
  BY <1>1, <1>3, <1>4, <1>5

LEMMA OtherPartial ==
    ASSUME IInv, NEW c \in Spoken, NEW delta \in Deltas[c], Partial(c, delta),
           <<Speaker, c>> # AnswerKey
    PROVE  IInv' /\ UNCHANGED <<said, shown, told>>
<1>1. /\ ProcessTypes /\ TurnTypes /\ Renders(options, r) /\ FirstAreTold /\ Underway
  BY DEF IInv
<1>2. delta \in Seq(Pieces) /\ delta \in Seq(Displayed)
  BY DeltasTyped
<1>3. PICK key, w : key = <<Speaker, c>> /\ w = WriteDelta(options, r, key, delta)
  OBVIOUS
<1>4. /\ Consume(w) /\ reply' = [reply EXCEPT ![c] = @ \o delta]
      /\ UNCHANGED <<said, speakers, due, told>>
  BY <1>3 DEF Partial
<1>5. phase = "turn" /\ speakers # <<>> /\ events' = events + 1 /\ events < MaxEvents
  BY <1>4 DEF Consume, Streaming
<1>6. Speaker \in Agents
  BY <1>1, <1>5, SpeakerIsAgent
<1>7. Quiet(options, r, w)
  <2>1. key \in Agents \X Spoken /\ key # RootAnswer(options)
    BY <1>3, <1>6 DEF AnswerKey
  <2> QED
    BY <1>1, <1>2, <1>3, <2>1, OtherDelta
<1>8. shown' = shown
  BY <1>1, <1>4, <1>7, QuietShowsNothing
<1>9. reply' \in [Spoken -> Seq(Pieces)] /\ (c # "answer" => reply'.answer = reply.answer)
  BY <1>1, <1>2, <1>4, ReplyGoesOn
<1>10. TurnTypes'
  <2>1. events' \in Answers
    BY <1>1, <1>5, InputsAssumption DEF TurnTypes, Answers
  <2> QED
    BY <1>1, <1>4, <1>8, <1>9, <2>1 DEF TurnTypes
<1>11. IF Speaker' = options.root THEN reply'.answer = said[Current] ELSE said[Current] = <<>>
  <2>1. IF Speaker = options.root THEN reply.answer = said[Current] ELSE said[Current] = <<>>
    BY <1>1, <1>5 DEF Underway
  <2>2. Speaker' = Speaker
    BY <1>4 DEF Speaker
  <2>3. Speaker = options.root => c # "answer"
    BY DEF AnswerKey, RootAnswer
  <2> QED
    BY <1>9, <2>1, <2>2, <2>3
<1>12. UNCHANGED <<said, told>>
  BY <1>4
<1> QED
  BY <1>4, <1>7, <1>8, <1>10, <1>11, <1>12, QuietEvent

(* A delta of the root's answer                                             *)
LEMMA AnswerPartial ==
    ASSUME IInv, NEW delta \in Deltas["answer"], Partial("answer", delta),
           <<Speaker, "answer">> = AnswerKey
    PROVE  \E new \in Seq(Pieces), display \in Seq(Displayed), more \in Seq(Displayed) :
             /\ Becomes(new, display)
             /\ new = Joint(said[Current], delta) /\ display = Joint(shown[Current], more)
             /\ Visible => display = Expanded(Whole(new))
             /\ ~Visible => display = <<>>
             /\ Renders(options, r') /\ Streaming
             /\ AnswerKey \in r'.streaming <=> Visible /\ new # <<>>
             /\ r'.held = IF Visible THEN Held(new) ELSE <<>>
<1>1. /\ ProcessTypes /\ TurnTypes /\ Renders(options, r) /\ FirstAreTold /\ AnswersShown /\ Underway
  BY DEF IInv
<1>2. delta \in Seq(Pieces) /\ delta \in Seq(Displayed)
  <2>1. "answer" \in Spoken
    BY DEF Spoken
  <2> QED
    BY <2>1, DeltasTyped
<1>3. PICK w : w = WriteDelta(options, r, AnswerKey, delta)
  OBVIOUS
<1>4. Consume(w) /\ said' = [said EXCEPT ![Current] = @ \o delta]
  BY <1>3 DEF Partial
<1>5. Streaming /\ phase = "turn" /\ speakers # <<>> /\ r' = w
  BY <1>4 DEF Consume, Streaming
<1>6. /\ AnswerKey \in r.streaming <=> Visible /\ said[Current] # <<>>
      /\ r.held = IF Visible THEN Held(said[Current]) ELSE <<>>
  BY <1>1, <1>5 DEF Underway
<1>7. Current \in Answers
  BY <1>1, CurrentIsAnswer
<1>8. PICK old, before : old = said[Current] /\ before = shown[Current]
  OBVIOUS
<1>9. old \in Seq(Pieces) /\ before \in Seq(Displayed)
  BY <1>1, <1>7, <1>8 DEF TurnTypes
<1>10. PICK new : new = Joint(old, delta)
  OBVIOUS
<1>11. new \in Seq(Pieces) /\ said' = [said EXCEPT ![Current] = new]
  <2>1. new \in Seq(Pieces)
    BY <1>2, <1>9, <1>10, ConcatProperties DEF Joint
  <2> QED
    BY <1>4, <1>8, <1>10, <2>1, Zenon DEF Joint
<1>12. (Visible => before = Expanded(Whole(old))) /\ (~Visible => before = <<>>)
  BY <1>1, <1>8, NoneIsShown DEF AnswersShown
<1>13. options.root \in Agents /\ AnswerKey = RootAnswer(options) /\ (Visible <=> Enabled(options, RootAnswer(options)))
  BY <1>1, OptionsTyped DEF AnswerKey, Visible
<1>14. CASE Visible /\ delta # <<>>
  <2>1. PICK y, more : y = Joint(r.held, delta) /\ more = Expanded(Whole(y))
    OBVIOUS
  <2>2. /\ y \in Seq(Pieces) /\ Held(y) = Held(new)
        /\ Expanded(Whole(new)) = Joint(Expanded(Whole(old)), more)
    <3>1. r.held = Held(old)
      BY <1>6, <1>8, <1>14
    <3>2. /\ Held(old) \o delta \in Seq(Pieces)
          /\ Held(Held(old) \o delta) = Held(old \o delta)
          /\ Expanded(Whole(old \o delta)) = Expanded(Whole(old)) \o Expanded(Whole(Held(old) \o delta))
      BY <1>2, <1>9, <1>14, ChunkGoesOn
    <3> QED
      BY <1>10, <2>1, <3>1, <3>2, Zenon DEF Joint
  <2>3. more \in Seq(Displayed)
    <3>1. Whole(y) \in Seq(Pieces)
      BY <2>2, WholeAndHeld
    <3> QED
      BY <2>1, <3>1, ExpandText
  <2>4. /\ Adds(options, r, WriteDelta(options, r, RootAnswer(options), delta), Expanded(Whole(y)))
        /\ WriteDelta(options, r, RootAnswer(options), delta).held = Held(y)
        /\ RootAnswer(options) \in WriteDelta(options, r, RootAnswer(options), delta).streaming
    BY <1>1, <1>13, <1>14, <2>1, <2>2, AnswerDelta
  <2>5. Adds(options, r, w, more) /\ w.held = Held(new) /\ AnswerKey \in w.streaming
    BY <1>3, <1>13, <2>1, <2>2, <2>4, Zenon
  <2>6. shown' = [shown EXCEPT ![Current] = Joint(before, more)]
    BY <1>1, <1>4, <1>8, <2>3, <2>5, ConsumeShows
  <2>7. new # <<>>
    <3>1. Len(delta) \in Nat /\ Len(delta) # 0
      BY <1>2, <1>14, EmptySeq
    <3>2. Len(new) = Len(old) + Len(delta) /\ Len(old) \in Nat
      BY <1>2, <1>9, <1>10, ConcatProperties DEF Joint
    <3>3. Len(new) # 0
      BY <3>1, <3>2
    <3> QED
      BY <3>3
  <2>8. PICK display : display = Joint(before, more)
    OBVIOUS
  <2>9. display \in Seq(Displayed) /\ display = Expanded(Whole(new))
    <3>1. Joint(before, more) \in Seq(Displayed)
      BY <1>9, <2>3, ConcatProperties DEF Joint
    <3> QED
      BY <1>12, <1>14, <2>2, <2>8, <3>1
  <2>10. Becomes(new, display)
    BY <1>11, <2>6, <2>8 DEF Becomes
  <2>11. Renders(options, w)
    BY <2>5 DEF Adds
  <2>12. /\ Becomes(new, display)
         /\ new = Joint(said[Current], delta) /\ display = Joint(shown[Current], more)
         /\ Visible => display = Expanded(Whole(new))
         /\ ~Visible => display = <<>>
         /\ Renders(options, r') /\ Streaming
         /\ AnswerKey \in r'.streaming <=> Visible /\ new # <<>>
         /\ r'.held = IF Visible THEN Held(new) ELSE <<>>
    BY <1>5, <1>8, <1>10, <1>14, <2>5, <2>7, <2>8, <2>9, <2>10, <2>11
  <2> QED
    BY <1>11, <2>3, <2>9, <2>12, Zenon
<1>15. CASE ~(Visible /\ delta # <<>>)
  <2>1. w = r
    <3>1. CASE delta = <<>>
      BY <1>3, <3>1 DEF WriteDelta
    <3>2. CASE ~Visible
      <4>1. RootAnswer(options) \notin r.streaming /\ ~Enabled(options, RootAnswer(options))
        BY <1>6, <1>13, <3>2
      <4> QED
        BY <1>1, <1>3, <1>13, <4>1, HiddenFinal
    <3> QED
      BY <1>15, <3>1, <3>2
  <2>2. Quiet(options, r, w)
    BY <1>1, <2>1, QuietNot
  <2>3. shown' = shown
    BY <1>1, <1>4, <2>2, QuietShowsNothing
  <2>4. shown' = [shown EXCEPT ![Current] = before]
    BY <1>1, <1>7, <1>8, <2>3 DEF TurnTypes
  <2>5. Joint(before, <<>>) = before /\ <<>> \in Seq(Displayed)
    BY <1>9, JointNone
  <2>6. Visible => new = old
    <3>1. Visible => delta = <<>>
      BY <1>15
    <3>2. old \in Seq(Displayed)
      BY <1>9, PiecesAreDisplayed
    <3> QED
      BY <1>10, <3>1, <3>2, JointNone
  <2>7. Becomes(new, before)
    BY <1>11, <2>4 DEF Becomes
  <2>8. /\ Becomes(new, before)
        /\ new = Joint(said[Current], delta) /\ before = Joint(shown[Current], <<>>)
        /\ Visible => before = Expanded(Whole(new))
        /\ ~Visible => before = <<>>
        /\ Renders(options, r') /\ Streaming
        /\ AnswerKey \in r'.streaming <=> Visible /\ new # <<>>
        /\ r'.held = IF Visible THEN Held(new) ELSE <<>>
    BY <1>1, <1>5, <1>6, <1>8, <1>10, <1>12, <2>1, <2>5, <2>6, <2>7
  <2> QED
    BY <1>9, <1>11, <2>5, <2>8, Zenon
<1> QED
  BY <1>14, <1>15

(* The text a reply ends with is that of its deltas, if it has any.         *)
LEMMA FullIs ==
    ASSUME TurnTypes, NEW full \in FullReplies
    PROVE  /\ full \in [Spoken -> Seq(Pieces)]
           /\ full.answer = reply.answer \/ reply.answer = <<>>
<1>1. reply \in [Spoken -> Seq(Pieces)] /\ "answer" \in Spoken
  BY DEF TurnTypes, Spoken
<1>2. CASE reply # Silence
  <2>1. full = reply
    BY <1>2 DEF FullReplies
  <2> QED
    BY <1>1, <2>1
<1>3. CASE reply = Silence
  <2>1. PICK text \in Replies : full = [Silence EXCEPT !.answer = text]
    BY <1>3, Zenon DEF FullReplies
  <2>2. text \in Seq(Pieces) /\ <<>> \in Seq(Pieces)
    BY InputsAssumption
  <2>3. Silence \in [Spoken -> Seq(Pieces)] /\ Silence.answer = <<>>
    BY <1>1, <2>2 DEF Silence
  <2> QED
    BY <1>1, <1>3, <2>1, <2>2, <2>3
<1> QED
  BY <1>2, <1>3

LEMMA OtherIfAny ==
    ASSUME NEW w, Renders(options, w), NEW c \in Spoken, Speaker \in Agents,
           <<Speaker, c>> # RootAnswer(options), NEW text \in Seq(Displayed)
    PROVE  Quiet(options, w, WriteIfAny(w, c, text))
<1>1. PICK key : key = <<Speaker, c>>
  OBVIOUS
<1>2. key \in Agents \X Spoken /\ key # RootAnswer(options)
  BY <1>1
<1>3. Quiet(options, w, WriteFinal(options, w, key, text)) /\ Quiet(options, w, w)
  BY <1>2, OtherFinal, QuietNot
<1> QED
  BY <1>1, <1>3, Zenon DEF WriteIfAny

(* A reply of another agent ends                                            *)
LEMMA OtherEnds ==
    ASSUME IInv, Streaming, Speaker # options.root, NEW full \in FullReplies
    PROVE  Quiet(options, r, Ended(full))
<1>1. ProcessTypes /\ TurnTypes /\ Renders(options, r)
  BY DEF IInv
<1>2. Speaker \in Agents
  BY <1>1, SpeakerIsAgent DEF Streaming
<1>3. full.thinking \in Seq(Displayed) /\ full.answer \in Seq(Displayed)
  <2>1. full \in [Spoken -> Seq(Pieces)]
    BY <1>1, FullIs
  <2>2. full.thinking \in Seq(Pieces) /\ full.answer \in Seq(Pieces)
    BY <2>1 DEF Spoken
  <2> QED
    BY <2>2, PiecesAreDisplayed
<1>4. /\ "thinking" \in Spoken /\ "answer" \in Spoken
      /\ <<Speaker, "thinking">> # RootAnswer(options)
      /\ <<Speaker, "answer">> # RootAnswer(options)
  BY DEF Spoken, RootAnswer
<1>5. PICK v : v = WriteIfAny(r, "thinking", full.thinking)
  OBVIOUS
<1>6. Quiet(options, r, v)
  BY <1>1, <1>2, <1>3, <1>4, <1>5, OtherIfAny
<1>7. Renders(options, v)
  BY <1>6 DEF Quiet
<1>8. Quiet(options, v, WriteIfAny(v, "answer", full.answer))
  BY <1>2, <1>3, <1>4, <1>7, OtherIfAny
<1>9. Ended(full) = WriteIfAny(v, "answer", full.answer)
  BY <1>5 DEF Ended
<1> QED
  BY <1>6, <1>8, <1>9, QuietTwice

(* and one of the root, which shows the rest of its answer.                 *)
Completes(w, answer) ==
    \E more \in Seq(Displayed) :
        /\ Adds(options, r, w, more)
        /\ Visible => Joint(shown[Current], more) = Expanded(answer)
        /\ ~Visible => more = <<>>
        /\ w.held = <<>> /\ AnswerKey \notin w.streaming

LEMMA AddsAround ==
    ASSUME NEW o, NEW u, NEW v, NEW w, NEW z, NEW more, Quiet(o, u, v), Adds(o, v, w, more),
           Quiet(o, w, z)
    PROVE  Adds(o, u, z, more) /\ z.held = w.held
           /\ (RootAnswer(o) \in z.streaming <=> RootAnswer(o) \in w.streaming)
BY DEF Quiet, Adds

LEMMA RootEnds ==
    ASSUME IInv, Streaming, Speaker = options.root, NEW full \in FullReplies,
           NEW w, Quiet(options, Ended(full), w)
    PROVE  Completes(w, full.answer)
<1>1. /\ ProcessTypes /\ TurnTypes /\ Renders(options, r) /\ FirstAreTold /\ AnswersShown /\ Underway
  BY DEF IInv
<1>2. phase = "turn" /\ speakers # <<>> /\ options.root \in Agents /\ Speaker \in Agents
  BY <1>1, SpeakerIsAgent, OptionsTyped DEF Streaming
<1>3. AnswerKey = RootAnswer(options) /\ (Visible <=> Enabled(options, RootAnswer(options)))
      /\ RootAnswer(options) = <<Speaker, "answer">>
  BY DEF AnswerKey, Visible, RootAnswer
<1>4. PICK old, before, answer : old = said[Current] /\ before = shown[Current] /\ answer = full.answer
  OBVIOUS
<1>5. /\ RootAnswer(options) \in r.streaming <=> Visible /\ old # <<>>
      /\ r.held = IF Visible THEN Held(old) ELSE <<>>
      /\ reply.answer = old
  BY <1>1, <1>2, <1>3, <1>4 DEF Underway
<1>6. full \in [Spoken -> Seq(Pieces)] /\ (answer = old \/ old = <<>>)
  BY <1>1, <1>4, <1>5, FullIs
<1>7. answer \in Seq(Pieces) /\ full.thinking \in Seq(Pieces)
  BY <1>4, <1>6 DEF Spoken
<1>8. full.thinking \in Seq(Displayed)
  BY <1>7, PiecesAreDisplayed
<1>9. Current \in Answers
  BY <1>1, CurrentIsAnswer
<1>10. old \in Seq(Pieces) /\ before \in Seq(Displayed)
  BY <1>1, <1>4, <1>9 DEF TurnTypes
<1>11. (Visible => before = Expanded(Whole(old))) /\ (~Visible => before = <<>>)
  BY <1>1, <1>4, NoneIsShown DEF AnswersShown
<1>12. PICK v, u : v = WriteIfAny(r, "thinking", full.thinking) /\ u = Ended(full)
  OBVIOUS
<1>13. Quiet(options, r, v)
  <2>1. "thinking" \in Spoken /\ <<Speaker, "thinking">> # RootAnswer(options)
    BY DEF Spoken, RootAnswer
  <2> QED
    BY <1>1, <1>2, <1>8, <1>12, <2>1, OtherIfAny
<1>14. /\ Renders(options, v) /\ v.held = r.held
       /\ RootAnswer(options) \in v.streaming <=> Visible /\ old # <<>>
  BY <1>5, <1>13 DEF Quiet
<1>15. u = IF answer = <<>> THEN v ELSE WriteFinal(options, v, RootAnswer(options), answer)
  BY <1>3, <1>4, <1>12, Zenon DEF Ended, WriteIfAny
<1>16. ASSUME NEW more \in Seq(Displayed), Adds(options, v, u, more), u.held = <<>>,
              RootAnswer(options) \notin u.streaming,
              Visible => Joint(before, more) = Expanded(answer),
              ~Visible => more = <<>>
       PROVE  Completes(w, full.answer)
  <2>1. Quiet(options, u, w)
    BY <1>12
  <2>2. /\ Adds(options, r, w, more) /\ w.held = u.held
        /\ RootAnswer(options) \in w.streaming <=> RootAnswer(options) \in u.streaming
    BY <1>13, <1>16, <2>1, AddsAround
  <2> QED
    BY <1>3, <1>4, <1>16, <2>2, Zenon DEF Completes
<1>17. /\ Held(<<>>) = <<>> /\ Expanded(Whole(<<>>)) = <<>> /\ Expanded(<<>>) = <<>>
       /\ <<>> \in Seq(Displayed)
  BY NothingIsShown, ExpandNone
<1>18. CASE Visible /\ old # <<>>
  <2>1. answer = old /\ answer # <<>>
    BY <1>6, <1>18
  <2>2. u = WriteFinal(options, v, RootAnswer(options), answer)
    BY <1>15, <2>1
  <2>3. /\ Adds(options, v, WriteFinal(options, v, RootAnswer(options), answer), Expanded(v.held))
        /\ WriteFinal(options, v, RootAnswer(options), answer).held = <<>>
        /\ RootAnswer(options) \notin WriteFinal(options, v, RootAnswer(options), answer).streaming
    BY <1>2, <1>3, <1>14, <1>18, StreamedFinal
  <2>4. v.held = Held(old)
    BY <1>5, <1>14, <1>18
  <2>5. PICK more : more = Expanded(Held(old))
    OBVIOUS
  <2>6. more \in Seq(Displayed)
    <3>1. Held(old) \in Seq(Pieces)
      BY <1>10, WholeAndHeld
    <3> QED
      BY <2>5, <3>1, ExpandText
  <2>7. Joint(before, more) = Expanded(answer)
    <3>1. Expanded(old) = Expanded(Whole(old)) \o Expanded(Held(old))
      BY <1>10, ChunkEnds
    <3> QED
      BY <1>11, <1>18, <2>1, <2>5, <3>1, Zenon DEF Joint
  <2>8. Adds(options, v, u, more) /\ u.held = <<>> /\ RootAnswer(options) \notin u.streaming
    BY <2>2, <2>3, <2>4, <2>5, Zenon
  <2> QED
    BY <1>16, <1>18, <2>6, <2>7, <2>8
<1>19. CASE Visible /\ old = <<>> /\ answer # <<>>
  <2>1. u = WriteFinal(options, v, RootAnswer(options), answer)
    BY <1>15, <1>19
  <2>2. v.held = <<>> /\ before = <<>>
    BY <1>5, <1>11, <1>14, <1>17, <1>19
  <2>3. answer = Joint(v.held, answer)
    <3>1. answer \in Seq(Displayed)
      BY <1>7, PiecesAreDisplayed
    <3> QED
      BY <2>2, <3>1, JointNone
  <2>4. /\ Adds(options, v, WriteFinal(options, v, RootAnswer(options), answer), Expanded(answer))
        /\ WriteFinal(options, v, RootAnswer(options), answer).held = <<>>
        /\ RootAnswer(options) \notin WriteFinal(options, v, RootAnswer(options), answer).streaming
    BY <1>2, <1>3, <1>7, <1>14, <1>19, <2>3, WholeFinal
  <2>5. Expanded(answer) \in Seq(Displayed)
    BY <1>7, ExpandText
  <2>6. Joint(before, Expanded(answer)) = Expanded(answer)
    BY <2>2, <2>5, JointNone
  <2>7. Adds(options, v, u, Expanded(answer)) /\ u.held = <<>> /\ RootAnswer(options) \notin u.streaming
    BY <2>1, <2>4, Zenon
  <2> QED
    BY <1>16, <1>19, <2>5, <2>6, <2>7
<1>20. CASE Visible /\ old = <<>> /\ answer = <<>>
  <2>1. u = v /\ before = <<>> /\ u.held = <<>> /\ RootAnswer(options) \notin u.streaming
    BY <1>5, <1>11, <1>14, <1>15, <1>17, <1>20
  <2>2. Quiet(options, v, v)
    BY <1>14, QuietNot
  <2>3. Adds(options, v, u, <<>>)
    BY <1>14, <2>1, <2>2, QuietAdds
  <2>4. Joint(before, <<>>) = Expanded(answer)
    BY <1>17, <1>20, <2>1, JointNone
  <2> QED
    BY <1>16, <1>17, <1>20, <2>1, <2>3, <2>4
<1>21. CASE ~Visible
  <2>1. RootAnswer(options) \notin v.streaming /\ ~Enabled(options, RootAnswer(options)) /\ v.held = <<>>
    BY <1>3, <1>5, <1>14, <1>21
  <2>2. WriteFinal(options, v, RootAnswer(options), answer) = v
    BY <1>14, <2>1, HiddenFinal
  <2>3. u = v
    BY <1>15, <2>2
  <2>4. Quiet(options, v, v)
    BY <1>14, QuietNot
  <2>5. Adds(options, v, u, <<>>)
    BY <1>14, <2>3, <2>4, QuietAdds
  <2> QED
    BY <1>16, <1>17, <1>21, <2>1, <2>3, <2>5
<1> QED
  BY <1>18, <1>19, <1>20, <1>21

(* An event that tells more of an answer of the root, or the end of it.     *)
Tells ==
    \E new \in Seq(Pieces), display \in Seq(Displayed),
       rest \in Seq(Pieces), more \in Seq(Displayed) :
        /\ Becomes(new, display)
        /\ new = Joint(said[Current], rest) /\ display = Joint(shown[Current], more)
        /\ \/ told' = told /\ (Visible => display = Expanded(Whole(new)))
           \/ told' = told \cup {Current} /\ (Visible => display = Expanded(new))
        /\ ~Visible => display = <<>>

LEMMA AnswerPartialKeeps ==
    ASSUME IInv, NEW delta \in Deltas["answer"], Partial("answer", delta),
           <<Speaker, "answer">> = AnswerKey
    PROVE  IInv' /\ Tells
<1>1. /\ ProcessTypes /\ TurnTypes /\ Renders(options, r) /\ FirstAreTold /\ AnswersShown /\ Underway
  BY DEF IInv
<1>2. PICK new \in Seq(Pieces), display \in Seq(Displayed), more \in Seq(Displayed) :
         /\ Becomes(new, display)
         /\ new = Joint(said[Current], delta) /\ display = Joint(shown[Current], more)
         /\ Visible => display = Expanded(Whole(new))
         /\ ~Visible => display = <<>>
         /\ Renders(options, r') /\ Streaming
         /\ AnswerKey \in r'.streaming <=> Visible /\ new # <<>>
         /\ r'.held = IF Visible THEN Held(new) ELSE <<>>
  BY AnswerPartial
<1>3. delta \in Seq(Pieces) /\ "answer" \in Spoken
  <2>1. "answer" \in Spoken
    BY DEF Spoken
  <2> QED
    BY <2>1, DeltasTyped
<1>4. /\ UNCHANGED <<speakers, due, told>> /\ UNCHANGED process
      /\ events' = events + 1 /\ events < MaxEvents
      /\ reply' = [reply EXCEPT !["answer"] = @ \o delta]
  BY Zenon DEF Partial, Consume
<1>5. /\ ProcessTypes' /\ options' = options /\ phase' = phase
      /\ AnswerKey' = AnswerKey /\ (Visible' <=> Visible)
  BY <1>1, <1>4, ProcessStays
<1>6. told' = told
  BY <1>4
<1>7. FirstAreTold' /\ AnswersShown'
  BY <1>1, <1>2, <1>4, <1>5, <1>6, AnswerGoesOn
<1>8. /\ said' \in [Answers -> Seq(Pieces)] /\ shown' \in [Answers -> Seq(Displayed)]
      /\ said'[Current] = new
  BY <1>1, <1>2, BecomesTyped
<1>9. reply' \in [Spoken -> Seq(Pieces)] /\ reply'.answer = Joint(reply.answer, delta)
  BY <1>1, <1>3, <1>4, ReplyGoesOn
<1>10. events' \in Answers
  BY <1>1, <1>4, InputsAssumption DEF TurnTypes, Answers
<1>11. speakers' = speakers /\ due' = due
  BY <1>4
<1>12. TurnTypes'
  <2>1. speakers \in Seq(Agents) /\ (due # <<>> => due[2] \in Seq(Pieces))
    BY <1>1 DEF TurnTypes
  <2> QED
    BY <1>8, <1>9, <1>10, <1>11, <2>1, Zenon DEF TurnTypes
<1>13. Underway'
  <2>1. phase = "turn" /\ speakers # <<>>
    BY <1>2 DEF Streaming
  <2>2. Speaker = options.root
    BY DEF AnswerKey, RootAnswer
  <2>3. reply.answer = said[Current]
    BY <1>1, <2>1, <2>2 DEF Underway
  <2>4. Current' = Current /\ Speaker' = Speaker
    BY <1>6, <1>11 DEF Current, Speaker
  <2>5. reply'.answer = new
    BY <1>2, <1>9, <2>3
  <2> QED
    BY <1>2, <1>5, <1>8, <2>2, <2>4, <2>5 DEF Underway
<1>14. IInv'
  <2>1. Renders(options, r)'
    BY <1>2, <1>5
  <2> QED
    BY <1>5, <1>7, <1>12, <1>13, <2>1 DEF IInv
<1>15. Tells
  BY <1>2, <1>3, <1>6, Zenon DEF Tells
<1> QED
  BY <1>14, <1>15

LEMMA SilenceTyped ==
    Silence \in [Spoken -> Seq(Pieces)] /\ Silence.answer = <<>>
<1>1. <<>> \in Seq(Pieces) /\ "answer" \in Spoken
  BY DEF Spoken
<1> QED
  BY <1>1 DEF Silence

LEMMA RootReplyEnds ==
    ASSUME IInv, Streaming, Speaker = options.root, NEW full \in FullReplies,
           NEW w, EndsReply(full, w), Quiet(options, Ended(full), w),
           speakers' \in Seq(Agents), due' # <<>> => due'[2] \in Seq(Pieces)
    PROVE  IInv' /\ Tells
<1>1. /\ ProcessTypes /\ TurnTypes /\ Renders(options, r) /\ FirstAreTold /\ AnswersShown /\ Underway
  BY DEF IInv
<1>2. Completes(w, full.answer)
  BY RootEnds
<1>3. PICK more \in Seq(Displayed) :
         /\ Adds(options, r, w, more)
         /\ Visible => Joint(shown[Current], more) = Expanded(full.answer)
         /\ ~Visible => more = <<>>
         /\ w.held = <<>> /\ AnswerKey \notin w.streaming
  BY <1>2 DEF Completes
<1>4. /\ Consume(w) /\ said' = [said EXCEPT ![Current] = full.answer]
      /\ told' = told \cup {Current} /\ reply' = Silence
  BY DEF EndsReply
<1>5. /\ shown' = [shown EXCEPT ![Current] = Joint(@, more)]
      /\ r' = w /\ Renders(options, w)
      /\ events' = events + 1 /\ events' \in Answers
      /\ UNCHANGED process
  BY <1>1, <1>3, <1>4, ConsumeShows
<1>6. PICK new, display : new = full.answer /\ display = Joint(shown[Current], more)
  OBVIOUS
<1>7. Becomes(new, display)
  BY <1>4, <1>5, <1>6, Zenon DEF Becomes
<1>8. phase = "turn" /\ speakers # <<>>
  BY DEF Streaming
<1>9. reply.answer = said[Current]
  BY <1>1, <1>8 DEF Underway
<1>10. full \in [Spoken -> Seq(Pieces)] /\ (new = said[Current] \/ said[Current] = <<>>)
  BY <1>1, <1>6, <1>9, FullIs
<1>11. new \in Seq(Pieces)
  BY <1>6, <1>10 DEF Spoken
<1>12. Current \in Answers
  BY <1>1, CurrentIsAnswer
<1>13. shown[Current] \in Seq(Displayed) /\ said[Current] \in Seq(Pieces)
  BY <1>1, <1>12 DEF TurnTypes
<1>14. display \in Seq(Displayed)
  BY <1>6, <1>13, ConcatProperties DEF Joint
<1>15. (Visible => display = Expanded(new)) /\ (~Visible => display = <<>>)
  <2>1. ~Visible => shown[Current] = <<>>
    BY <1>1, NoneIsShown
  <2>2. Joint(<<>>, <<>>) = <<>>
    <3>1. <<>> \in Seq(Displayed)
      OBVIOUS
    <3> QED
      BY <3>1, JointNone
  <2> QED
    BY <1>3, <1>6, <2>1, <2>2
<1>16. /\ ProcessTypes' /\ options' = options /\ phase' = phase
       /\ AnswerKey' = AnswerKey /\ (Visible' <=> Visible)
  BY <1>1, <1>5, ProcessStays
<1>17. FirstAreTold' /\ AnswersShown' /\ said'[Current'] = <<>>
  BY <1>1, <1>4, <1>5, <1>7, <1>11, <1>14, <1>15, <1>16, AnswerEnds
<1>18. said' \in [Answers -> Seq(Pieces)] /\ shown' \in [Answers -> Seq(Displayed)]
  BY <1>1, <1>7, <1>11, <1>14, BecomesTyped
<1>19. TurnTypes'
  BY <1>4, <1>5, <1>18, SilenceTyped, Zenon DEF TurnTypes
<1>20. Underway'
  BY <1>3, <1>4, <1>5, <1>16, <1>17, SilenceTyped, NothingIsShown DEF Underway
<1>21. IInv'
  <2>1. Renders(options, r)'
    BY <1>5, <1>16
  <2> QED
    BY <1>16, <1>17, <1>19, <1>20, <2>1 DEF IInv
<1>22. \E rest \in Seq(Pieces) : new = Joint(said[Current], rest)
  <2>1. new \in Seq(Displayed) /\ <<>> \in Seq(Pieces)
    BY <1>11, PiecesAreDisplayed
  <2>2. Joint(new, <<>>) = new /\ Joint(<<>>, new) = new
    BY <2>1, JointNone
  <2> QED
    BY <1>10, <1>11, <2>1, <2>2
<1>23. Tells
  BY <1>3, <1>4, <1>6, <1>7, <1>11, <1>14, <1>15, <1>22, Zenon DEF Tells
<1> QED
  BY <1>21, <1>23

LEMMA OtherReplyEnds ==
    ASSUME IInv, Streaming, Speaker # options.root, NEW full \in FullReplies,
           NEW w, EndsReply(full, w), Quiet(options, Ended(full), w),
           speakers' \in Seq(Agents), due' # <<>> => due'[2] \in Seq(Pieces)
    PROVE  IInv' /\ UNCHANGED <<said, shown, told>>
<1>1. /\ ProcessTypes /\ TurnTypes /\ Renders(options, r) /\ FirstAreTold /\ Underway
  BY DEF IInv
<1>2. Quiet(options, r, w)
  BY OtherEnds, QuietTwice
<1>3. Consume(w) /\ reply' = Silence /\ UNCHANGED <<said, told>>
  BY DEF EndsReply
<1>4. shown' = shown
  BY <1>1, <1>2, <1>3, QuietShowsNothing
<1>5. events' = events + 1 /\ events < MaxEvents
  BY <1>3 DEF Consume
<1>6. events' \in Answers
  BY <1>1, <1>5, InputsAssumption DEF TurnTypes, Answers
<1>7. TurnTypes'
  <2>1. said \in [Answers -> Seq(Pieces)] /\ shown \in [Answers -> Seq(Displayed)]
    BY <1>1 DEF TurnTypes
  <2>2. said' = said
    BY <1>3
  <2> QED
    BY <1>3, <1>4, <1>6, <2>1, <2>2, SilenceTyped, Zenon DEF TurnTypes
<1>8. said[Current] = <<>>
  BY <1>1 DEF Underway, Streaming
<1>9. IF Speaker' = options.root THEN reply'.answer = said[Current] ELSE said[Current] = <<>>
  BY <1>3, <1>8, SilenceTyped
<1>10. IInv'
  BY <1>2, <1>3, <1>7, <1>9, QuietEvent
<1> QED
  BY <1>3, <1>4, <1>10

LEMMA ReplyEnds ==
    ASSUME IInv, Streaming, NEW full \in FullReplies,
           NEW w, EndsReply(full, w), Quiet(options, Ended(full), w),
           speakers' \in Seq(Agents), due' # <<>> => due'[2] \in Seq(Pieces)
    PROVE  IInv' /\ (Tells \/ UNCHANGED <<said, shown, told>>)
<1>1. CASE Speaker = options.root
  BY <1>1, RootReplyEnds
<1>2. CASE Speaker # options.root
  BY <1>2, OtherReplyEnds
<1> QED
  BY <1>1, <1>2

LEMMA FinalRenders ==
    ASSUME NEW o, NEW w, Renders(o, w), o.root \in Agents, NEW text \in Seq(Pieces)
    PROVE  Renders(o, WriteFinal(o, w, RootAnswer(o), text))
<1>1. w.held \in Seq(Pieces) /\ w.held = Joint(w.held, <<>>) /\ TRUE \in BOOLEAN
  BY HeldIsText
<1>2. CASE RootAnswer(o) \in w.streaming
  <2>1. PICK v, S, L : /\ v = WriteAnswer(o, w, <<>>, TRUE)
                       /\ S = v.streaming \ {RootAnswer(o)} /\ L = v.labelled \ {RootAnswer(o)}
    OBVIOUS
  <2>2. WriteFinal(o, w, RootAnswer(o), text) = Unlabelled(v, S, L)
    BY <1>2, <2>1, Zenon DEF WriteFinal, EndStreamed, Unlabelled
  <2>3. Answered(o, w, WriteAnswer(o, w, <<>>, TRUE), Chunk(w.held, TRUE))
    BY <1>1, WriteAnswerIs, Zenon
  <2>4. Renders(o, v)
    BY <2>1, <2>3, Zenon DEF Answered
  <2>5. S \subseteq Agents \X Spoken /\ L \subseteq Agents \X Spoken
    BY <2>1, <2>4, StreamingTyped
  <2>6. Likewise(o, v, Unlabelled(v, S, L), S)
    BY <2>4, <2>5, BothChange
  <2> QED
    BY <2>2, <2>6, Zenon DEF Likewise
<1>3. CASE RootAnswer(o) \notin w.streaming
  <2>1. PICK y : y = Joint(w.held, text)
    OBVIOUS
  <2>2. y \in Seq(Pieces)
    BY <1>1, <2>1, ConcatProperties DEF Joint
  <2>3. Answered(o, w, WriteAnswer(o, w, text, TRUE), Chunk(y, TRUE))
    BY <1>1, <2>1, <2>2, WriteAnswerIs, Zenon
  <2>4. Renders(o, WriteAnswer(o, w, text, TRUE))
    BY <2>3, Zenon DEF Answered
  <2> QED
    BY <1>3, <2>4, Zenon DEF WriteFinal
<1> QED
  BY <1>2, <1>3

LEMMA EndedRenders ==
    ASSUME IInv, Streaming, NEW full \in FullReplies
    PROVE  Renders(options, Ended(full)) /\ Speaker \in Agents
<1>1. ProcessTypes /\ TurnTypes /\ Renders(options, r)
  BY DEF IInv
<1>2. Speaker \in Agents /\ options.root \in Agents
  BY <1>1, SpeakerIsAgent, OptionsTyped DEF Streaming
<1>3. CASE Speaker # options.root
  <2>1. Quiet(options, r, Ended(full))
    BY <1>3, OtherEnds
  <2> QED
    BY <1>2, <2>1 DEF Quiet
<1>4. CASE Speaker = options.root
  <2>1. RootAnswer(options) = <<Speaker, "answer">>
    BY <1>4 DEF RootAnswer
  <2>2. full.thinking \in Seq(Displayed) /\ full.answer \in Seq(Pieces)
    <3>1. full \in [Spoken -> Seq(Pieces)]
      BY <1>1, FullIs
    <3>2. full.thinking \in Seq(Pieces) /\ full.answer \in Seq(Pieces)
      BY <3>1 DEF Spoken
    <3> QED
      BY <3>2, PiecesAreDisplayed
  <2>3. PICK v : v = WriteIfAny(r, "thinking", full.thinking)
    OBVIOUS
  <2>4. Renders(options, v)
    <3>1. "thinking" \in Spoken /\ <<Speaker, "thinking">> # RootAnswer(options)
      BY DEF Spoken, RootAnswer
    <3>2. Quiet(options, r, v)
      BY <1>1, <1>2, <2>2, <2>3, <3>1, OtherIfAny
    <3> QED
      BY <3>2 DEF Quiet
  <2>5. Renders(options, WriteFinal(options, v, RootAnswer(options), full.answer))
    BY <1>2, <2>2, <2>4, FinalRenders
  <2> QED
    BY <1>2, <2>1, <2>3, <2>4, <2>5, Zenon DEF Ended, WriteIfAny
<1> QED
  BY <1>3, <1>4

LEMMA PartialKeeps ==
    ASSUME IInv, NEW c \in Spoken, NEW delta \in Deltas[c], Partial(c, delta)
    PROVE  IInv' /\ (Tells \/ UNCHANGED <<said, shown, told>>)
<1>1. CASE <<Speaker, c>> # AnswerKey
  BY <1>1, OtherPartial
<1>2. CASE <<Speaker, c>> = AnswerKey
  <2>1. c = "answer"
    BY <1>2 DEF AnswerKey, RootAnswer
  <2>2. delta \in Deltas["answer"] /\ Partial("answer", delta) /\ <<Speaker, "answer">> = AnswerKey
    BY <1>2, <2>1
  <2> QED
    BY <2>2, AnswerPartialKeeps
<1> QED
  BY <1>1, <1>2

LEMMA CallToolKeeps ==
    ASSUME IInv, NEW full \in FullReplies, CallTool(full)
    PROVE  IInv' /\ (Tells \/ UNCHANGED <<said, shown, told>>)
<1>1. TurnTypes
  BY DEF IInv
<1>2. Streaming
  BY DEF CallTool, Replying
<1>3. PICK w : w = WriteToolCall(options, Ended(full), Speaker, "tool", <<"text">>)
  OBVIOUS
<1>4. EndsReply(full, w) /\ due' = <<"tool", <<"text">>>> /\ speakers' = speakers
  BY <1>3 DEF CallTool
<1>5. <<"text">> \in Seq(Displayed) /\ <<"text">> \in Seq(Pieces)
  BY DEF Displayed, Pieces
<1>6. Quiet(options, Ended(full), w)
  <2>1. Renders(options, Ended(full)) /\ Speaker \in Agents
    BY <1>2, EndedRenders
  <2> QED
    BY <1>3, <1>5, <2>1, ToolCallIsQuiet
<1>7. speakers' \in Seq(Agents) /\ due'[2] \in Seq(Pieces)
  BY <1>1, <1>4, <1>5 DEF TurnTypes
<1> QED
  BY <1>2, <1>4, <1>6, <1>7, ReplyEnds

LEMMA DelegateKeeps ==
    ASSUME IInv, NEW full \in FullReplies, NEW agent \in SubAgents(options), Delegate(full, agent)
    PROVE  IInv' /\ (Tells \/ UNCHANGED <<said, shown, told>>)
<1>1. TurnTypes
  BY DEF IInv
<1>2. Streaming /\ due = <<>>
  BY DEF Delegate, Replying
<1>3. PICK w : w = WriteToolCall(options, Ended(full), Speaker, agent, <<"text">>)
  OBVIOUS
<1>4. EndsReply(full, w) /\ due' = due /\ speakers' = Append(speakers, agent)
  BY <1>3 DEF Delegate
<1>5. <<"text">> \in Seq(Displayed)
  BY DEF Displayed, Pieces
<1>6. Quiet(options, Ended(full), w)
  <2>1. Renders(options, Ended(full)) /\ Speaker \in Agents
    BY <1>2, EndedRenders
  <2> QED
    BY <1>3, <1>5, <2>1, ToolCallIsQuiet
<1>7. speakers' \in Seq(Agents) /\ due' = <<>>
  <2>1. speakers \in Seq(Agents) /\ agent \in Agents
    BY <1>1 DEF TurnTypes, SubAgents, Agents
  <2> QED
    BY <1>2, <1>4, <2>1
<1> QED
  BY <1>2, <1>4, <1>6, <1>7, ReplyEnds

LEMMA LastReplyKeeps ==
    ASSUME IInv, NEW full \in FullReplies, LastReply(full)
    PROVE  IInv' /\ (Tells \/ UNCHANGED <<said, shown, told>>)
<1>1. TurnTypes
  BY DEF IInv
<1>2. Streaming /\ EndsReply(full, Ended(full))
  BY DEF LastReply, Replying
<1>3. /\ due' = IF Speaker = options.root THEN <<>> ELSE <<Speaker, full.answer>>
      /\ speakers' = Front(speakers)
  BY DEF LastReply
<1>4. Quiet(options, Ended(full), Ended(full))
  BY <1>2, EndedRenders, QuietNot
<1>5. speakers' \in Seq(Agents)
  <2>1. speakers \in Seq(Agents) /\ Len(speakers) \in Nat
    BY <1>1 DEF TurnTypes
  <2>2. \A i \in 1..(Len(speakers) - 1) : speakers[i] \in Agents
    BY <2>1
  <2>3. 1 \in Int /\ Len(speakers) - 1 \in Int
    BY <2>1
  <2>4. SubSeq(speakers, 1, Len(speakers) - 1) \in Seq(Agents)
    BY <2>2, <2>3, SubSeqProperties
  <2> QED
    BY <1>3, <2>4, Zenon DEF Front
<1>6. due' # <<>> => due'[2] \in Seq(Pieces)
  <2>1. full \in [Spoken -> Seq(Pieces)]
    BY <1>1, FullIs
  <2>2. full.answer \in Seq(Pieces)
    BY <2>1 DEF Spoken
  <2> QED
    BY <1>3, <2>2
<1> QED
  BY <1>2, <1>4, <1>5, <1>6, ReplyEnds

LEMMA ResultKeeps ==
    ASSUME IInv, Result
    PROVE  IInv' /\ UNCHANGED <<said, shown, told>>
<1>1. /\ ProcessTypes /\ TurnTypes /\ Renders(options, r) /\ FirstAreTold /\ Underway
  BY DEF IInv
<1>2. PICK w : w = WriteToolResult(options, r, Speaker, due[1], due[2])
  OBVIOUS
<1>3. /\ Consume(w) /\ due # <<>> /\ due' = <<>>
      /\ UNCHANGED <<speakers, reply, said, told>>
  BY <1>2 DEF Result
<1>4. phase = "turn" /\ speakers # <<>> /\ events' = events + 1 /\ events < MaxEvents
  BY <1>3 DEF Consume, Streaming
<1>5. Speaker \in Agents
  BY <1>1, <1>4, SpeakerIsAgent
<1>6. Quiet(options, r, w)
  <2>1. due[2] \in Seq(Displayed)
    <3>1. due[2] \in Seq(Pieces)
      BY <1>1, <1>3 DEF TurnTypes
    <3> QED
      BY <3>1, PiecesAreDisplayed
  <2> QED
    BY <1>1, <1>2, <1>5, <2>1, ToolResultIsQuiet
<1>7. shown' = shown
  BY <1>1, <1>3, <1>6, QuietShowsNothing
<1>8. TurnTypes'
  <2>1. events' \in Answers
    BY <1>1, <1>4, InputsAssumption DEF TurnTypes, Answers
  <2> QED
    BY <1>1, <1>3, <1>7, <2>1 DEF TurnTypes
<1>9. IF Speaker' = options.root THEN reply'.answer = said[Current] ELSE said[Current] = <<>>
  BY <1>1, <1>3, <1>4 DEF Underway, Speaker
<1>10. IInv'
  BY <1>3, <1>6, <1>8, <1>9, QuietEvent
<1> QED
  BY <1>3, <1>7, <1>10

LEMMA EventKeeps ==
    ASSUME IInv, Event
    PROVE  /\ IInv' /\ UNCHANGED process
           /\ Tells \/ UNCHANGED <<said, shown, told>>
<1>1. UNCHANGED process
  BY DEF Event, Partial, CallTool, LastReply, Delegate, Result, EndsReply, Consume
<1>2. ASSUME NEW c \in Spoken, NEW delta \in Deltas[c], Partial(c, delta)
      PROVE  IInv' /\ (Tells \/ UNCHANGED <<said, shown, told>>)
  BY <1>2, PartialKeeps
<1>3. ASSUME NEW full \in FullReplies, CallTool(full) \/ LastReply(full)
      PROVE  IInv' /\ (Tells \/ UNCHANGED <<said, shown, told>>)
  BY <1>3, CallToolKeeps, LastReplyKeeps
<1>4. ASSUME NEW full \in FullReplies, NEW agent \in SubAgents(options), Delegate(full, agent)
      PROVE  IInv' /\ (Tells \/ UNCHANGED <<said, shown, told>>)
  BY <1>4, DelegateKeeps
<1>5. CASE Result
  BY <1>1, <1>5, ResultKeeps
<1> QED
  BY <1>1, <1>2, <1>3, <1>4, <1>5, Zenon DEF Event

-----------------------------------------------------------------------------
(* The steps of the program.                                                *)
LEMMA TurnStays ==
    ASSUME IInv, ProcessTypes', options' = options, UNCHANGED turn, phase' = "turn" => phase = "turn"
    PROVE  IInv'
<1>1. /\ TurnTypes /\ Renders(options, r) /\ FirstAreTold /\ AnswersShown /\ Underway
  BY DEF IInv
<1>2. /\ r' = r /\ speakers' = speakers /\ due' = due /\ reply' = reply /\ events' = events
      /\ said' = said /\ shown' = shown /\ told' = told
  BY DEF turn
<1>3. TurnTypes'
  BY <1>1, <1>2 DEF TurnTypes
<1>4. Renders(options, r)'
  BY <1>1, <1>2
<1>5. Current' = Current /\ Speaker' = Speaker /\ AnswerKey' = AnswerKey /\ (Visible' <=> Visible)
  BY <1>2 DEF Current, Speaker, AnswerKey, Visible
<1>6. FirstAreTold'
  BY <1>1, <1>2, <1>5 DEF FirstAreTold
<1>7. AnswersShown'
  BY <1>1, <1>2, <1>5 DEF AnswersShown
<1>8. Underway'
  BY <1>1, <1>2, <1>5 DEF Underway
<1> QED
  BY <1>3, <1>4, <1>6, <1>7, <1>8 DEF IInv

LEMMA EmptyTurn ==
    said = NoAnswers /\ shown = NoAnswers /\ told = {} /\ events = 0 =>
        /\ FirstAreTold /\ AnswersShown /\ Current = 0 /\ said[0] = <<>>
        /\ said \in [Answers -> Seq(Pieces)] /\ shown \in [Answers -> Seq(Displayed)]
        /\ events \in Answers
<1> SUFFICES ASSUME said = NoAnswers, shown = NoAnswers, told = {}, events = 0
             PROVE  /\ FirstAreTold /\ AnswersShown /\ Current = 0 /\ said[0] = <<>>
                    /\ said \in [Answers -> Seq(Pieces)] /\ shown \in [Answers -> Seq(Displayed)]
                    /\ events \in Answers
  OBVIOUS
<1>1. Current = 0
  BY FS_EmptySet DEF Current
<1>2. 0 \in Answers /\ events \in Answers
  BY InputsAssumption DEF Answers
<1>3. FirstAreTold
  BY <1>1 DEF FirstAreTold
<1>4. \A i \in Answers : said[i] = <<>> /\ shown[i] = <<>>
  BY DEF NoAnswers
<1>5. AnswersShown
  BY <1>1, <1>2, <1>4, NothingIsShown DEF AnswersShown
<1>6. said \in [Answers -> Seq(Pieces)] /\ shown \in [Answers -> Seq(Displayed)]
  BY DEF NoAnswers
<1> QED
  BY <1>1, <1>2, <1>3, <1>4, <1>5, <1>6

LEMMA BeginTurnKeeps ==
    ASSUME IInv, BeginTurn
    PROVE  IInv' /\ options' = options /\ said' = NoAnswers /\ shown' = NoAnswers /\ told' = {}
<1>1. ProcessTypes
  BY DEF IInv
<1>2. /\ options' = options /\ phase' = "turn" /\ interrupts' = interrupts
      /\ UNCHANGED <<session, cancelled, outcome, exit>>
      /\ r' = WritePrompt(options, NewRenderer, options.root, <<"text">>)
      /\ speakers' = <<options.root>> /\ due' = <<>> /\ reply' = Silence
      /\ said' = NoAnswers /\ shown' = NoAnswers /\ told' = {} /\ events' = 0
  BY DEF BeginTurn, Goto
<1>3. ProcessTypes'
  BY <1>1, <1>2 DEF ProcessTypes, Phases
<1>4. options.root \in Agents
  BY <1>1, OptionsTyped
<1>5. Quiet(options, NewRenderer, r')
  <2>1. Renders(options, NewRenderer)
    BY NewRenders
  <2>2. <<"text">> \in Seq(Displayed)
    BY DEF Displayed, Pieces
  <2>3. Quiet(options, NewRenderer, WritePrompt(options, NewRenderer, options.root, <<"text">>))
    BY <1>4, <2>1, <2>2, PromptIsQuiet
  <2> QED
    BY <1>2, <2>3, Zenon
<1>6. Renders(options, r)'
  BY <1>2, <1>5 DEF Quiet
<1>7. /\ FirstAreTold' /\ AnswersShown' /\ Current' = 0 /\ said'[0] = <<>>
      /\ said' \in [Answers -> Seq(Pieces)] /\ shown' \in [Answers -> Seq(Displayed)]
      /\ events' \in Answers
  <2>1. (said = NoAnswers /\ shown = NoAnswers /\ told = {} /\ events = 0 =>
           /\ FirstAreTold /\ AnswersShown /\ Current = 0 /\ said[0] = <<>>
           /\ said \in [Answers -> Seq(Pieces)] /\ shown \in [Answers -> Seq(Displayed)]
           /\ events \in Answers)'
    BY EmptyTurn, PTL
  <2> QED
    BY <1>2, <2>1, Zenon
<1>8. TurnTypes'
  <2>1. <<options.root>> \in Seq(Agents)
    BY <1>4
  <2> QED
    BY <1>2, <1>7, <2>1, SilenceTyped, Zenon DEF TurnTypes
<1>9. Underway'
  <2>1. NewRenderer.streaming = {} /\ NewRenderer.held = <<>>
    BY DEF NewRenderer
  <2>2. RootAnswer(options) \notin r'.streaming /\ r'.held = <<>> /\ AnswerKey' = RootAnswer(options)
    BY <1>2, <1>5, <2>1 DEF Quiet, AnswerKey
  <2>3. said'[Current'] = <<>> /\ reply'.answer = <<>>
    BY <1>2, <1>7, SilenceTyped
  <2> QED
    BY <2>2, <2>3, NothingIsShown DEF Underway
<1> QED
  BY <1>2, <1>3, <1>6, <1>7, <1>8, <1>9 DEF IInv

LEMMA EndTurnKeeps ==
    ASSUME IInv, EndTurn
    PROVE  IInv' /\ UNCHANGED <<options, said, shown, told>>
<1>1. /\ ProcessTypes /\ TurnTypes /\ Renders(options, r) /\ FirstAreTold /\ AnswersShown
  BY DEF IInv
<1>2. /\ options' = options /\ interrupts' = interrupts /\ phase' \in {"ready", "closing"}
      /\ UNCHANGED <<session, cancelled, speakers, due, reply, events, said, shown, told>>
      /\ r' = Finish(options, r) /\ outcome' \in Outcomes /\ exit' \in {exit, 75}
  BY DEF EndTurn, Goto, Exit, Outcomes
<1>3. ProcessTypes'
  BY <1>1, <1>2 DEF ProcessTypes, Phases
<1>4. Renders(options, r)'
  <2>1. Renders(options, Finish(options, r))
    BY <1>1, OptionsTyped, FinishRenders
  <2> QED
    BY <1>2, <2>1
<1>5. TurnTypes'
  BY <1>1, <1>2 DEF TurnTypes
<1>6. Current' = Current /\ AnswerKey' = AnswerKey /\ (Visible' <=> Visible)
  BY <1>2 DEF Current, AnswerKey, Visible
<1>7. FirstAreTold' /\ AnswersShown'
  BY <1>1, <1>2, <1>6 DEF FirstAreTold, AnswersShown
<1>8. Underway'
  BY <1>2 DEF Underway
<1> QED
  BY <1>2, <1>3, <1>4, <1>5, <1>7, <1>8 DEF IInv

(* The rest leaves the turn alone.                                          *)
LEMMA OtherSteps ==
    ASSUME IInv, \/ Open \/ OpenIsCancelled \/ ModelLoaded \/ LoadFails
                 \/ Timeout \/ CancelTurn \/ Leave \/ Close
                 \/ Interrupt \/ InterruptAgain
    PROVE  IInv' /\ UNCHANGED <<options, said, shown, told>>
<1>1. ProcessTypes
  BY DEF IInv
<1>2. UNCHANGED turn /\ options' = options /\ (phase' = "turn" => phase = "turn")
  BY DEF Open, OpenIsCancelled, ModelLoaded, LoadFails, Timeout, CancelTurn, Leave, Close,
         Interrupt, InterruptAgain, Goto, Exit
<1>3. ProcessTypes'
  <2>1. CASE Open \/ OpenIsCancelled \/ ModelLoaded \/ LoadFails
    BY <1>1, <2>1 DEF ProcessTypes, Phases, Open, OpenIsCancelled, ModelLoaded, LoadFails, Goto
  <2>2. CASE Timeout \/ Leave \/ Close
    BY <1>1, <2>2 DEF ProcessTypes, Phases, Timeout, Leave, Close, Goto, Exit
  <2>3. CASE CancelTurn
    <3>1. cancelled' \in BOOLEAN
      BY <2>3 DEF CancelTurn
    <3>2. /\ options' = options /\ interrupts' = interrupts /\ phase' = "closing" /\ exit' = 130
          /\ session' = session /\ outcome' = outcome
      BY <2>3 DEF CancelTurn, Goto, Exit
    <3> QED
      BY <1>1, <3>1, <3>2, Zenon DEF ProcessTypes, Phases
  <2>4. CASE Interrupt
    <3>1. cancelled' \in BOOLEAN /\ interrupts' \in 0..2
      BY <2>4 DEF Interrupt
    <3>2. /\ options' = options /\ phase' = phase /\ exit' = exit
          /\ session' = session /\ outcome' = outcome
      BY <2>4 DEF Interrupt
    <3> QED
      BY <1>1, <3>1, <3>2, Zenon DEF ProcessTypes, Phases
  <2>5. CASE InterruptAgain
    <3>1. interrupts' \in 0..2 /\ options' = options /\ cancelled' = cancelled /\ outcome' = outcome
      BY <2>5 DEF InterruptAgain
    <3>2. phase' \in Phases /\ exit' \in {NoExit, 0, 1, 2, 75, 124, 130}
      BY <2>5 DEF InterruptAgain, Phases
    <3>3. session' \in {"none", "open", "closed"}
      BY <1>1, <2>5 DEF InterruptAgain, ProcessTypes
    <3> QED
      BY <1>1, <3>1, <3>2, <3>3, Zenon DEF ProcessTypes
  <2> QED
    BY <2>1, <2>2, <2>3, <2>4, <2>5
<1>4. UNCHANGED <<said, shown, told>>
  BY <1>2 DEF turn
<1> QED
  BY <1>2, <1>3, <1>4, TurnStays

Restarts == said' = NoAnswers /\ shown' = NoAnswers /\ told' = {}

LEMMA NextKeeps ==
    IInv /\ [Next]_vars =>
        /\ IInv' /\ options' = options
        /\ Tells \/ Restarts \/ UNCHANGED <<said, shown, told>>
<1> SUFFICES ASSUME IInv, [Next]_vars
             PROVE  /\ IInv' /\ options' = options
                    /\ Tells \/ Restarts \/ UNCHANGED <<said, shown, told>>
  OBVIOUS
<1>1. CASE \/ Open \/ OpenIsCancelled \/ ModelLoaded \/ LoadFails
           \/ Timeout \/ CancelTurn \/ Leave \/ Close
           \/ Interrupt \/ InterruptAgain
  BY <1>1, OtherSteps
<1>2. CASE BeginTurn
  BY <1>2, BeginTurnKeeps DEF Restarts
<1>3. CASE Event
  <2>1. IInv' /\ UNCHANGED process /\ (Tells \/ UNCHANGED <<said, shown, told>>)
    BY <1>3, EventKeeps
  <2> QED
    BY <2>1 DEF process
<1>4. CASE EndTurn
  BY <1>4, EndTurnKeeps
<1>5. CASE UNCHANGED vars
  <2>1. UNCHANGED turn /\ UNCHANGED process
    BY <1>5 DEF vars
  <2>2. UNCHANGED <<said, shown, told>> /\ options' = options /\ phase' = phase
    BY <2>1 DEF turn, process
  <2>3. ProcessTypes'
    BY <2>1, ProcessStays DEF IInv
  <2> QED
    BY <2>1, <2>2, <2>3, TurnStays
<1> QED
  BY <1>1, <1>2, <1>3, <1>4, <1>5 DEF Next

LEMMA InitHolds == Init => IInv
<1> SUFFICES ASSUME Init PROVE IInv
  OBVIOUS
<1>1. ProcessTypes
  <2>1. cancelled \in BOOLEAN /\ interrupts \in 0..2
    <3>1. cancelled = FALSE
      BY Zenon DEF Init
    <3>2. cancelled \in BOOLEAN
      BY <3>1, Zenon
    <3>3. interrupts = 0
      BY DEF Init
    <3> QED
      BY <3>2, <3>3
  <2>2. /\ options \in Options /\ phase \in Phases /\ session \in {"none", "open", "closed"}
        /\ outcome \in Outcomes \cup {"none"} /\ exit \in {NoExit, 0, 1, 2, 75, 124, 130}
    BY DEF Init, Phases
  <2> QED
    BY <2>1, <2>2, Zenon DEF ProcessTypes
<1>2. /\ FirstAreTold /\ AnswersShown
      /\ said \in [Answers -> Seq(Pieces)] /\ shown \in [Answers -> Seq(Displayed)]
      /\ events \in Answers
  BY EmptyTurn DEF Init
<1>3. TurnTypes
  <2>1. <<>> \in Seq(Agents)
    OBVIOUS
  <2> QED
    BY <1>2, <2>1, SilenceTyped, Zenon DEF TurnTypes, Init
<1>4. Renders(options, r)
  BY NewRenders DEF Init
<1>5. Underway
  BY DEF Init, Underway
<1> QED
  BY <1>1, <1>2, <1>3, <1>4, <1>5 DEF IInv

-----------------------------------------------------------------------------
(* The invariant is inductive: the reply under way, what the renderer holds *)
(* of it and what was recorded belong together at every event.              *)
THEOREM TurnInvariant == Spec => []IInv
<1>1. Init => IInv
  BY InitHolds
<1>2. IInv /\ [Next]_vars => IInv'
  BY NextKeeps
<1> QED
  BY <1>1, <1>2, PTL DEF Spec

LEMMA InvariantTypes == IInv => TypeOK
<1> SUFFICES ASSUME IInv PROVE TypeOK
  OBVIOUS
<1>1. /\ ProcessTypes /\ TurnTypes /\ Renders(options, r) /\ FirstAreTold
  BY DEF IInv
<1>2. /\ r.streaming \subseteq Agents \X Spoken /\ r.labelled \subseteq Agents \X Spoken
      /\ r.held \in {<<>>, <<"head">>, <<"head", "id">>} /\ r.entries \in Seq(Entry)
  BY <1>1 DEF Renders, Shaped, Renderers
<1>3. \A i \in 1..Len(r.entries) : r.entries[i][1] \in Keys
  BY <1>2 DEF Entry
<1>4. \A i \in 1..Len(speakers) : speakers[i] \in Agents
  BY <1>1 DEF TurnTypes
<1>5. events \in Answers
  BY <1>1 DEF TurnTypes
<1>6. told \subseteq Answers
  <2>1. told = 0..(Current - 1) /\ Current <= events /\ Current \in Nat
    BY <1>1 DEF FirstAreTold
  <2>2. events \in 0..MaxEvents /\ MaxEvents \in Nat
    BY <1>5, InputsAssumption DEF Answers
  <2> QED
    BY <2>1, <2>2 DEF Answers
<1> QED
  BY <1>1, <1>2, <1>3, <1>4, <1>5, <1>6 DEF TypeOK, ProcessTypes

(* Every state has its type (TypeOK): what is held is never more than the   *)
(* two pieces of an open token, and no answer is told beyond the events.    *)
THEOREM TypeCorrect == Spec => []TypeOK
BY TurnInvariant, InvariantTypes, PTL

LEMMA InvariantLines == IInv => LinesKeepApart
<1> SUFFICES ASSUME IInv, options.mode = "stream", NEW s \in Streams,
                    NEW i \in 1..Len(r.screen[s]) - 1
             PROVE  \/ r.screen[s][i] = Newline \/ r.screen[s][i + 1] = Newline
                    \/ <<r.screen[s][i][1], r.screen[s][i][2]>> =
                         <<r.screen[s][i + 1][1], r.screen[s][i + 1][2]>>
  BY DEF LinesKeepApart
<1>1. Renders(options, r)
  BY DEF IInv
<1>2. Tidy(r.screen[s], r.pending[s], r.last[s])
  BY <1>1 DEF Renders, Lines
<1>3. OnOneLine(r.screen[s][i], r.screen[s][i + 1])
  BY <1>2 DEF Tidy, Apartness
<1> QED
  BY <1>3, Zenon DEF OnOneLine, KeyOf

(* While a turn streams, no line of the terminal holds two keys             *)
(* (LinesKeepApart), for any agents, options and texts.                     *)
THEOREM LinesApart == Spec => []LinesKeepApart
BY TurnInvariant, InvariantLines, PTL

LEMMA StepsClose == ProcessTypes /\ SessionsAreClosed /\ [Next]_vars => SessionsAreClosed'
<1> SUFFICES ASSUME ProcessTypes, SessionsAreClosed, [Next]_vars
             PROVE  SessionsAreClosed'
  OBVIOUS
<1>1. SessionsAreClosed /\ interrupts \in 0..2
  BY DEF ProcessTypes
<1>2. CASE Open \/ OpenIsCancelled \/ ModelLoaded \/ LoadFails
  BY <1>1, <1>2 DEF SessionsAreClosed, Open, OpenIsCancelled, ModelLoaded,
                    LoadFails, Goto
<1>3. CASE BeginTurn \/ EndTurn
  BY <1>1, <1>3 DEF SessionsAreClosed, BeginTurn, EndTurn, Goto, Exit
<1>4. CASE Event
  <2>1. UNCHANGED process
    BY <1>4 DEF Event, Partial, CallTool, LastReply, Delegate, Result, EndsReply, Consume
  <2> QED
    BY <1>1, <2>1 DEF SessionsAreClosed, process
<1>5. CASE Timeout \/ Leave
  BY <1>1, <1>5 DEF SessionsAreClosed, Timeout, Leave, Goto, Exit
<1>6. CASE CancelTurn
  <2>1. ~cancelled' /\ phase' = "closing"
    BY <1>6 DEF CancelTurn, Goto, Exit
  <2> QED
    BY <2>1 DEF SessionsAreClosed
<1>7. CASE Close
  BY <1>1, <1>7 DEF SessionsAreClosed, Close, Goto
<1>8. CASE Interrupt
  <2>1. interrupts' = 1 /\ phase' # "exited"
    BY <1>8 DEF Interrupt
  <2> QED
    BY <2>1 DEF SessionsAreClosed
<1>9. CASE InterruptAgain
  <2>1. interrupts' = 2 /\ (phase' # "exited" \/ exit' = 130)
    BY <1>9 DEF InterruptAgain
  <2> QED
    BY <2>1 DEF SessionsAreClosed
<1>10. CASE UNCHANGED vars
  BY <1>1, <1>10 DEF SessionsAreClosed, vars, process
<1> QED
  BY <1>2, <1>3, <1>4, <1>5, <1>6, <1>7, <1>8, <1>9, <1>10 DEF Next

(* Every exit closes the session it opened (SessionsAreClosed), that of a   *)
(* turn a Ctrl+C has cancelled included, but for a load that fails, a       *)
(* second Ctrl+C, and a cancellation close itself is the first to see.      *)
THEOREM SessionsClosed == Spec => []SessionsAreClosed
<1>1. Init => SessionsAreClosed
  <2> SUFFICES ASSUME Init PROVE phase = "opening"
    BY DEF SessionsAreClosed
  <2> QED
    BY DEF Init
<1>2. ProcessTypes /\ SessionsAreClosed /\ [Next]_vars => SessionsAreClosed'
  BY StepsClose
<1>3. IInv => ProcessTypes
  BY DEF IInv
<1> QED
  BY <1>1, <1>2, <1>3, TurnInvariant, PTL DEF Spec

(* Before the first turn is over there is nothing to print, and a code that *)
(* tells of a turn that was printed comes only after one.                   *)
Stages ==
    /\ phase \in {"opening", "loading"} => outcome = "none"
    /\ phase \in {"opening", "loading", "ready", "turn"} => exit = NoExit

LEMMA StepsPrint == IInv /\ Stages /\ PrintedIsRecorded /\ [Next]_vars => Stages' /\ PrintedIsRecorded'
<1> SUFFICES ASSUME IInv, Stages, PrintedIsRecorded, [Next]_vars
             PROVE  Stages' /\ PrintedIsRecorded'
  OBVIOUS
<1>1. ProcessTypes /\ Renders(options, r)
  BY DEF IInv
<1>2. ASSUME UNCHANGED <<options, r, outcome>>,
             phase' \in {"ready", "closing"} /\ exit' \in {NoExit, 0, 75} /\ outcome # "none" =>
               phase \in {"ready", "closing"} /\ exit \in {NoExit, 0, 75}
      PROVE  PrintedIsRecorded'
  BY <1>2, Zenon DEF PrintedIsRecorded
<1>3. CASE Open \/ OpenIsCancelled \/ ModelLoaded \/ LoadFails
  <2>1. /\ UNCHANGED <<options, r, outcome>> /\ outcome = "none"
        /\ phase' = "loading" => exit' = exit /\ phase = "opening"
        /\ phase' = "ready" => exit' = exit /\ phase = "loading"
        /\ phase' \in {"loading", "ready", "exited"}
    BY <1>3 DEF Stages, Open, OpenIsCancelled, ModelLoaded, LoadFails, Goto, turn
  <2>2. PrintedIsRecorded'
    BY <1>2, <2>1
  <2>3. Stages'
    BY <2>1 DEF Stages
  <2> QED
    BY <2>2, <2>3
<1>4. CASE BeginTurn
  <2>1. phase' = "turn" /\ exit' = exit /\ phase = "ready"
    BY <1>4 DEF BeginTurn, Goto
  <2> QED
    BY <2>1 DEF Stages, PrintedIsRecorded
<1>5. CASE EndTurn
  <2>1. /\ options' = options /\ r' = Finish(options, r) /\ phase = "turn"
        /\ phase' \in {"ready", "closing"} /\ (phase' = "ready" => exit' = exit)
    BY <1>5 DEF EndTurn, Goto, Exit
  <2>2. Printed(options, Finish(options, r))
    BY <1>1, OptionsTyped, FinishRenders
  <2>3. PrintedIsRecorded'
    BY <2>1, <2>2, Zenon DEF PrintedIsRecorded
  <2>4. Stages'
    BY <2>1 DEF Stages
  <2> QED
    BY <2>3, <2>4
<1>6. CASE Event
  <2>1. UNCHANGED process /\ phase = "turn"
    BY <1>6 DEF Event, Partial, CallTool, LastReply, Delegate, Result, EndsReply, Consume, Streaming
  <2> QED
    BY <2>1 DEF Stages, PrintedIsRecorded, process
<1>7. CASE Timeout \/ CancelTurn
  <2>1. phase' = "closing" /\ exit' \in {124, 130}
    BY <1>7 DEF Timeout, CancelTurn, Goto, Exit
  <2>2. exit' \notin {NoExit, 0, 75}
    BY <2>1 DEF NoExit
  <2> QED
    BY <2>1, <2>2 DEF Stages, PrintedIsRecorded
<1>8. CASE Leave
  <2>1. UNCHANGED <<options, r, outcome>> /\ phase = "ready" /\ phase' = "closing"
    BY <1>8 DEF Leave, Goto, Exit, turn
  <2>2. exit = NoExit
    BY <2>1 DEF Stages
  <2>3. PrintedIsRecorded'
    BY <1>2, <2>1, <2>2
  <2> QED
    BY <2>1, <2>3 DEF Stages
<1>9. CASE Close
  <2>1. phase' = "exited"
    BY <1>9 DEF Close, Goto
  <2> QED
    BY <2>1 DEF Stages, PrintedIsRecorded
<1>10. CASE Interrupt \/ UNCHANGED vars
  <2>1. UNCHANGED <<options, phase, outcome, exit, r>>
    BY <1>10 DEF Interrupt, vars, process, turn
  <2>2. PrintedIsRecorded'
    BY <1>2, <2>1
  <2> QED
    BY <2>1, <2>2 DEF Stages
<1>11. CASE InterruptAgain
  <2>1. /\ UNCHANGED <<options, r, outcome>>
        /\ phase' = "exited" \/ (phase' = "closing" /\ phase = "ready")
    BY <1>11 DEF InterruptAgain, turn
  <2>2. phase' = "closing" => exit = NoExit
    BY <2>1 DEF Stages
  <2>3. PrintedIsRecorded'
    BY <1>2, <2>1, <2>2
  <2> QED
    BY <2>1, <2>3 DEF Stages
<1> QED
  BY <1>3, <1>4, <1>5, <1>6, <1>7, <1>8, <1>9, <1>10, <1>11 DEF Next

(* When a turn is over, each of the three ways to print has printed all     *)
(* that was recorded, in order and on complete lines (PrintedIsRecorded),   *)
(* for all options, events and cuts of the texts: Finish writes what the    *)
(* entries hold, and the stream has copied every entry as it came.          *)
THEOREM AllIsPrinted == Spec => []PrintedIsRecorded
<1>1. Init => Stages /\ PrintedIsRecorded
  BY DEF Init, Stages, PrintedIsRecorded
<1>2. IInv /\ Stages /\ PrintedIsRecorded /\ [Next]_vars => Stages' /\ PrintedIsRecorded'
  BY StepsPrint
<1> QED
  BY <1>1, <1>2, TurnInvariant, PTL DEF Spec

-----------------------------------------------------------------------------
(* The terminal implements what ShownText promises: said and shown, of the  *)
(* answers that are not hidden.                                             *)
SaidThere == IF Visible THEN said ELSE NoAnswers
OverThere == IF Visible THEN told ELSE {}

LEMMA SameText ==
    ASSUME NEW text
    PROVE  /\ Promised!Expanded(text) = Expanded(text)
           /\ Promised!Unfinished(text) = Unfinished(text)
           /\ Promised!Chunk(text, FALSE) = Chunk(text, FALSE)
<1>1. \A t : Promised!Expanded(t) = Expanded(t)
  BY DEF Promised!Expanded, Expanded
<1>2. \A t : Promised!Unfinished(t) = Unfinished(t)
  BY DEF Promised!Unfinished, Unfinished, Promised!IsSuffix, IsSuffix, Promised!IsPrefix,
         IsPrefix, Promised!Reverse, Reverse
<1> QED
  BY <1>1, <1>2 DEF Promised!Chunk, Chunk

LEMMA SamePrefix ==
    ASSUME NEW p, NEW z
    PROVE  Promised!IsPrefix(p, z) <=> IsPrefix(p, z)
BY DEF Promised!IsPrefix, IsPrefix

(* What the renderer never shows of an answer to come is a part of it.      *)
LEMMA MayShowWhole ==
    ASSUME NEW text \in Seq(Pieces), NEW display, display = Expanded(Whole(text))
    PROVE  Promised!MayBeShown(text, display)
<1>1. Promised!Chunk(text, FALSE).shown = display
  BY SameText, ChunkShows
<1>2. display \in Seq(Displayed)
  <2>1. Whole(text) \in Seq(Pieces)
    BY WholeAndHeld
  <2> QED
    BY <2>1, ExpandText
<1>3. IsPrefix(display, display)
  BY <1>2, JointPrefix
<1> QED
  BY <1>1, <1>3, SamePrefix DEF Promised!MayBeShown

LEMMA StateShows ==
    IInv /\ Visible =>
        \A t \in Answers : IF t \in told THEN shown[t] = Promised!Expanded(said[t])
                           ELSE Promised!MayBeShown(said[t], shown[t])
<1> SUFFICES ASSUME IInv, Visible, NEW t \in Answers
             PROVE  IF t \in told THEN shown[t] = Promised!Expanded(said[t])
                    ELSE Promised!MayBeShown(said[t], shown[t])
  OBVIOUS
<1>1. TurnTypes /\ FirstAreTold /\ AnswersShown
  BY DEF IInv
<1>2. CASE t \in told
  <2>1. shown[t] = Expanded(said[t])
    BY <1>1, <1>2 DEF AnswersShown
  <2> QED
    BY <1>2, <2>1, SameText
<1>3. CASE t \notin told
  <2>1. said[t] \in Seq(Pieces)
    BY <1>1 DEF TurnTypes
  <2>2. shown[t] = Expanded(Whole(said[t]))
    <3>1. Current \in Nat /\ told = 0..(Current - 1) /\ t \in Nat
      BY <1>1, InputsAssumption DEF FirstAreTold, Answers
    <3>2. CASE t = Current
      BY <1>1, <3>2 DEF AnswersShown
    <3>3. CASE t # Current
      <4>1. t > Current
        BY <1>3, <3>1, <3>3
      <4> QED
        BY <1>1, <4>1, NothingIsShown DEF AnswersShown
    <3> QED
      BY <3>2, <3>3
  <2>3. Promised!MayBeShown(said[t], shown[t])
    BY <2>1, <2>2, MayShowWhole
  <2> QED
    BY <1>3, <2>3
<1> QED
  BY <1>2, <1>3

LEMMA TellsIsNext ==
    ASSUME IInv, IInv', options' = options, Tells, Visible
    PROVE  Promised!Next
<1>1. TurnTypes /\ FirstAreTold /\ TurnTypes'
  BY DEF IInv
<1>2. PICK new \in Seq(Pieces), display \in Seq(Displayed),
           rest \in Seq(Pieces), more \in Seq(Displayed) :
         /\ Becomes(new, display)
         /\ new = Joint(said[Current], rest) /\ display = Joint(shown[Current], more)
         /\ told' = told \/ told' = told \cup {Current}
  BY Zenon DEF Tells
<1>3. /\ said'[Current] = new /\ shown'[Current] = display
      /\ \A i \in Answers : i # Current => said'[i] = said[i] /\ shown'[i] = shown[i]
  BY <1>1, <1>2, BecomesTyped
<1>4. Visible' /\ (Enabled(options, AnswerKey) <=> Visible) /\ (Enabled(options', AnswerKey') <=> Visible')
  BY DEF Visible, AnswerKey
<1>5. Current \in Answers /\ Current \notin told
  BY <1>1, CurrentIsAnswer
<1>6. ASSUME NEW t \in Answers
      PROVE  Promised!IsPrefix(said[t], said'[t]) /\ Promised!IsPrefix(shown[t], shown'[t])
  <2>1. said[t] \in Seq(Displayed) /\ shown[t] \in Seq(Displayed)
    <3>1. said[t] \in Seq(Pieces) /\ shown[t] \in Seq(Displayed)
      BY <1>1 DEF TurnTypes
    <3> QED
      BY <3>1, PiecesAreDisplayed
  <2>2. CASE t = Current
    <3>1. rest \in Seq(Displayed)
      BY PiecesAreDisplayed
    <3>2. IsPrefix(said[t], Joint(said[t], rest)) /\ IsPrefix(shown[t], Joint(shown[t], more))
      BY <2>1, <3>1, JointPrefix
    <3>3. said'[t] = Joint(said[t], rest) /\ shown'[t] = Joint(shown[t], more)
      BY <1>2, <1>3, <2>2
    <3> QED
      BY <3>2, <3>3, SamePrefix, Zenon
  <2>3. CASE t # Current
    <3>1. IsPrefix(said[t], said[t]) /\ IsPrefix(shown[t], shown[t])
      BY <2>1, JointPrefix
    <3>2. said'[t] = said[t] /\ shown'[t] = shown[t]
      BY <1>3, <2>3
    <3> QED
      BY <3>1, <3>2, SamePrefix, Zenon
  <2> QED
    BY <2>2, <2>3
<1>7. \A t \in told : said'[t] = said[t]
  <2>1. told \subseteq Answers
    BY InvariantTypes DEF TypeOK
  <2> QED
    BY <1>3, <1>5, <2>1
<1>8. told \subseteq told' /\ told' \subseteq Answers
  <2>1. told \subseteq Answers
    BY InvariantTypes DEF TypeOK
  <2> QED
    BY <1>2, <1>5, <2>1
<1>9. \A t \in Answers : IF t \in told' THEN shown'[t] = Promised!Expanded(said'[t])
                         ELSE Promised!MayBeShown(said'[t], shown'[t])
  <2>1. (IInv /\ Visible =>
          \A t \in Answers : IF t \in told THEN shown[t] = Promised!Expanded(said[t])
                             ELSE Promised!MayBeShown(said[t], shown[t]))'
    BY StateShows, PTL
  <2> QED
    BY <1>4, <2>1, Zenon
<1>10. Promised!Say
  BY <1>4, <1>6, <1>7, Zenon DEF Promised!Say, Promised!Grows
<1>11. Promised!Show
  BY <1>4, <1>6, <1>8, <1>9, Zenon DEF Promised!Show, Promised!Grows
<1> QED
  BY <1>10, <1>11 DEF Promised!Next

LEMMA RefinesInit == Init => Promised!Init
<1> SUFFICES ASSUME Init PROVE Promised!Init
  OBVIOUS
<1>1. said = NoAnswers /\ shown = NoAnswers /\ told = {}
  BY DEF Init
<1> QED
  BY <1>1, Zenon DEF Promised!Init, NoAnswers

LEMMA RefinesNext ==
    IInv /\ [Next]_vars => [Promised!Next \/ Promised!Restart]_(Promised!vars)
<1> SUFFICES ASSUME IInv, [Next]_vars
             PROVE  Promised!Next \/ Promised!Restart \/ UNCHANGED Promised!vars
  OBVIOUS
<1>1. /\ IInv' /\ options' = options
      /\ Tells \/ Restarts \/ UNCHANGED <<said, shown, told>>
  BY NextKeeps
<1>2. (Visible' <=> Visible) /\ (Enabled(options, AnswerKey) <=> Visible)
      /\ (Enabled(options', AnswerKey') <=> Visible')
  BY <1>1 DEF Visible, AnswerKey
<1>3. CASE ~Visible
  <2>1. shown = NoAnswers /\ shown' = NoAnswers
    BY <1>1, <1>2, <1>3 DEF IInv, AnswersShown
  <2> QED
    BY <1>2, <1>3, <2>1, Zenon DEF Promised!vars, NoAnswers, Answers
<1>4. CASE Visible /\ UNCHANGED <<said, shown, told>>
  BY <1>2, <1>4, Zenon DEF Promised!vars
<1>5. CASE Visible /\ Restarts
  BY <1>2, <1>5, Zenon DEF Promised!Restart, Promised!Init, Restarts, NoAnswers, Answers
<1>6. CASE Visible /\ Tells
  BY <1>1, <1>6, TellsIsNext
<1> QED
  BY <1>1, <1>3, <1>4, <1>5, <1>6

(* The program implements the promise (AnswersAreShownWhole): however the   *)
(* model cuts the root's answers, each is shown in order, once, with the    *)
(* stored text for every token, and completely when it is over.             *)
THEOREM ShownWhole == Spec => AnswersAreShownWhole
<1>1. Init => Promised!Init
  BY RefinesInit
<1>2. IInv /\ [Next]_vars => [Promised!Next \/ Promised!Restart]_(Promised!vars)
  BY RefinesNext
<1> QED
  BY <1>1, <1>2, TurnInvariant, PTL DEF Spec, AnswersAreShownWhole, Promised!TurnsSpec

=============================================================================
