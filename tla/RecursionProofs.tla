-------------------------- MODULE RecursionProofs --------------------------
(***************************************************************************)
(* What the proofs of the components share about recursive functions:      *)
(* sums over finite sets, the text of a sequence of texts, and the texts   *)
(* of TokenText, which CallbackTokenSseExpander and AdkEventRenderer cut.  *)
(***************************************************************************)
EXTENDS TokenText, Functions, FiniteSetTheorems, SequenceTheorems, WellFoundedInduction, TLAPS

(* A sum is a fold, and a fold a recursive function on the subsets of its   *)
(* set: that there is one, and what it returns, follows from the least set  *)
(* that would be an exception.                                              *)

(* Of finite sets, there is a least one. *)
LEMMA LeastSet ==
    ASSUME NEW U, IsFiniteSet(U), NEW T, T \subseteq SUBSET U, T # {}
    PROVE  \E least \in T : \A B \in T : B \subseteq least => B = least
<1>1. FiniteSubsetsOf(U) = SUBSET U
  BY FS_FiniteSubsetsOfFinite
<1>2. IsWellFoundedOn(StrictSubsetOrdering(U), FiniteSubsetsOf(U))
  BY FS_StrictSubsetOrderingWellFounded
<1>3. IsWellFoundedOn(StrictSubsetOrdering(U), SUBSET U)
  BY <1>1, <1>2
<1>4. \E least \in T : \A B \in T : ~ (<<B, least>> \in StrictSubsetOrdering(U))
  BY <1>3, WFMin, Zenon
<1> QED
  BY <1>4 DEF StrictSubsetOrdering

AnyOf(s) == CHOOSE x \in s : TRUE

(* g sums f over the subsets of U. *)
Sums(g, f, U) ==
    g = [s \in SUBSET U |-> IF s = {} THEN 0 ELSE f[AnyOf(s)] + g[s \ {AnyOf(s)}]]

LEMMA SumsAgree ==
    ASSUME NEW U, IsFiniteSet(U), NEW f, NEW g, NEW h, NEW V, NEW W, V \subseteq U, W \subseteq U,
           Sums(g, f, V), Sums(h, f, W), NEW s, s \subseteq V, s \subseteq W
    PROVE  g[s] = h[s]
<1> DEFINE T == {t \in SUBSET U : t \subseteq V /\ t \subseteq W /\ g[t] # h[t]}
<1> SUFFICES ASSUME T # {} PROVE FALSE
  OBVIOUS
<1>1. PICK t \in T : \A B \in T : B \subseteq t => B = t
  <2>1. T \subseteq SUBSET U
    OBVIOUS
  <2> HIDE DEF T
  <2> QED
    BY <2>1, LeastSet
<1>2. t # {}
  BY DEF Sums
<1>3. AnyOf(t) \in t
  BY <1>2 DEF AnyOf
<1>4. t \ {AnyOf(t)} \notin T
  BY <1>1, <1>3
<1>5. g[t \ {AnyOf(t)}] = h[t \ {AnyOf(t)}]
  BY <1>4
<1>6. g[t] = f[AnyOf(t)] + g[t \ {AnyOf(t)}] /\ h[t] = f[AnyOf(t)] + h[t \ {AnyOf(t)}]
  BY <1>2 DEF Sums
<1> QED
  BY <1>5, <1>6

LEMMA SumsExist ==
    ASSUME NEW U, IsFiniteSet(U), NEW f
    PROVE  \E g : Sums(g, f, U)
<1> DEFINE T == {V \in SUBSET U : ~\E g : Sums(g, f, V)}
           G(V) == CHOOSE g : Sums(g, f, V)
<1> SUFFICES ASSUME T # {} PROVE FALSE
  OBVIOUS
<1>1. PICK V \in T : \A B \in T : B \subseteq V => B = V
  <2>1. T \subseteq SUBSET U
    OBVIOUS
  <2> HIDE DEF T
  <2> QED
    BY <2>1, LeastSet
<1>2. \A B \in SUBSET V : B # V => Sums(G(B), f, B)
  BY <1>1
<1> HIDE DEF G
<1> DEFINE g == [s \in SUBSET V |-> IF s = {} THEN 0 ELSE f[AnyOf(s)] + G(s \ {AnyOf(s)})[s \ {AnyOf(s)}]]
<1>3. \A s \in SUBSET V : s # {} => AnyOf(s) \in s
  BY DEF AnyOf
<1>4. ASSUME NEW t \in SUBSET V, t # V PROVE g[t] = G(t)[t]
  <2>1. Sums(G(t), f, t)
    BY <1>2, <1>4
  <2>2. CASE t = {}
    BY <2>1, <2>2 DEF Sums
  <2>3. CASE t # {}
    <3> DEFINE u == t \ {AnyOf(t)}
    <3>1. u \in SUBSET V /\ u # V /\ u \subseteq t
      BY <1>3, <1>4
    <3>2. Sums(G(u), f, u)
      BY <1>2, <3>1
    <3>3. G(t)[u] = G(u)[u]
      BY <2>1, <3>1, <3>2, SumsAgree
    <3>4. G(t)[t] = f[AnyOf(t)] + G(t)[u]
      BY <2>1, <2>3 DEF Sums
    <3>5. g[t] = f[AnyOf(t)] + G(u)[u]
      BY <2>3
    <3> QED
      BY <3>3, <3>4, <3>5
  <2> QED
    BY <2>2, <2>3
<1>5. \A s \in SUBSET V : s # {} => s \ {AnyOf(s)} \in SUBSET V /\ s \ {AnyOf(s)} # V
  BY <1>3
<1>6. g = [s \in SUBSET V |-> IF s = {} THEN 0 ELSE f[AnyOf(s)] + g[s \ {AnyOf(s)}]]
  <2>1. \A s \in SUBSET V : s # {} => g[s \ {AnyOf(s)}] = G(s \ {AnyOf(s)})[s \ {AnyOf(s)}]
    BY <1>4, <1>5
  <2> QED
    BY <2>1
<1>7. Sums(g, f, V)
  BY <1>6 DEF Sums
<1> QED
  BY <1>1, <1>7


-----------------------------------------------------------------------------
(* The fold of the library is the sum of the elements one by one. *)
LEMMA SumIs ==
    ASSUME NEW S, IsFiniteSet(S), NEW f
    PROVE  \E g : Sums(g, f, S) /\ SumFunctionOnSet(f, S) = g[S]
<1>1. \E g : g = [s \in SUBSET S |-> IF s = {} THEN 0
                                     ELSE f[CHOOSE x \in s : TRUE] + g[s \ {CHOOSE x \in s : TRUE}]]
  <2>1. \E g : Sums(g, f, S)
    BY SumsExist
  <2> QED
    BY <2>1 DEF Sums, AnyOf
<1>2. Sums(CHOOSE g : g = [s \in SUBSET S |->
                               IF s = {} THEN 0
                               ELSE f[CHOOSE x \in s : TRUE] + g[s \ {CHOOSE x \in s : TRUE}]], f, S)
  BY <1>1 DEF Sums, AnyOf
<1> QED
  BY <1>2 DEF SumFunctionOnSet, FoldFunctionOnSet, MapThenFoldSet

(* No elements sum to zero, *)
LEMMA SumOfNone ==
    ASSUME NEW f
    PROVE  SumFunctionOnSet(f, {}) = 0
<1>1. PICK g : Sums(g, f, {}) /\ SumFunctionOnSet(f, {}) = g[{}]
  BY FS_EmptySet, SumIs
<1> QED
  BY <1>1 DEF Sums

(* and some to one of them and the sum of the others. *)
LEMMA SumOfSome ==
    ASSUME NEW S, IsFiniteSet(S), S # {}, NEW f
    PROVE  SumFunctionOnSet(f, S) = f[AnyOf(S)] + SumFunctionOnSet(f, S \ {AnyOf(S)})
<1> DEFINE R == S \ {AnyOf(S)}
<1>1. IsFiniteSet(R)
  BY FS_Subset
<1>2. PICK g : Sums(g, f, S) /\ SumFunctionOnSet(f, S) = g[S]
  BY SumIs
<1>3. PICK h : Sums(h, f, R) /\ SumFunctionOnSet(f, R) = h[R]
  BY <1>1, SumIs
<1>4. g[R] = h[R]
  BY <1>2, <1>3, SumsAgree
<1>5. g[S] = f[AnyOf(S)] + g[R]
  BY <1>2 DEF Sums
<1> QED
  BY <1>2, <1>3, <1>4, <1>5

LEMMA SumIsNat ==
    ASSUME NEW S, IsFiniteSet(S), NEW f, \A x \in S : f[x] \in Nat
    PROVE  SumFunctionOnSet(f, S) \in Nat
<1> DEFINE T == {V \in SUBSET S : SumFunctionOnSet(f, V) \notin Nat}
<1> SUFFICES ASSUME T # {} PROVE FALSE
  OBVIOUS
<1>1. PICK V \in T : \A B \in T : B \subseteq V => B = V
  <2>1. T \subseteq SUBSET S
    OBVIOUS
  <2> HIDE DEF T
  <2> QED
    BY <2>1, LeastSet
<1>2. IsFiniteSet(V)
  BY FS_Subset
<1>3. V # {}
  BY SumOfNone
<1>4. AnyOf(V) \in V
  BY <1>3 DEF AnyOf
<1>5. V \ {AnyOf(V)} \notin T
  BY <1>1, <1>4
<1>6. SumFunctionOnSet(f, V \ {AnyOf(V)}) \in Nat
  BY <1>5
<1>7. SumFunctionOnSet(f, V) = f[AnyOf(V)] + SumFunctionOnSet(f, V \ {AnyOf(V)})
  BY <1>2, <1>3, SumOfSome
<1> QED
  BY <1>4, <1>6, <1>7

-----------------------------------------------------------------------------
(* Recursion over texts: of numbers, there is a least one.                  *)
LEMMA LeastNumber ==
    ASSUME NEW T, T \subseteq Nat, T # {}
    PROVE  \E n \in T : \A m \in T : n <= m
<1>1. \E n \in T : \A m \in T : ~ (<<m, n>> \in OpToRel(<, Nat))
  BY NatLessThanWellFounded, WFMin
<1>2. PICK n \in T : \A m \in T : ~ (<<m, n>> \in OpToRel(<, Nat))
  BY <1>1
<1>3. \A m \in T : ~ (m < n)
  BY <1>2 DEF OpToRel
<1> QED
  BY <1>3

LEMMA Recursion ==
    ASSUME NEW n \in Nat, NEW P, 0 \in P,
           \A k \in 1..n : (\A j \in 0..(k - 1) : j \in P) => k \in P
    PROVE  \A k \in 0..n : k \in P
<1> DEFINE T == {k \in Nat : k <= n /\ k \notin P}
<1> SUFFICES ASSUME T # {} PROVE FALSE
  OBVIOUS
<1>1. PICK k \in T : \A j \in T : k <= j
  <2>1. T \subseteq Nat
    OBVIOUS
  <2> HIDE DEF T
  <2> QED
    BY <2>1, LeastNumber
<1> QED
  BY <1>1

(* What is recorded and shown: pieces of text, stored texts and labels.     *)
Expansions == Pieces \cup {"stored"}
Displayed == Pieces \cup {"stored", "label"}

EndsToken(text, i) == i > 2 /\ SubSeq(text, i - 2, i) = <<"head", "id", "close">>

(* g[i] is the expansion of the first i pieces of a text, for i up to n.    *)
Expands(g, text, n) ==
    g = [i \in 0..n |->
            IF i = 0 THEN <<>>
            ELSE IF EndsToken(text, i) THEN Append(g[i - 3], "stored")
            ELSE Append(g[i - 1], text[i])]

LEMMA ExpansionExists ==
    ASSUME NEW text, NEW n \in Nat
    PROVE  \E g : Expands(g, text, n)
<1> DEFINE T == {m \in Nat : ~\E g : Expands(g, text, m)}
<1> SUFFICES ASSUME T # {} PROVE FALSE
  OBVIOUS
<1>1. PICK m \in T : \A k \in T : m <= k
  <2>1. T \subseteq Nat
    OBVIOUS
  <2> HIDE DEF T
  <2> QED
    BY <2>1, LeastNumber
<1>2. m # 0
  <2>1. Expands([i \in 0..0 |-> <<>>], text, 0)
    BY DEF Expands
  <2> QED
    BY <2>1
<1>3. m - 1 \in Nat /\ m - 1 \notin T
  BY <1>1, <1>2
<1>4. PICK h : Expands(h, text, m - 1)
  BY <1>3
<1> DEFINE new == IF EndsToken(text, m) THEN Append(h[m - 3], "stored") ELSE Append(h[m - 1], text[m])
           g == [i \in 0..m |-> IF i = m THEN new ELSE h[i]]
<1>5. Expands(g, text, m)
  <2>1. \A i \in 0..m : g[i] = IF i = 0 THEN <<>>
                               ELSE IF EndsToken(text, i) THEN Append(g[i - 3], "stored")
                               ELSE Append(g[i - 1], text[i])
    <3> SUFFICES ASSUME NEW i \in 0..m
                 PROVE  g[i] = IF i = 0 THEN <<>>
                               ELSE IF EndsToken(text, i) THEN Append(g[i - 3], "stored")
                               ELSE Append(g[i - 1], text[i])
      OBVIOUS
    <3>1. CASE i = m
      <4>1. EndsToken(text, m) => m - 3 \in 0..(m - 1) /\ m - 3 # m
        BY DEF EndsToken
      <4>2. m - 1 \in 0..(m - 1) /\ m - 1 # m
        BY <1>2
      <4> QED
        BY <3>1, <4>1, <4>2, <1>2
    <3>2. CASE i # m
      <4>1. i \in 0..(m - 1) /\ g[i] = h[i]
        BY <3>2
      <4>2. h[i] = IF i = 0 THEN <<>>
                   ELSE IF EndsToken(text, i) THEN Append(h[i - 3], "stored")
                   ELSE Append(h[i - 1], text[i])
        BY <4>1, <1>4 DEF Expands
      <4>3. EndsToken(text, i) => g[i - 3] = h[i - 3]
        BY <4>1 DEF EndsToken
      <4>4. i # 0 => g[i - 1] = h[i - 1]
        BY <4>1
      <4> QED
        BY <4>1, <4>2, <4>3, <4>4
    <3> QED
      BY <3>1, <3>2
  <2> QED
    BY <2>1 DEF Expands
<1> QED
  BY <1>1, <1>5

LEMMA ExpandsStep ==
    ASSUME NEW g, NEW text, NEW n, Expands(g, text, n)
    PROVE  /\ 0 \in 0..n => g[0] = <<>>
           /\ \A i \in 0..n : i # 0 => g[i] = IF EndsToken(text, i) THEN Append(g[i - 3], "stored")
                                             ELSE Append(g[i - 1], text[i])
BY DEF Expands

LEMMA ExpandIs ==
    ASSUME NEW text, Len(text) \in Nat
    PROVE  \E g : Expands(g, text, Len(text)) /\ Expanded(text) = g[Len(text)]
<1>1. PICK g : Expands(g, text, Len(text))
  BY ExpansionExists
<1> QED
  BY <1>1 DEF Expanded, Expands, EndsToken

-----------------------------------------------------------------------------
LEMMA TokenEnds ==
    ASSUME NEW S, NEW text \in Seq(S), NEW i \in 1..Len(text)
    PROVE  EndsToken(text, i) <=>
               i > 2 /\ text[i - 2] = "head" /\ text[i - 1] = "id" /\ text[i] = "close"
<1> DEFINE w == SubSeq(text, i - 2, i)
           token == <<"head", "id", "close">>
<1>1. CASE i > 2
  <2>1. Len(w) = 3 /\ w[1] = text[i - 2] /\ w[2] = text[i - 1] /\ w[3] = text[i]
    BY <1>1
  <2>2. w \in Seq(S)
    BY <1>1
  <2>3. w = token <=> w[1] = "head" /\ w[2] = "id" /\ w[3] = "close"
    <3>1. token \in Seq({"head", "id", "close"}) /\ Len(token) = 3
      OBVIOUS
    <3>2. token[1] = "head" /\ token[2] = "id" /\ token[3] = "close"
      OBVIOUS
    <3> HIDE DEF w, token
    <3>3. w = token <=> \A j \in 1..3 : w[j] = token[j]
      BY <2>1, <2>2, <3>1, SeqEqual
    <3> QED
      BY <3>2, <3>3
  <2> QED
    BY <1>1, <2>1, <2>3 DEF EndsToken
<1>2. CASE ~(i > 2)
  BY <1>2 DEF EndsToken
<1> QED
  BY <1>1, <1>2

(* Texts that begin alike are expanded alike so far.                        *)
LEMMA ExpandsAlike ==
    ASSUME NEW s \in Seq(Pieces), NEW t \in Seq(Pieces), NEW m \in 0..Len(s), m <= Len(t),
           \A i \in 1..m : s[i] = t[i],
           NEW g, NEW h, Expands(g, s, Len(s)), Expands(h, t, Len(t))
    PROVE  g[m] = h[m]
<1> DEFINE T == {k \in Nat : k <= m /\ g[k] # h[k]}
<1> SUFFICES ASSUME T # {} PROVE FALSE
  OBVIOUS
<1>1. PICK k \in T : \A j \in T : k <= j
  <2>1. T \subseteq Nat
    OBVIOUS
  <2> HIDE DEF T
  <2> QED
    BY <2>1, LeastNumber
<1>2. k \in 0..Len(s) /\ k \in 0..Len(t)
  OBVIOUS
<1>3. k # 0
  BY <1>2, ExpandsStep
<1>4. EndsToken(s, k) <=> EndsToken(t, k)
  BY <1>2, <1>3, TokenEnds
<1>5. \A j \in 0..(k - 1) : g[j] = h[j]
  BY <1>1
<1>6. EndsToken(s, k) => k - 3 \in 0..(k - 1)
  BY <1>2 DEF EndsToken
<1>7. s[k] = t[k] /\ k - 1 \in 0..(k - 1)
  BY <1>2, <1>3
<1>8. g[k] = IF EndsToken(s, k) THEN Append(g[k - 3], "stored") ELSE Append(g[k - 1], s[k])
  BY <1>2, <1>3, ExpandsStep
<1>9. h[k] = IF EndsToken(t, k) THEN Append(h[k - 3], "stored") ELSE Append(h[k - 1], t[k])
  BY <1>2, <1>3, ExpandsStep
<1>10. g[k] # h[k]
  OBVIOUS
<1> HIDE DEF T
<1> QED
  BY <1>4, <1>5, <1>6, <1>7, <1>8, <1>9, <1>10

LEMMA ExpandsTyped ==
    ASSUME NEW s \in Seq(Pieces), NEW g, Expands(g, s, Len(s)), NEW m \in 0..Len(s)
    PROVE  g[m] \in Seq(Expansions)
<1> DEFINE T == {k \in Nat : k <= m /\ g[k] \notin Seq(Expansions)}
<1> SUFFICES ASSUME T # {} PROVE FALSE
  OBVIOUS
<1>1. PICK k \in T : \A j \in T : k <= j
  <2>1. T \subseteq Nat
    OBVIOUS
  <2> HIDE DEF T
  <2> QED
    BY <2>1, LeastNumber
<1>2. k \in 0..Len(s)
  OBVIOUS
<1>3. k # 0
  <2>1. 0 \in 0..Len(s) /\ <<>> \in Seq(Expansions)
    BY <1>2
  <2>2. g[0] = <<>>
    BY <2>1, ExpandsStep
  <2> QED
    BY <2>1, <2>2
<1>4. \A j \in 0..(k - 1) : g[j] \in Seq(Expansions)
  BY <1>1
<1>5. EndsToken(s, k) => k - 3 \in 0..(k - 1)
  BY <1>2 DEF EndsToken
<1>6. s[k] \in Expansions /\ "stored" \in Expansions /\ k - 1 \in 0..(k - 1)
  BY <1>2, <1>3 DEF Expansions
<1>7. g[k] = IF EndsToken(s, k) THEN Append(g[k - 3], "stored") ELSE Append(g[k - 1], s[k])
  BY <1>2, <1>3, ExpandsStep
<1>8. g[k] \notin Seq(Expansions)
  OBVIOUS
<1> HIDE DEF T
<1>9. g[k - 1] \in Seq(Expansions)
  BY <1>4, <1>6
<1>10. EndsToken(s, k) => g[k - 3] \in Seq(Expansions)
  BY <1>4, <1>5
<1> QED
  BY <1>6, <1>7, <1>8, <1>9, <1>10

LEMMA ExpandsText ==
    ASSUME NEW s \in Seq(Pieces), NEW g, Expands(g, s, Len(s)), NEW m \in 0..Len(s)
    PROVE  g[m] \in Seq(Displayed)
<1>1. Expansions \subseteq Displayed
  BY DEF Expansions, Displayed
<1> QED
  BY <1>1, ExpandsTyped

LEMMA ExpandedText ==
    ASSUME NEW s \in Seq(Pieces)
    PROVE  Expanded(s) \in Seq(Expansions)
<1>1. Len(s) \in Nat /\ Len(s) \in 0..Len(s)
  OBVIOUS
<1>2. PICK g : Expands(g, s, Len(s)) /\ Expanded(s) = g[Len(s)]
  BY <1>1, ExpandIs
<1> QED
  BY <1>1, <1>2, ExpandsTyped

LEMMA ExpandText ==
    ASSUME NEW s \in Seq(Pieces)
    PROVE  Expanded(s) \in Seq(Displayed)
<1>1. Expansions \subseteq Displayed
  BY DEF Expansions, Displayed
<1> QED
  BY <1>1, ExpandedText

LEMMA ExpandNone == Expanded(<<>>) = <<>>
<1>1. Len(<<>>) = 0 /\ 0 \in Nat
  OBVIOUS
<1>2. PICK g : Expands(g, <<>>, Len(<<>>)) /\ Expanded(<<>>) = g[Len(<<>>)]
  BY <1>1, ExpandIs
<1> QED
  BY <1>1, <1>2 DEF Expands

LEMMA AppendJoined ==
    \A s, t \in Seq(Displayed), e \in Displayed : Append(s \o t, e) = s \o Append(t, e)
<1> SUFFICES ASSUME NEW s \in Seq(Displayed), NEW t \in Seq(Displayed), NEW e \in Displayed
             PROVE  Append(s \o t, e) = s \o Append(t, e)
  OBVIOUS
<1>1. s \o t \in Seq(Displayed) /\ <<e>> \in Seq(Displayed)
  OBVIOUS
<1>2. Append(s \o t, e) = (s \o t) \o <<e>> /\ Append(t, e) = t \o <<e>>
  BY <1>1, AppendIsConcat
<1> QED
  BY <1>1, <1>2, ConcatAssociative

Joint(s, t) == s \o t

(* g goes on behind n as h does: h[k] and g[n + k] come from the third      *)
(* before, at the ends E of tokens, or from the one before.                 *)
GoesOn(n, l, E, x, g, h) ==
    /\ h[0] = <<>> /\ g[n] \in Seq(Displayed)
    /\ \A k \in 0..l : h[k] \in Seq(Displayed)
    /\ \A k \in 1..l :
          \/ /\ k \in E /\ k > 2
             /\ h[k] = Append(h[k - 3], "stored")
             /\ g[n + k] = Append(g[n + (k - 3)], "stored")
          \/ /\ k \notin E /\ x[k] \in Displayed
             /\ h[k] = Append(h[k - 1], x[k])
             /\ g[n + k] = Append(g[n + (k - 1)], x[k])

LEMMA ExpandedBehind ==
    ASSUME NEW n \in Nat, NEW l \in Nat, NEW E, NEW x, NEW g, NEW h, GoesOn(n, l, E, x, g, h)
    PROVE  g[n + l] = Joint(g[n], h[l])
<1> DEFINE P == {k \in 0..l : g[n + k] = g[n] \o h[k]}
<1>0. 0 \in P
  <2>1. n + 0 = n /\ g[n] \o <<>> = g[n]
    BY ConcatEmptySeq DEF GoesOn
  <2>2. h[0] = <<>> /\ 0 \in 0..l
    BY DEF GoesOn
  <2> QED
    BY <2>1, <2>2
<1>1. ASSUME NEW k \in 1..l, k \in E, k - 3 \in P PROVE k \in P
  <2>1. k - 3 \in 0..l /\ k \in 0..l
    BY <1>1
  <2>2. h[k] = Append(h[k - 3], "stored") /\ g[n + k] = Append(g[n + (k - 3)], "stored")
    BY <1>1 DEF GoesOn
  <2>3. g[n + (k - 3)] = g[n] \o h[k - 3]
    BY <1>1
  <2>4. h[k - 3] \in Seq(Displayed) /\ "stored" \in Displayed
    BY <2>1 DEF Displayed, GoesOn
  <2>5. g[n] \in Seq(Displayed)
    BY DEF GoesOn
  <2>6. Append(g[n] \o h[k - 3], "stored") = g[n] \o Append(h[k - 3], "stored")
    BY <2>4, <2>5, AppendJoined, Zenon
  <2>7. g[n + k] = g[n] \o h[k]
    BY <2>2, <2>3, <2>6, Zenon
  <2> QED
    BY <2>1, <2>7
<1>2. ASSUME NEW k \in 1..l, k \notin E, k - 1 \in P PROVE k \in P
  <2>1. k - 1 \in 0..l /\ k \in 0..l
    BY <1>2
  <2>2. h[k] = Append(h[k - 1], x[k]) /\ g[n + k] = Append(g[n + (k - 1)], x[k])
    BY <1>2 DEF GoesOn
  <2>3. g[n + (k - 1)] = g[n] \o h[k - 1]
    BY <1>2
  <2>4. h[k - 1] \in Seq(Displayed) /\ x[k] \in Displayed
    BY <1>2, <2>1 DEF GoesOn
  <2>5. g[n] \in Seq(Displayed)
    BY DEF GoesOn
  <2>6. Append(g[n] \o h[k - 1], x[k]) = g[n] \o Append(h[k - 1], x[k])
    BY <2>4, <2>5, AppendJoined, Zenon
  <2>7. g[n + k] = g[n] \o h[k]
    BY <2>2, <2>3, <2>6, Zenon
  <2> QED
    BY <2>1, <2>7
<1>3. ASSUME NEW k \in 1..l, \A j \in 0..(k - 1) : j \in P PROVE k \in P
  <2>1. CASE k \in E
    <3>1. k > 2
      BY <2>1 DEF GoesOn
    <3>2. k - 3 \in 0..(k - 1)
      BY <3>1
    <3> QED
      BY <1>1, <1>3, <2>1, <3>2
  <2>2. CASE k \notin E
    <3>1. k - 1 \in 0..(k - 1)
      OBVIOUS
    <3> QED
      BY <1>2, <1>3, <2>2, <3>1
  <2> QED
    BY <2>1, <2>2
<1>4. l \in P
  <2> HIDE DEF P
  <2>1. \A k \in 0..l : k \in P
    BY <1>0, <1>3, Recursion
  <2> QED
    BY <2>1
<1> QED
  BY <1>4 DEF Joint

(* No token begins in c and ends in x.                                      *)
Apart(c, x) == \A i \in 1..Len(x) : EndsToken(c \o x, Len(c) + i) => EndsToken(x, i)

(* Texts that no token joins are expanded one by one.                       *)
LEMMA ExpandJoined ==
    ASSUME NEW c \in Seq(Pieces), NEW x \in Seq(Pieces), Apart(c, x)
    PROVE  Expanded(c \o x) = Expanded(c) \o Expanded(x)
<1>1. PICK n, l, cx : n = Len(c) /\ l = Len(x) /\ cx = c \o x
  OBVIOUS
<1>2. cx \in Seq(Pieces) /\ Len(cx) = n + l /\ n \in Nat /\ l \in Nat
  BY <1>1
<1>3. (\A i \in 1..n : cx[i] = c[i]) /\ (\A i \in 1..l : cx[n + i] = x[i] /\ x[i] \in Pieces)
  BY <1>1
<1>4. PICK g : Expands(g, cx, Len(cx)) /\ Expanded(cx) = g[Len(cx)]
  BY <1>2, ExpandIs
<1>5. PICK gc : Expands(gc, c, Len(c)) /\ Expanded(c) = gc[Len(c)]
  BY <1>1, <1>2, ExpandIs
<1>6. PICK h : Expands(h, x, Len(x)) /\ Expanded(x) = h[Len(x)]
  BY <1>1, <1>2, ExpandIs
<1>7. g[n] = Expanded(c) /\ g[n] \in Seq(Displayed)
  <2>1. n \in 0..Len(cx) /\ n \in 0..Len(c) /\ n <= Len(cx)
    BY <1>1, <1>2
  <2>2. \A i \in 1..n : cx[i] = c[i]
    BY <1>3
  <2>3. Expands(g, cx, Len(cx)) /\ Expands(gc, c, Len(c)) /\ n <= Len(c)
    BY <1>1, <1>2, <1>4, <1>5
  <2>4. g[n] = gc[n]
    <3>1. cx \in Seq(Pieces) /\ n \in 0..Len(cx) /\ n <= Len(c)
      BY <1>2, <2>1, <2>3
    <3> QED
      BY <2>2, <2>3, <3>1, ExpandsAlike
  <2> QED
    BY <1>1, <1>2, <1>4, <1>5, <2>1, <2>4, ExpandsText
<1> DEFINE E == {k \in 1..l : EndsToken(x, k)}
<1>8. \A k \in 1..l : k \in E <=> EndsToken(cx, n + k)
  <2> SUFFICES ASSUME NEW i \in 1..l, EndsToken(x, i)
               PROVE  EndsToken(cx, n + i)
    BY <1>1 DEF Apart
  <2>1. i > 2 /\ x[i - 2] = "head" /\ x[i - 1] = "id" /\ x[i] = "close"
    BY <1>1, TokenEnds
  <2>2. /\ cx[n + (i - 2)] = x[i - 2] /\ cx[n + (i - 1)] = x[i - 1] /\ cx[n + i] = x[i]
        /\ n + (i - 2) = (n + i) - 2 /\ n + (i - 1) = (n + i) - 1
    BY <1>2, <1>3, <2>1
  <2>3. n + i \in 1..Len(cx) /\ n + i > 2
    BY <1>2, <2>1
  <2> QED
    BY <1>2, <2>1, <2>2, <2>3, TokenEnds
<1>9. h[0] = <<>> /\ \A k \in 0..l : h[k] \in Seq(Displayed)
  <2>1. 0 \in 0..Len(x)
    BY <1>1, <1>2
  <2> QED
    BY <1>1, <1>6, <2>1, ExpandsStep, ExpandsText
<1>10. ASSUME NEW k \in 1..l
       PROVE  /\ h[k] = IF k \in E THEN Append(h[k - 3], "stored") ELSE Append(h[k - 1], x[k])
              /\ g[n + k] = IF k \in E THEN Append(g[n + (k - 3)], "stored")
                            ELSE Append(g[n + (k - 1)], x[k])
              /\ k \in E => k > 2
              /\ x[k] \in Displayed
  <2>1. k \in 0..l /\ k # 0 /\ n + k \in 0..Len(cx) /\ n + k # 0
    BY <1>2
  <2>2. n + (k - 3) = (n + k) - 3 /\ n + (k - 1) = (n + k) - 1
    BY <1>2
  <2>3. g[n + k] = IF EndsToken(cx, n + k) THEN Append(g[(n + k) - 3], "stored")
                   ELSE Append(g[(n + k) - 1], cx[n + k])
    BY <1>4, <2>1, ExpandsStep
  <2>4. h[k] = IF EndsToken(x, k) THEN Append(h[k - 3], "stored") ELSE Append(h[k - 1], x[k])
    BY <1>1, <1>6, <2>1, ExpandsStep
  <2>5. k \in E => k > 2
    BY DEF EndsToken
  <2>6. x[k] \in Displayed /\ cx[n + k] = x[k]
    BY <1>3 DEF Displayed
  <2>7. (k \in E <=> EndsToken(cx, n + k)) /\ (k \in E <=> EndsToken(x, k))
    BY <1>8
  <2> HIDE DEF E
  <2> QED
    BY <2>2, <2>3, <2>4, <2>5, <2>6, <2>7
<1> HIDE DEF E
<1>11. GoesOn(n, l, E, x, g, h)
  BY <1>7, <1>9, <1>10 DEF GoesOn
<1>12. n \in Nat /\ l \in Nat
  BY <1>2
<1>13. g[n + l] = Joint(g[n], h[l])
  BY <1>11, <1>12, ExpandedBehind
<1> QED
  BY <1>1, <1>2, <1>4, <1>6, <1>7, <1>13 DEF Joint

-----------------------------------------------------------------------------
LEMMA PrefixOf ==
    ASSUME NEW p \in Seq(Displayed), NEW z \in Seq(Displayed)
    PROVE  IsPrefix(p, z) <=> Len(p) <= Len(z) /\ \A i \in 1..Len(p) : p[i] = z[i]
<1>1. Len(p) \in Nat /\ Len(z) \in Nat
  OBVIOUS
<1>2. ASSUME Len(p) <= Len(z)
      PROVE  SubSeq(p, 1, Len(p)) = SubSeq(z, 1, Len(p)) <=> \A i \in 1..Len(p) : p[i] = z[i]
  <2>1. PICK a, b : a = SubSeq(p, 1, Len(p)) /\ b = SubSeq(z, 1, Len(p))
    OBVIOUS
  <2>2. a \in Seq(Displayed) /\ b \in Seq(Displayed) /\ Len(a) = Len(p) /\ Len(b) = Len(p)
    BY <1>1, <1>2, <2>1
  <2>3. \A i \in 1..Len(p) : a[i] = p[i] /\ b[i] = z[i]
    BY <1>1, <1>2, <2>1
  <2>4. a = b <=> \A i \in 1..Len(p) : a[i] = b[i]
    BY <2>2, SeqEqual
  <2> QED
    BY <2>1, <2>3, <2>4
<1> QED
  BY <1>1, <1>2 DEF IsPrefix

LEMMA PiecesAreDisplayed ==
    ASSUME NEW s \in Seq(Pieces)
    PROVE  s \in Seq(Displayed)
BY SeqMonotonic DEF Displayed

LEMMA PartOfText ==
    ASSUME NEW s \in Seq(Pieces), NEW m \in Nat, NEW n \in Nat, 0 < m, m <= n + 1, n <= Len(s)
    PROVE  /\ SubSeq(s, m, n) \in Seq(Pieces)
           /\ Len(SubSeq(s, m, n)) = (n - m) + 1
           /\ \A i \in 1..((n - m) + 1) : SubSeq(s, m, n)[i] = s[(m + i) - 1]
<1>1. \A i \in m..n : s[i] \in Pieces
  OBVIOUS
<1> QED
  BY <1>1, SubSeqProperties

(* What a text ends with.                                                   *)
LEMMA UnfinishedIs ==
    ASSUME NEW s \in Seq(Pieces)
    PROVE  /\ Unfinished(s) = 2 <=> Len(s) > 1 /\ s[Len(s) - 1] = "head" /\ s[Len(s)] = "id"
           /\ Unfinished(s) = 1 <=> Len(s) > 0 /\ s[Len(s)] = "head"
           /\ Unfinished(s) \in 0..2
           /\ Unfinished(s) <= Len(s)
<1> DEFINE n == Len(s)
           z == Reverse(s)
<1>1. n \in Nat
  OBVIOUS
<1>2. z = [i \in 1..n |-> s[(n - i) + 1]]
  BY DEF Reverse
<1>3. z \in Seq(Pieces) /\ Len(z) = n
  <2>1. \A i \in 1..n : s[(n - i) + 1] \in Pieces
    <3> SUFFICES ASSUME NEW i \in 1..n PROVE s[(n - i) + 1] \in Pieces
      OBVIOUS
    <3>1. (n - i) + 1 \in 1..n
      BY <1>1
    <3> QED
      BY <3>1
  <2> HIDE DEF z, n
  <2>2. z \in [1..n -> Pieces]
    BY <1>2, <2>1
  <2> QED
    BY <1>1, <2>2, IsASeq, LenProperties
<1>4. (n > 0 => z[1] = s[n]) /\ (n > 1 => z[2] = s[n - 1])
  <2> HIDE DEF z, n
  <2>1. n > 0 => 1 \in 1..n /\ (n - 1) + 1 = n
    BY <1>1
  <2>2. n > 1 => 2 \in 1..n /\ (n - 2) + 1 = n - 1
    BY <1>1
  <2> QED
    BY <1>2, <2>1, <2>2
<1>5. IsSuffix(<<"head">>, s) <=> n > 0 /\ s[n] = "head"
  <2>1. PICK p : p = <<"head">>
    OBVIOUS
  <2>2. p \in Seq(Pieces) /\ Len(p) = 1 /\ p[1] = "head" /\ 1 \in 1..1
    BY <2>1 DEF Pieces
  <2>3. Reverse(p) = p
    BY <2>1 DEF Reverse
  <2>4. IsPrefix(p, z) <=> n > 0 /\ z[1] = "head"
    <3> HIDE DEF z, n
    <3>1. IsPrefix(p, z) <=> Len(p) <= Len(z) /\ \A i \in 1..Len(p) : p[i] = z[i]
      BY <1>3, <2>2, PiecesAreDisplayed, PrefixOf
    <3> QED
      BY <1>1, <1>3, <2>2, <3>1
  <2> QED
    BY <1>1, <1>4, <2>1, <2>3, <2>4 DEF IsSuffix
<1>6. IsSuffix(<<"head", "id">>, s) <=> n > 1 /\ s[n - 1] = "head" /\ s[n] = "id"
  <2>1. PICK p, q : p = <<"id", "head">> /\ q = <<"head", "id">>
    OBVIOUS
  <2>2. p \in Seq(Pieces) /\ Len(p) = 2 /\ p[1] = "id" /\ p[2] = "head"
    BY <2>1 DEF Pieces
  <2>3. Reverse(q) = p
    <3>1. q \in Seq(Pieces) /\ Len(q) = 2 /\ q[1] = "head" /\ q[2] = "id"
      BY <2>1 DEF Pieces
    <3>2. \A i \in 1..2 : p[i] = q[(2 - i) + 1]
      <4> SUFFICES ASSUME NEW i \in 1..2 PROVE p[i] = q[(2 - i) + 1]
        OBVIOUS
      <4>1. (i = 1 /\ (2 - i) + 1 = 2) \/ (i = 2 /\ (2 - i) + 1 = 1)
        OBVIOUS
      <4> QED
        BY <2>2, <3>1, <4>1
    <3>3. p = [i \in 1..2 |-> p[i]]
      BY <2>2
    <3> QED
      BY <3>1, <3>2, <3>3 DEF Reverse
  <2>4. IsPrefix(p, z) <=> n > 1 /\ z[1] = "id" /\ z[2] = "head"
    <3> HIDE DEF z, n
    <3>1. IsPrefix(p, z) <=> Len(p) <= Len(z) /\ \A i \in 1..Len(p) : p[i] = z[i]
      BY <1>3, <2>2, PiecesAreDisplayed, PrefixOf
    <3>2. \A i : i \in 1..2 <=> i = 1 \/ i = 2
      OBVIOUS
    <3> QED
      BY <1>1, <1>3, <2>2, <3>1, <3>2
  <2> QED
    BY <1>1, <1>4, <2>1, <2>3, <2>4 DEF IsSuffix
<1> HIDE DEF z
<1> QED
  BY <1>1, <1>5, <1>6 DEF Unfinished

LEMMA UnfinishedBehind ==
    ASSUME NEW c \in Seq(Pieces), NEW y \in Seq(Pieces), Len(y) > 0,
           Len(y) = 1 /\ Len(c) > 0 => c[Len(c)] # "head"
    PROVE  Unfinished(c \o y) = Unfinished(y)
<1>1. PICK n, l, cy : n = Len(c) /\ l = Len(y) /\ cy = c \o y
  OBVIOUS
<1>2. n \in Nat /\ l \in Nat /\ l > 0 /\ cy \in Seq(Pieces) /\ Len(cy) = n + l
  BY <1>1
<1>3. cy[n + l] = y[l] /\ (l > 1 => cy[(n + l) - 1] = y[l - 1])
  <2>1. n + l \in 1..Len(cy) /\ (l > 1 => (n + l) - 1 \in 1..Len(cy))
    BY <1>2
  <2>2. (n + l) - n = l /\ ((n + l) - 1) - n = l - 1
    BY <1>2
  <2>3. \A i \in 1..l : cy[n + i] = y[i]
    BY <1>1
  <2>4. l \in 1..l /\ (l > 1 => l - 1 \in 1..l /\ n + (l - 1) = (n + l) - 1)
    BY <1>2
  <2> QED
    BY <2>3, <2>4
<1>4. l = 1 /\ n > 0 => cy[(n + l) - 1] # "head"
  <2> SUFFICES ASSUME l = 1, n > 0 PROVE cy[n] # "head"
    BY <1>2
  <2>1. \A i \in 1..n : cy[i] = c[i]
    BY <1>1
  <2> QED
    BY <1>1, <1>2, <2>1
<1>5. Unfinished(cy) = 2 <=> Unfinished(y) = 2
  <2>1. Unfinished(cy) = 2 <=> n + l > 1 /\ cy[(n + l) - 1] = "head" /\ cy[n + l] = "id"
    BY <1>2, UnfinishedIs
  <2>2. Unfinished(y) = 2 <=> l > 1 /\ y[l - 1] = "head" /\ y[l] = "id"
    BY <1>1, UnfinishedIs
  <2> QED
    BY <1>2, <1>3, <1>4, <2>1, <2>2
<1>6. Unfinished(cy) = 1 <=> Unfinished(y) = 1
  <2>1. Unfinished(cy) = 1 <=> n + l > 0 /\ cy[n + l] = "head"
    BY <1>2, UnfinishedIs
  <2>2. Unfinished(y) = 1 <=> l > 0 /\ y[l] = "head"
    BY <1>1, UnfinishedIs
  <2> QED
    BY <1>2, <1>3, <2>1, <2>2
<1>7. Unfinished(cy) \in 0..2 /\ Unfinished(y) \in 0..2
  BY <1>2, UnfinishedIs
<1> QED
  BY <1>1, <1>5, <1>6, <1>7

LEMMA TextsApart ==
    ASSUME NEW c \in Seq(Pieces), NEW x \in Seq(Pieces),
           Len(x) > 0 => x[1] = "head" \/ Unfinished(c) = 0
    PROVE  Apart(c, x)
<1>1. PICK n, l, cx : n = Len(c) /\ l = Len(x) /\ cx = c \o x
  OBVIOUS
<1>2. n \in Nat /\ l \in Nat /\ cx \in Seq(Pieces) /\ Len(cx) = n + l
  BY <1>1
<1>3. (\A i \in 1..n : cx[i] = c[i]) /\ (\A i \in 1..l : cx[n + i] = x[i])
  BY <1>1
<1> SUFFICES ASSUME NEW i \in 1..l, EndsToken(cx, n + i) PROVE EndsToken(x, i)
  BY <1>1 DEF Apart
<1>4. n + i \in 1..Len(cx) /\ i \in Nat
  BY <1>2
<1>5. n + i > 2 /\ cx[(n + i) - 2] = "head" /\ cx[(n + i) - 1] = "id" /\ cx[n + i] = "close"
  BY <1>2, <1>4, TokenEnds
<1>6. CASE i > 2
  <2>1. n + (i - 2) = (n + i) - 2 /\ n + (i - 1) = (n + i) - 1 /\ i - 2 \in 1..l /\ i - 1 \in 1..l
    BY <1>2, <1>6
  <2>2. x[i - 2] = "head" /\ x[i - 1] = "id" /\ x[i] = "close"
    BY <1>3, <1>5, <2>1
  <2> QED
    BY <1>1, <1>6, <2>2, TokenEnds
<1>7. CASE i = 1
  <2>1. x[1] = "close"
    BY <1>3, <1>5, <1>7
  <2>2. Unfinished(c) = 0
    BY <1>1, <1>2, <2>1
  <2>3. (n + 1) - 2 = n - 1 /\ (n + 1) - 1 = n /\ n > 1
    BY <1>2, <1>5, <1>7
  <2>4. n \in 1..n /\ n - 1 \in 1..n
    BY <1>2, <2>3
  <2>5. c[n - 1] = "head" /\ c[n] = "id"
    BY <1>3, <1>5, <1>7, <2>3, <2>4
  <2>6. Unfinished(c) = 2 <=> n > 1 /\ c[n - 1] = "head" /\ c[n] = "id"
    BY <1>1, UnfinishedIs
  <2> QED
    BY <2>2, <2>3, <2>5, <2>6
<1>8. CASE i = 2
  <2>1. x[1] = "id"
    <3>1. (n + 2) - 1 = n + 1 /\ 1 \in 1..l
      BY <1>2, <1>8
    <3> QED
      BY <1>3, <1>5, <1>8, <3>1
  <2>2. Unfinished(c) = 0
    BY <1>1, <1>2, <1>8, <2>1
  <2>3. (n + 2) - 2 = n /\ n > 0
    BY <1>2, <1>5, <1>8
  <2>4. n \in 1..n
    BY <1>2, <2>3
  <2>5. c[n] = "head"
    BY <1>3, <1>5, <1>8, <2>3, <2>4
  <2>6. Unfinished(c) = 1 <=> n > 0 /\ c[n] = "head"
    BY <1>1, UnfinishedIs
  <2> QED
    BY <2>2, <2>3, <2>5, <2>6
<1> QED
  BY <1>2, <1>6, <1>7, <1>8

-----------------------------------------------------------------------------
(* A text is what may be shown of it and what is held.                      *)
Whole(s) == SubSeq(s, 1, Len(s) - Unfinished(s))
Held(s) == SubSeq(s, Len(s) - Unfinished(s) + 1, Len(s))

LEMMA ChunkIs ==
    ASSUME NEW s \in Seq(Pieces)
    PROVE  /\ Chunk(s, FALSE) = [shown |-> Expanded(Whole(s)), held |-> Held(s)]
           /\ Chunk(s, TRUE) = [shown |-> Expanded(s), held |-> <<>>]
<1>1. PICK n, u : n = Len(s) /\ u = Unfinished(s)
  OBVIOUS
<1>2. n \in Nat /\ u \in 0..2
  BY <1>1, UnfinishedIs
<1>3. SubSeq(s, 1, n - 0) = s /\ SubSeq(s, (n - 0) + 1, n) = <<>>
  <2>1. n - 0 = n /\ (n - 0) + 1 = n + 1 /\ n + 1 > n
    BY <1>2
  <2> QED
    BY <1>1, <2>1, SubSeqFull, SubSeqEmpty
<1> QED
  BY <1>1, <1>2, <1>3 DEF Chunk, Whole, Held

LEMMA WholeAndHeld ==
    ASSUME NEW s \in Seq(Pieces)
    PROVE  /\ Whole(s) \in Seq(Pieces) /\ Held(s) \in Seq(Pieces)
           /\ Whole(s) \o Held(s) = s
           /\ Len(Held(s)) = Unfinished(s)
           /\ Len(Whole(s)) = Len(s) - Unfinished(s)
           /\ Held(s) \in {<<>>, <<"head">>, <<"head", "id">>}
<1>1. PICK n, u : n = Len(s) /\ u = Unfinished(s)
  OBVIOUS
<1>2. n \in Nat /\ u \in 0..2 /\ u <= n
  BY <1>1, UnfinishedIs
<1>3. PICK c, h : c = SubSeq(s, 1, n - u) /\ h = SubSeq(s, (n - u) + 1, n)
  OBVIOUS
<1>4. /\ c \in Seq(Pieces) /\ Len(c) = n - u
      /\ h \in Seq(Pieces) /\ Len(h) = u
      /\ \A i \in 1..u : h[i] = s[(n - u) + i]
  <2>1. PICK k, m : k = n - u /\ m = k + 1
    OBVIOUS
  <2>2. /\ k \in Nat /\ m \in Nat /\ 1 \in Nat /\ 0 < 1 /\ 1 <= k + 1 /\ k <= Len(s)
        /\ 0 < m /\ m <= Len(s) + 1 /\ Len(s) \in Nat /\ Len(s) <= Len(s)
    BY <1>1, <1>2, <2>1
  <2>3. SubSeq(s, 1, k) \in Seq(Pieces) /\ Len(SubSeq(s, 1, k)) = (k - 1) + 1
    BY <2>2, PartOfText
  <2>4. /\ SubSeq(s, m, Len(s)) \in Seq(Pieces) /\ Len(SubSeq(s, m, Len(s))) = (Len(s) - m) + 1
        /\ \A i \in 1..((Len(s) - m) + 1) : SubSeq(s, m, Len(s))[i] = s[(m + i) - 1]
    BY <2>2, PartOfText
  <2>5. c = SubSeq(s, 1, k) /\ h = SubSeq(s, m, Len(s))
    BY <1>1, <1>3, <2>1
  <2>6. (k - 1) + 1 = n - u /\ (Len(s) - m) + 1 = u /\ \A i \in 1..u : (m + i) - 1 = (n - u) + i
    BY <1>1, <1>2, <2>1
  <2> QED
    BY <2>3, <2>4, <2>5, <2>6
<1>5. c \o h = s
  <2>1. 1 \in 1..Len(s) + 1 /\ n - u \in 1 - 1..Len(s) /\ Len(s) \in (n - u)..Len(s)
    BY <1>1, <1>2
  <2>2. SubSeq(s, 1, n - u) \o SubSeq(s, (n - u) + 1, Len(s)) = SubSeq(s, 1, Len(s))
    BY <2>1, ConcatAdjacentSubSeq
  <2> QED
    BY <1>1, <1>3, <2>2, SubSeqFull
<1>6. h \in {<<>>, <<"head">>, <<"head", "id">>}
  <2>1. CASE u = 0
    BY <1>4, <2>1
  <2>2. CASE u = 1
    <3>1. n > 0 /\ s[n] = "head" /\ (n - 1) + 1 = n
      <4>1. u = 1 <=> n > 0 /\ s[n] = "head"
        BY <1>1, UnfinishedIs
      <4> QED
        BY <1>2, <2>2, <4>1
    <3>2. h[1] = "head" /\ Len(h) = 1
      BY <1>4, <2>2, <3>1
    <3>3. h = <<"head">>
      BY <1>4, <3>2
    <3> QED
      BY <3>3
  <2>3. CASE u = 2
    <3>1. n > 1 /\ s[n - 1] = "head" /\ s[n] = "id" /\ (n - 2) + 1 = n - 1 /\ (n - 2) + 2 = n
      <4>1. u = 2 <=> n > 1 /\ s[n - 1] = "head" /\ s[n] = "id"
        BY <1>1, UnfinishedIs
      <4> QED
        BY <1>2, <2>3, <4>1
    <3>2. h[1] = "head" /\ h[2] = "id" /\ Len(h) = 2
      BY <1>4, <2>3, <3>1
    <3>3. h = <<"head", "id">>
      BY <1>4, <3>2
    <3> QED
      BY <3>3
  <2> QED
    BY <1>2, <2>1, <2>2, <2>3
<1> QED
  BY <1>1, <1>3, <1>4, <1>5, <1>6 DEF Whole, Held

LEMMA SameSplit ==
    \A w, v, a, b \in Seq(Pieces) : Joint(w, v) = Joint(a, b) /\ Len(v) = Len(b) => w = a /\ v = b
<1> SUFFICES ASSUME NEW w \in Seq(Pieces), NEW v \in Seq(Pieces),
                    NEW a \in Seq(Pieces), NEW b \in Seq(Pieces),
                    w \o v = a \o b, Len(v) = Len(b)
             PROVE  w = a /\ v = b
  BY DEF Joint
<1>1. Len(w) \in Nat /\ Len(v) \in Nat /\ Len(a) \in Nat /\ Len(b) \in Nat
  OBVIOUS
<1>2. PICK z, n : z = w \o v /\ n = Len(w)
  OBVIOUS
<1>3. Len(w \o v) = Len(w) + Len(v)
  BY ConcatProperties
<1>4. Len(a \o b) = Len(a) + Len(b)
  BY ConcatProperties
<1>5. Len(w) = Len(a)
  BY <1>1, <1>3, <1>4
<1>6. (\A i \in 1..n : z[i] = w[i]) /\ \A i \in 1..Len(v) : z[n + i] = v[i]
  BY <1>2
<1>7. (\A i \in 1..n : z[i] = a[i]) /\ \A i \in 1..Len(v) : z[n + i] = b[i]
  <2>1. z = a \o b /\ n = Len(a)
    BY <1>2, <1>5
  <2> QED
    BY <2>1
<1>8. (\A i \in 1..Len(w) : w[i] = a[i]) /\ \A i \in 1..Len(v) : v[i] = b[i]
  BY <1>2, <1>6, <1>7
<1> QED
  BY <1>5, <1>8, SeqEqual

(* What may be shown of a text that goes on is what was shown, and what may *)
(* be shown of the held part and the rest.                                  *)
LEMMA ChunkGoesOn ==
    ASSUME NEW s \in Seq(Pieces), NEW t \in Seq(Pieces), t # <<>>
    PROVE  /\ Held(s) \o t \in Seq(Pieces)
           /\ Held(Held(s) \o t) = Held(s \o t)
           /\ Expanded(Whole(s \o t)) = Expanded(Whole(s)) \o Expanded(Whole(Held(s) \o t))
<1>1. PICK c, h, y, st : c = Whole(s) /\ h = Held(s) /\ y = h \o t /\ st = s \o t
  OBVIOUS
<1>2. /\ c \in Seq(Pieces) /\ h \in Seq(Pieces) /\ s = c \o h /\ Len(h) = Unfinished(s)
      /\ h \in {<<>>, <<"head">>, <<"head", "id">>}
  BY <1>1, WholeAndHeld
<1>3. y \in Seq(Pieces) /\ st \in Seq(Pieces) /\ st = c \o y
  <2>1. y \in Seq(Pieces) /\ st \in Seq(Pieces)
    BY <1>1, <1>2
  <2>2. (c \o h) \o t = c \o (h \o t)
    BY <1>2, ConcatAssociative
  <2> QED
    BY <1>1, <1>2, <2>1, <2>2
<1>4. Len(y) = Len(h) + Len(t) /\ Len(t) > 0 /\ Len(h) \in Nat /\ Len(t) \in Nat /\ Len(c) \in Nat
  BY <1>1, <1>2
<1>5. h = <<>> => c = s /\ Unfinished(c) = 0 /\ Len(h) = 0
  BY <1>2
<1>6. h # <<>> => Len(h) > 0 /\ y[1] = "head"
  <2> SUFFICES ASSUME h # <<>> PROVE Len(h) > 0 /\ y[1] = "head"
    OBVIOUS
  <2>1. Len(h) > 0 /\ h[1] = "head"
    BY <1>2
  <2>2. y[1] = h[1]
    BY <1>1, <1>2, <2>1
  <2> QED
    BY <2>1, <2>2
<1>7. PICK u : u = Unfinished(y)
  OBVIOUS
<1>8. u \in Nat /\ u <= Len(y) /\ Len(y) \in Nat
  <2>1. Unfinished(y) \in 0..2 /\ Unfinished(y) <= Len(y)
    BY <1>3, UnfinishedIs
  <2> QED
    BY <1>4, <1>7, <2>1
<1>9. Unfinished(st) = u
  <2>1. Len(y) = 1 /\ Len(c) > 0 => c[Len(c)] # "head"
    <3> SUFFICES ASSUME Len(y) = 1, Len(c) > 0 PROVE c[Len(c)] # "head"
      OBVIOUS
    <3>1. ~(Len(h) > 0)
      <4>1. \A a, b, d \in Nat : a = b + d /\ d > 0 /\ a = 1 => ~(b > 0)
        OBVIOUS
      <4>2. Len(y) \in Nat
        BY <1>3
      <4> QED
        BY <1>4, <4>1, <4>2, Zenon
    <3>2. h = <<>>
      BY <1>6, <3>1
    <3>3. Unfinished(c) = 1 <=> Len(c) > 0 /\ c[Len(c)] = "head"
      BY <1>2, UnfinishedIs
    <3> QED
      BY <1>5, <3>2, <3>3
  <2>2. Len(y) > 0
    BY <1>4
  <2> QED
    BY <1>2, <1>3, <1>7, <2>1, <2>2, UnfinishedBehind
<1>10. PICK x : x = Whole(y)
  OBVIOUS
<1>11. x \in Seq(Pieces) /\ Len(x) = Len(y) - u /\ y = x \o Held(y) /\ Held(y) \in Seq(Pieces)
       /\ Len(Held(y)) = u
  BY <1>3, <1>7, <1>10, WholeAndHeld
<1>12. Whole(st) = c \o x /\ Held(st) = Held(y)
  <2>1. PICK w, v : w = Whole(st) /\ v = Held(st)
    OBVIOUS
  <2>2. w \in Seq(Pieces) /\ v \in Seq(Pieces) /\ w \o v = st
        /\ Len(w) = Len(st) - u /\ Len(v) = u
    BY <1>3, <1>9, <2>1, WholeAndHeld
  <2>3. PICK cx, k : cx = c \o x /\ k = Held(y)
    OBVIOUS
  <2>4. cx \in Seq(Pieces) /\ k \in Seq(Pieces) /\ Len(k) = u
    BY <1>2, <1>11, <2>3
  <2>5. cx \o k = st
    <3>1. x \in Seq(Pieces) /\ y = x \o k
      BY <1>11, <2>3
    <3>2. c \in Seq(Pieces) /\ x \in Seq(Pieces) /\ k \in Seq(Pieces)
      BY <1>2, <2>4, <3>1
    <3>3. (c \o x) \o k = c \o (x \o k)
      BY <3>2, ConcatAssociative
    <3> QED
      BY <1>3, <2>3, <3>1, <3>3
  <2>6. w = cx /\ v = k
    <3>1. Joint(w, v) = Joint(cx, k)
      BY <2>2, <2>5 DEF Joint
    <3>2. w \in Seq(Pieces) /\ v \in Seq(Pieces) /\ Len(v) = Len(k)
      BY <2>2, <2>4
    <3>3. cx \in Seq(Pieces) /\ k \in Seq(Pieces)
      BY <2>4
    <3> QED
      BY <3>1, <3>2, <3>3, SameSplit
  <2> QED
    BY <2>1, <2>3, <2>6
<1>13. Apart(c, x)
  <2>1. Len(x) > 0 => x[1] = "head" \/ Unfinished(c) = 0
    <3> SUFFICES ASSUME Len(x) > 0, h # <<>> PROVE x[1] = "head"
      BY <1>5
    <3>1. y[1] = x[1]
      <4>1. \A i \in 1..Len(x) : (x \o Held(y))[i] = x[i]
        BY <1>11
      <4> QED
        BY <1>11, <4>1
    <3> QED
      BY <1>6, <3>1
  <2> QED
    BY <1>2, <1>11, <2>1, TextsApart
<1>14. Expanded(c \o x) = Expanded(c) \o Expanded(x)
  BY <1>2, <1>11, <1>13, ExpandJoined
<1> QED
  BY <1>1, <1>3, <1>10, <1>12, <1>14

(* When a text is over, the held part is shown as the rest of it.           *)
LEMMA ChunkEnds ==
    ASSUME NEW s \in Seq(Pieces)
    PROVE  Expanded(s) = Expanded(Whole(s)) \o Expanded(Held(s))
<1>1. PICK c, h : c = Whole(s) /\ h = Held(s)
  OBVIOUS
<1>2. /\ c \in Seq(Pieces) /\ h \in Seq(Pieces) /\ s = c \o h
      /\ h \in {<<>>, <<"head">>, <<"head", "id">>}
  BY <1>1, WholeAndHeld
<1>3. Len(h) > 0 => h[1] = "head"
  BY <1>2
<1>4. Expanded(c \o h) = Expanded(c) \o Expanded(h)
  BY <1>2, <1>3, TextsApart, ExpandJoined
<1> QED
  BY <1>1, <1>2, <1>4

-----------------------------------------------------------------------------
(* The text of a sequence of texts, by the first i of them.                 *)
Flattens(g, texts, n) ==
    g = [i \in 1..n |-> IF i = 1 THEN texts[i] ELSE g[i - 1] \o texts[i]]

LEMMA FlattensStep ==
    ASSUME NEW g, NEW texts, NEW n, Flattens(g, texts, n), NEW i \in 1..n
    PROVE  g[i] = IF i = 1 THEN texts[i] ELSE Joint(g[i - 1], texts[i])
BY DEF Flattens, Joint

LEMMA FlattensExists ==
    ASSUME NEW texts, NEW n \in Nat
    PROVE  \E g : Flattens(g, texts, n)
<1> DEFINE P == {m \in 0..n : \E g : Flattens(g, texts, m)}
<1>1. 0 \in P
  <2>1. Flattens([i \in 1..0 |-> 0], texts, 0)
    BY DEF Flattens
  <2> QED
    BY <2>1
<1>2. ASSUME NEW k \in 1..n, k - 1 \in P PROVE k \in P
  <2>1. PICK h : Flattens(h, texts, k - 1)
    BY <1>2
  <2> DEFINE new == IF k = 1 THEN texts[k] ELSE h[k - 1] \o texts[k]
             g == [i \in 1..k |-> IF i = k THEN new ELSE h[i]]
  <2>2. \A i \in 1..k : g[i] = IF i = 1 THEN texts[i] ELSE g[i - 1] \o texts[i]
    <3> SUFFICES ASSUME NEW i \in 1..k
                 PROVE  g[i] = IF i = 1 THEN texts[i] ELSE g[i - 1] \o texts[i]
      OBVIOUS
    <3>1. CASE i = k
      <4>1. k # 1 => k - 1 \in 1..k /\ k - 1 # k
        OBVIOUS
      <4>2. k # 1 => g[k - 1] = h[k - 1]
        BY <4>1
      <4> QED
        BY <3>1, <4>2
    <3>2. CASE i # k
      <4>1. i \in 1..(k - 1) /\ g[i] = h[i]
        BY <3>2
      <4>2. h[i] = IF i = 1 THEN texts[i] ELSE h[i - 1] \o texts[i]
        BY <2>1, <4>1 DEF Flattens
      <4>3. i # 1 => g[i - 1] = h[i - 1]
        BY <4>1
      <4> QED
        BY <4>1, <4>2, <4>3
    <3> QED
      BY <3>1, <3>2
  <2>3. Flattens(g, texts, k)
    BY <2>2 DEF Flattens
  <2> QED
    BY <2>3
<1>3. ASSUME NEW k \in 1..n, \A j \in 0..(k - 1) : j \in P PROVE k \in P
  <2>1. k - 1 \in 0..(k - 1)
    OBVIOUS
  <2> QED
    BY <1>2, <1>3, <2>1
<1> HIDE DEF P
<1>4. n \in P
  <2>1. \A k \in 0..n : k \in P
    BY <1>1, <1>3, Recursion
  <2> QED
    BY <2>1
<1> QED
  BY <1>4 DEF P

LEMMA FlattenIs ==
    ASSUME NEW texts, Len(texts) \in Nat \ {0}
    PROVE  \E g : Flattens(g, texts, Len(texts)) /\ FlattenSeq(texts) = g[Len(texts)]
<1>1. PICK g : Flattens(g, texts, Len(texts))
  BY FlattensExists
<1> QED
  BY <1>1 DEF FlattenSeq, Flattens

LEMMA FlattensTexts ==
    ASSUME NEW S, NEW texts \in Seq(Seq(S)), NEW g, Flattens(g, texts, Len(texts)),
           NEW m \in 1..Len(texts)
    PROVE  g[m] \in Seq(S)
<1> DEFINE P == {k \in 0..m : k > 0 => g[k] \in Seq(S)}
<1>1. 0 \in P /\ m \in Nat
  OBVIOUS
<1>2. ASSUME NEW k \in 1..m, k - 1 \in P PROVE k \in P
  <2>1. k \in 1..Len(texts) /\ texts[k] \in Seq(S)
    OBVIOUS
  <2>2. g[k] = IF k = 1 THEN texts[k] ELSE Joint(g[k - 1], texts[k])
    BY <2>1, FlattensStep
  <2>3. k # 1 => g[k - 1] \in Seq(S)
    BY <1>2
  <2>4. k # 1 => Joint(g[k - 1], texts[k]) \in Seq(S)
    BY <2>1, <2>3, ConcatProperties DEF Joint
  <2> QED
    BY <2>1, <2>2, <2>4
<1>3. ASSUME NEW k \in 1..m, \A j \in 0..(k - 1) : j \in P PROVE k \in P
  <2>1. k - 1 \in 0..(k - 1)
    OBVIOUS
  <2> QED
    BY <1>2, <1>3, <2>1
<1>4. m \in P
  <2> HIDE DEF P
  <2>1. \A k \in 0..m : k \in P
    BY <1>1, <1>3, Recursion
  <2> QED
    BY <2>1
<1> QED
  BY <1>4

LEMMA FlattenText ==
    ASSUME NEW S, NEW texts \in Seq(Seq(S))
    PROVE  FlattenSeq(texts) \in Seq(S)
<1>1. CASE Len(texts) = 0
  <2>1. texts = <<>>
    BY <1>1
  <2> QED
    BY <1>1, <2>1 DEF FlattenSeq
<1>2. CASE Len(texts) # 0
  <2>1. Len(texts) \in Nat \ {0} /\ Len(texts) \in 1..Len(texts)
    BY <1>2
  <2>2. PICK g : Flattens(g, texts, Len(texts)) /\ FlattenSeq(texts) = g[Len(texts)]
    BY <2>1, FlattenIs
  <2> QED
    BY <2>1, <2>2, FlattensTexts
<1> QED
  BY <1>1, <1>2

(* One more text is joined to those before it.                              *)
LEMMA FlattenMore ==
    ASSUME NEW S, NEW texts \in Seq(Seq(S)), NEW more \in Seq(S)
    PROVE  FlattenSeq(Append(texts, more)) = Joint(FlattenSeq(texts), more)
<1>1. PICK n, all : n = Len(texts) /\ all = Append(texts, more)
  OBVIOUS
<1>2. /\ n \in Nat /\ all \in Seq(Seq(S)) /\ Len(all) = n + 1
      /\ all[n + 1] = more /\ \A i \in 1..n : all[i] = texts[i]
  BY <1>1
<1>3. PICK g : Flattens(g, all, n + 1) /\ FlattenSeq(all) = g[n + 1]
  <2>1. Len(all) \in Nat \ {0}
    BY <1>2
  <2> QED
    BY <1>2, <2>1, FlattenIs
<1>4. CASE n = 0
  <2>1. texts = <<>>
    <3>1. Len(texts) = 0
      BY <1>1, <1>4
    <3> QED
      BY <3>1, EmptySeq, Zenon
  <2>4. FlattenSeq(texts) = <<>>
    BY <2>1 DEF FlattenSeq
  <2>2. g[1] = all[1]
    <3>1. 1 \in 1..n + 1
      BY <1>4
    <3> QED
      BY <1>3, <3>1, FlattensStep
  <2>3. <<>> \o more = more
    BY ConcatEmptySeq
  <2> QED
    BY <1>1, <1>2, <1>3, <1>4, <2>4, <2>2, <2>3 DEF Joint
<1>5. CASE n # 0
  <2>1. PICK h : Flattens(h, texts, n) /\ FlattenSeq(texts) = h[n]
    <3>1. Len(texts) \in Nat \ {0}
      BY <1>1, <1>2, <1>5
    <3> QED
      BY <1>1, <3>1, FlattenIs
  <2> DEFINE P == {k \in 0..n : k > 0 => g[k] = h[k]}
  <2>2. 0 \in P
    BY <1>2
  <2>3. ASSUME NEW k \in 1..n, k - 1 \in P PROVE k \in P
    <3>1. k \in 1..n + 1 /\ k \in 0..n
      BY <1>2
    <3>2. g[k] = IF k = 1 THEN all[k] ELSE Joint(g[k - 1], all[k])
      BY <1>3, <3>1, FlattensStep
    <3>3. h[k] = IF k = 1 THEN texts[k] ELSE Joint(h[k - 1], texts[k])
      BY <2>1, FlattensStep
    <3>4. k # 1 => g[k - 1] = h[k - 1]
      BY <2>3
    <3>5. all[k] = texts[k]
      BY <1>2
    <3>6. g[k] = h[k]
      BY <3>2, <3>3, <3>4, <3>5
    <3> QED
      BY <3>1, <3>6
  <2>4. ASSUME NEW k \in 1..n, \A j \in 0..(k - 1) : j \in P PROVE k \in P
    <3>1. k - 1 \in 0..(k - 1)
      BY <1>2
    <3> QED
      BY <2>3, <2>4, <3>1
  <2>5. n \in P
    <3> HIDE DEF P
    <3>1. \A k \in 0..n : k \in P
      BY <1>2, <2>2, <2>4, Recursion
    <3> QED
      BY <1>2, <3>1
  <2>6. g[n] = h[n]
    BY <1>2, <1>5, <2>5
  <2>7. g[n + 1] = Joint(g[n], all[n + 1])
    <3>1. n + 1 \in 1..n + 1 /\ n + 1 # 1 /\ (n + 1) - 1 = n
      BY <1>2, <1>5
    <3> QED
      BY <1>3, <3>1, FlattensStep
  <2> QED
    BY <1>1, <1>2, <1>3, <2>1, <2>6, <2>7
<1> QED
  BY <1>4, <1>5

(* Induction over sequences, from the one over numbers.                     *)
LEMMA SequencesOf ==
    ASSUME NEW S, NEW P, <<>> \in P,
           \A s \in Seq(S), e \in S : s \in P => Append(s, e) \in P
    PROVE  Seq(S) \subseteq P
<1> SUFFICES ASSUME NEW s \in Seq(S) PROVE s \in P
  OBVIOUS
<1> DEFINE Q == {k \in 0..Len(s) : \A t \in Seq(S) : Len(t) = k => t \in P}
<1>1. Len(s) \in Nat
  OBVIOUS
<1>2. 0 \in Q
  <2>1. \A t \in Seq(S) : Len(t) = 0 => t = <<>>
    BY EmptySeq
  <2> QED
    BY <1>1, <2>1
<1>3. ASSUME NEW k \in 1..Len(s), \A j \in 0..(k - 1) : j \in Q PROVE k \in Q
  <2> SUFFICES ASSUME NEW t \in Seq(S), Len(t) = k PROVE t \in P
    BY <1>1
  <2>1. t # <<>>
    BY <1>1
  <2>2. PICK u \in Seq(S), e \in S : t = Append(u, e)
    BY <2>1, SequenceEmptyOrAppend
  <2>3. Len(u) = k - 1 /\ k - 1 \in 0..(k - 1)
    BY <1>1, <2>2
  <2>4. k - 1 \in Q
    BY <1>3, <2>3
  <2>5. u \in P
    BY <2>3, <2>4
  <2> QED
    BY <2>2, <2>5
<1>4. Len(s) \in Q
  <2> HIDE DEF Q
  <2>1. \A k \in 0..Len(s) : k \in Q
    BY <1>1, <1>2, <1>3, Recursion
  <2> QED
    BY <1>1, <2>1
<1> QED
  BY <1>4

(* Sequences of the parts they should have.                                 *)
LEMMA AppendIs ==
    ASSUME NEW S, NEW s \in Seq(S), NEW e \in S, NEW all \in Seq(S), Len(all) = Len(s) + 1,
           \A i \in 1..Len(s) : all[i] = s[i], all[Len(s) + 1] = e
    PROVE  all = Append(s, e)
<1>1. Len(s) \in Nat
  OBVIOUS
<1>2. /\ Append(s, e) \in Seq(S) /\ Len(Append(s, e)) = Len(s) + 1
      /\ \A i \in 1..Len(s) : Append(s, e)[i] = s[i]
      /\ Append(s, e)[Len(s) + 1] = e
  BY <1>1, AppendProperties
<1>3. \A i \in 1..Len(all) : all[i] = Append(s, e)[i]
  BY <1>1, <1>2
<1> QED
  BY <1>2, <1>3, SeqEqual

LEMMA JointTyped ==
    ASSUME NEW S, NEW s \in Seq(S), NEW t \in Seq(S)
    PROVE  Joint(s, t) \in Seq(S)
BY ConcatProperties DEF Joint

LEMMA JointNothing ==
    ASSUME NEW S, NEW s \in Seq(S)
    PROVE  Joint(s, <<>>) = s /\ Joint(<<>>, s) = s
BY ConcatEmptySeq DEF Joint

LEMMA JointTwice ==
    ASSUME NEW S, NEW s \in Seq(S), NEW t \in Seq(S), NEW u \in Seq(S)
    PROVE  Joint(Joint(s, t), u) = Joint(s, Joint(t, u))
BY ConcatAssociative DEF Joint

LEMMA JointOne ==
    ASSUME NEW S, NEW s \in Seq(S), NEW e \in S
    PROVE  Append(s, e) = Joint(s, <<e>>)
BY AppendIsConcat DEF Joint

LEMMA JointAppend ==
    ASSUME NEW S, NEW s \in Seq(S), NEW t \in Seq(S), NEW e \in S
    PROVE  Append(Joint(s, t), e) = Joint(s, Append(t, e))
<1>1. PICK one : one = <<e>>
  OBVIOUS
<1>5. one \in Seq(S)
  BY <1>1
<1>2. Append(Joint(s, t), e) = Joint(Joint(s, t), one)
  BY <1>1, JointTyped, JointOne
<1>3. Joint(Joint(s, t), one) = Joint(s, Joint(t, one))
  BY <1>5, JointTwice
<1>4. Append(t, e) = Joint(t, one)
  BY <1>1, JointOne
<1> QED
  BY <1>2, <1>3, <1>4, Zenon

LEMMA FlattenNothing == FlattenSeq(<<>>) = <<>>
<1>1. Len(<<>>) = 0
  BY EmptySeq
<1> QED
  BY <1>1, Zenon DEF FlattenSeq

LEMMA FlattenNone ==
    ASSUME NEW n \in Nat, NEW texts, texts = [i \in 1..n |-> <<>>]
    PROVE  FlattenSeq(texts) = <<>>
<1> DEFINE P == {k \in 0..n : FlattenSeq([i \in 1..k |-> <<>>]) = <<>>}
<1>1. 0 \in P
  <2>1. [i \in 1..0 |-> <<>>] = <<>>
    OBVIOUS
  <2> QED
    BY <2>1, FlattenNothing
<1>2. ASSUME NEW k \in 1..n, \A j \in 0..(k - 1) : j \in P PROVE k \in P
  <2>1. PICK x, z : x = [i \in 1..(k - 1) |-> <<>>] /\ z = [i \in 1..k |-> <<>>]
    OBVIOUS
  <2>2. k - 1 \in 0..(k - 1) /\ k \in Nat /\ k - 1 \in Nat
    OBVIOUS
  <2>3. FlattenSeq(x) = <<>>
    BY <1>2, <2>1, <2>2
  <2>4. x \in Seq(Seq({})) /\ Len(x) = k - 1 /\ <<>> \in Seq({})
    BY <2>1, <2>2
  <2>6. z = Append(x, <<>>)
    <3>1. PICK S, e : S = Seq({}) /\ e = <<>>
      OBVIOUS
    <3>2. x \in Seq(S) /\ e \in S /\ Len(x) = k - 1
      BY <2>4, <3>1
    <3>3. z \in Seq(S) /\ Len(z) = Len(x) + 1
      BY <2>1, <2>2, <3>1, <3>2
    <3>4. (\A i \in 1..Len(x) : z[i] = x[i]) /\ z[Len(x) + 1] = e
      BY <2>1, <2>2, <3>1, <3>2
    <3>5. z = Append(x, e)
      BY <3>2, <3>3, <3>4, AppendIs
    <3> QED
      BY <3>1, <3>5
  <2>7. FlattenSeq(Append(x, <<>>)) = Joint(FlattenSeq(x), <<>>)
    BY <2>4, FlattenMore
  <2>8. Joint(<<>>, <<>>) = <<>>
    BY <2>4, JointNothing
  <2>9. FlattenSeq(z) = <<>>
    BY <2>3, <2>6, <2>7, <2>8, Zenon
  <2> QED
    BY <2>1, <2>9
<1>3. n \in P
  <2> HIDE DEF P
  <2>1. \A k \in 0..n : k \in P
    BY <1>1, <1>2, Recursion
  <2> QED
    BY <2>1
<1> QED
  BY <1>3

-----------------------------------------------------------------------------
(* What is shown of a chunk, and of a text that goes on.                    *)
LEMMA ChunkShows ==
    ASSUME NEW y \in Seq(Pieces)
    PROVE  /\ Chunk(y, FALSE).shown = Expanded(Whole(y)) /\ Chunk(y, FALSE).held = Held(y)
           /\ Chunk(y, TRUE).shown = Expanded(y) /\ Chunk(y, TRUE).held = <<>>
<1>1. /\ Chunk(y, FALSE) = [shown |-> Expanded(Whole(y)), held |-> Held(y)]
      /\ Chunk(y, TRUE) = [shown |-> Expanded(y), held |-> <<>>]
  BY ChunkIs
<1>2. \A a, b : [shown |-> a, held |-> b].shown = a /\ [shown |-> a, held |-> b].held = b
  OBVIOUS
<1> QED
  BY <1>1, <1>2, Zenon

LEMMA JointPrefix ==
    ASSUME NEW a \in Seq(Displayed), NEW b \in Seq(Displayed)
    PROVE  IsPrefix(a, Joint(a, b)) /\ IsPrefix(a, a)
<1>1. PICK ab : ab = Joint(a, b)
  OBVIOUS
<1>2. /\ Len(a) \in Nat /\ Len(b) \in Nat /\ ab \in Seq(Displayed) /\ Len(ab) = Len(a) + Len(b)
      /\ \A i \in 1..Len(a) + Len(b) : ab[i] = IF i <= Len(a) THEN a[i] ELSE b[i - Len(a)]
  BY <1>1, ConcatProperties DEF Joint
<1>3. Len(a) <= Len(ab) /\ \A i \in 1..Len(a) : a[i] = ab[i]
  BY <1>2
<1>4. IsPrefix(a, ab) /\ IsPrefix(a, a)
  BY <1>2, <1>3, PrefixOf
<1> QED
  BY <1>1, <1>4

(* A text begins another, and what is shown of the one begins what is shown *)
(* of the other.                                                            *)
Begins(x, y) == \E z \in Seq(Pieces) : y = Joint(x, z)

LEMMA BeginsItself ==
    ASSUME NEW x \in Seq(Pieces)
    PROVE  Begins(x, x) /\ Begins(<<>>, x)
<1>1. <<>> \in Seq(Pieces)
  OBVIOUS
<1>2. Joint(x, <<>>) = x /\ Joint(<<>>, x) = x
  BY JointNothing
<1> QED
  BY <1>1, <1>2 DEF Begins

LEMMA BeginsOn ==
    ASSUME NEW x \in Seq(Pieces), NEW y \in Seq(Pieces), NEW z \in Seq(Pieces), Begins(x, y), Begins(y, z)
    PROVE  Begins(x, z)
<1>1. PICK s \in Seq(Pieces) : y = Joint(x, s)
  BY DEF Begins
<1>2. PICK t \in Seq(Pieces) : z = Joint(y, t)
  BY DEF Begins
<1>3. Joint(Joint(x, s), t) = Joint(x, Joint(s, t)) /\ Joint(s, t) \in Seq(Pieces)
  BY JointTwice, JointTyped
<1> QED
  BY <1>1, <1>2, <1>3 DEF Begins

LEMMA ShownGrows ==
    ASSUME NEW x \in Seq(Pieces), NEW y \in Seq(Pieces), Begins(x, y)
    PROVE  /\ IsPrefix(x, y)
           /\ IsPrefix(Expanded(Whole(x)), Expanded(Whole(y)))
           /\ IsPrefix(Expanded(Whole(x)), Expanded(y))
<1>1. PICK z \in Seq(Pieces) : y = Joint(x, z)
  BY DEF Begins
<1>2. x \in Seq(Displayed) /\ z \in Seq(Displayed)
  BY PiecesAreDisplayed
<1>3. IsPrefix(x, y)
  BY <1>1, <1>2, JointPrefix
<1>4. ASSUME NEW s \in Seq(Pieces)
      PROVE  /\ Whole(s) \in Seq(Pieces) /\ Held(s) \in Seq(Pieces)
             /\ Expanded(Whole(s)) \in Seq(Displayed) /\ Expanded(Held(s)) \in Seq(Displayed)
             /\ Expanded(s) = Joint(Expanded(Whole(s)), Expanded(Held(s)))
  <2>1. Whole(s) \in Seq(Pieces) /\ Held(s) \in Seq(Pieces)
    BY WholeAndHeld
  <2>2. Expanded(s) = Joint(Expanded(Whole(s)), Expanded(Held(s)))
    BY ChunkEnds DEF Joint
  <2> QED
    BY <2>1, <2>2, ExpandText
<1>5. \E more \in Seq(Displayed) : Expanded(Whole(y)) = Joint(Expanded(Whole(x)), more)
  <2>1. CASE z = <<>>
    <3>1. y = x
      BY <1>1, <2>1, JointNothing
    <3>2. Expanded(Whole(x)) = Joint(Expanded(Whole(x)), <<>>) /\ <<>> \in Seq(Displayed)
      BY <1>4, JointNothing
    <3> QED
      BY <3>1, <3>2
  <2>2. CASE z # <<>>
    <3>1. /\ Joint(Held(x), z) \in Seq(Pieces)
          /\ Expanded(Whole(Joint(x, z))) = Joint(Expanded(Whole(x)), Expanded(Whole(Joint(Held(x), z))))
      BY <2>2, ChunkGoesOn DEF Joint
    <3>2. Expanded(Whole(Joint(Held(x), z))) \in Seq(Displayed)
      BY <1>4, <3>1
    <3> QED
      BY <1>1, <3>1, <3>2
  <2> QED
    BY <2>1, <2>2
<1>6. PICK more \in Seq(Displayed) : Expanded(Whole(y)) = Joint(Expanded(Whole(x)), more)
  BY <1>5
<1>7. IsPrefix(Expanded(Whole(x)), Expanded(Whole(y)))
  BY <1>4, <1>6, JointPrefix
<1>8. Expanded(y) = Joint(Expanded(Whole(x)), Joint(more, Expanded(Held(y))))
  BY <1>4, <1>6, JointTwice
<1>9. IsPrefix(Expanded(Whole(x)), Joint(Expanded(Whole(x)), Joint(more, Expanded(Held(y)))))
  <2>1. Joint(more, Expanded(Held(y))) \in Seq(Displayed)
    BY <1>4, JointTyped
  <2> QED
    BY <1>4, <2>1, JointPrefix
<1> QED
  BY <1>3, <1>7, <1>8, <1>9

(* What is held is all of a token that has begun: it is held again.         *)
LEMMA HeldAgain ==
    ASSUME NEW x \in Seq(Pieces)
    PROVE  Held(Held(x)) = Held(x) /\ Expanded(Whole(Held(x))) = <<>>
<1>1. PICK h \in Seq(Pieces) : h = Held(x)
  BY WholeAndHeld
<1>2. h \in {<<>>, <<"head">>, <<"head", "id">>}
  BY <1>1, WholeAndHeld
<1>3. Unfinished(h) = Len(h)
  <2>1. /\ Unfinished(h) = 2 <=> Len(h) > 1 /\ h[Len(h) - 1] = "head" /\ h[Len(h)] = "id"
        /\ Unfinished(h) = 1 <=> Len(h) > 0 /\ h[Len(h)] = "head"
        /\ Unfinished(h) \in 0..2 /\ Unfinished(h) <= Len(h)
    BY UnfinishedIs
  <2>2. \/ Len(h) = 0
        \/ Len(h) = 1 /\ h[1] = "head"
        \/ Len(h) = 2 /\ h[1] = "head" /\ h[2] = "id"
    BY <1>2
  <2> QED
    BY <2>1, <2>2
<1>4. Len(h) \in Nat
  OBVIOUS
<1>5. Whole(h) = <<>> /\ Held(h) = h
  <2>1. Whole(h) = SubSeq(h, 1, 0)
    BY <1>3, <1>4 DEF Whole
  <2>2. Held(h) = SubSeq(h, 1, Len(h))
    BY <1>3, <1>4 DEF Held
  <2> QED
    BY <2>1, <2>2
<1> QED
  BY <1>1, <1>5, ExpandNone

=============================================================================
