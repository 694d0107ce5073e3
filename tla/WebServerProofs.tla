-------------------------- MODULE WebServerProofs --------------------------
(***************************************************************************)
(* What WebServer's runs check, for every set of messages and texts: what  *)
(* is written and not yet expanded tells how what the browser shows        *)
(* becomes what ADK said.                                                  *)
(***************************************************************************)
EXTENDS WebServer, RecursionProofs

(* How far ADK's answer has been told, and what the expander and the        *)
(* browser have of an answer told so far.                                   *)
Told == [said : [Keys -> Seq(Pieces)], over : SUBSET Keys]

ViewOf(a) ==
    [held  |-> [k \in Keys |-> IF k \in a.over THEN <<>> ELSE Held(a.said[k])],
     shown |-> [k \in Keys |-> IF k \in a.over THEN Expanded(a.said[k])
                               ELSE Expanded(Whole(a.said[k]))],
     over  |-> a.over]

Views == [held : [Keys -> Seq(Pieces)], shown : [Keys -> Seq(Expansions)], over : SUBSET Keys]

All(a) == [said |-> a.said, over |-> Keys]

Precedes(a, b) ==
    /\ a.over \subseteq b.over
    /\ \A k \in Keys : Begins(a.said[k], b.said[k]) /\ (k \in a.over => b.said[k] = a.said[k])

OfMessage(m) == {m} \X Channels

(* A record tells how the answer goes on.                                   *)
TellsDelta(record, a, b) ==
    \E k \in Keys \ a.over, delta \in Seq(Pieces) :
        /\ record = Partial(k, delta)
        /\ b.over = a.over
        /\ b.said = [a.said EXCEPT ![k] = Joint(@, delta)]

TellsEnd(record, a, b) ==
    \E m \in Messages :
        /\ record = Final(m, b.said)
        /\ b.over = a.over \cup OfMessage(m)
        /\ \A k \in Keys : IF k \in OfMessage(m) \ a.over THEN Begins(a.said[k], b.said[k])
                           ELSE b.said[k] = a.said[k]

TellsNoText(record, a, b) ==
    \E m \in Messages : /\ record = FinalWithoutText(m)
                        /\ b = [said |-> a.said, over |-> a.over \cup OfMessage(m)]

TellsMore(record, a, b) ==
    \/ TellsDelta(record, a, b)
    \/ TellsEnd(record, a, b)
    \/ TellsNoText(record, a, b)
    \/ record = Done /\ b = All(a)
    \/ record = Comment /\ b = a

-----------------------------------------------------------------------------
LEMMA PrecedesItself ==
    ASSUME NEW a \in Told
    PROVE  Precedes(a, a) /\ Precedes(a, All(a)) /\ All(a) \in Told
<1>1. \A k \in Keys : a.said[k] \in Seq(Pieces)
  BY DEF Told
<1>2. a.over \subseteq Keys /\ All(a).said = a.said /\ All(a).over = Keys
  BY DEF Told, All
<1>3. \A k \in Keys : Begins(a.said[k], a.said[k])
  BY <1>1, BeginsItself
<1>4. All(a) \in Told
  BY DEF Told, All
<1> QED
  BY <1>2, <1>3, <1>4 DEF Precedes

LEMMA PrecedesOn ==
    ASSUME NEW a \in Told, NEW b \in Told, NEW c \in Told, Precedes(a, b), Precedes(b, c)
    PROVE  Precedes(a, c)
<1>1. ASSUME NEW k \in Keys
      PROVE  Begins(a.said[k], c.said[k]) /\ (k \in a.over => c.said[k] = a.said[k])
  <2>1. a.said[k] \in Seq(Pieces) /\ b.said[k] \in Seq(Pieces) /\ c.said[k] \in Seq(Pieces)
    BY DEF Told
  <2>2. Begins(a.said[k], b.said[k]) /\ Begins(b.said[k], c.said[k])
    BY DEF Precedes
  <2>3. Begins(a.said[k], c.said[k])
    BY <2>1, <2>2, BeginsOn
  <2> QED
    BY <2>3 DEF Precedes
<1> QED
  BY <1>1 DEF Precedes

LEMMA MoreIsPreceded ==
    ASSUME NEW a \in Told, NEW b \in Told, NEW record, TellsMore(record, a, b)
    PROVE  Precedes(a, b)
<1>1. \A k \in Keys : a.said[k] \in Seq(Pieces) /\ Begins(a.said[k], a.said[k])
  BY BeginsItself DEF Told
<1>2. CASE TellsDelta(record, a, b)
  <2>1. PICK k \in Keys \ a.over, delta \in Seq(Pieces) :
          b.over = a.over /\ b.said = [a.said EXCEPT ![k] = Joint(@, delta)]
    BY <1>2 DEF TellsDelta
  <2>2. b.said[k] = Joint(a.said[k], delta) /\ \A l \in Keys : l # k => b.said[l] = a.said[l]
    BY <2>1 DEF Told
  <2>3. \A l \in Keys : Begins(a.said[l], b.said[l])
    BY <1>1, <2>2 DEF Begins
  <2> QED
    BY <2>1, <2>2, <2>3 DEF Precedes
<1>3. CASE TellsEnd(record, a, b)
  BY <1>1, <1>3 DEF TellsEnd, Precedes
<1>4. CASE TellsNoText(record, a, b)
  <2>1. b.said = a.said /\ a.over \subseteq b.over
    BY <1>4 DEF TellsNoText
  <2> QED
    BY <1>1, <2>1 DEF Precedes
<1>5. CASE b = All(a) \/ b = a
  BY <1>5, PrecedesItself
<1> QED
  BY <1>2, <1>3, <1>4, <1>5 DEF TellsMore

(* A text that is held is no token yet.                                     *)
LEMMA HeldAsItIs ==
    ASSUME NEW x \in Seq(Pieces)
    PROVE  Expanded(Held(x)) = Held(x)
<1>1. PICK h \in Seq(Pieces) : h = Held(x)
  BY WholeAndHeld
<1>2. h \in {<<>>, <<"head">>, <<"head", "id">>}
  BY <1>1, WholeAndHeld
<1>3. PICK n \in 0..2 : n = Len(h)
  BY <1>2
<1>4. PICK g : Expands(g, h, n) /\ Expanded(h) = g[n]
  BY <1>3, ExpandIs
<1>5. g[0] = <<>>
  BY <1>4, ExpandsStep
<1>6. ASSUME NEW i \in 1..n
      PROVE  g[i] = Append(g[i - 1], h[i])
  <2>1. ~ EndsToken(h, i)
    BY <1>3 DEF EndsToken
  <2>2. i \in 0..n /\ i # 0
    OBVIOUS
  <2>3. \A j \in 0..n : j # 0 => g[j] = IF EndsToken(h, j) THEN Append(g[j - 3], "stored")
                                        ELSE Append(g[j - 1], h[j])
    BY <1>4, ExpandsStep
  <2> QED
    BY <2>1, <2>2, <2>3, Zenon
<1>7. g[n] = h
  <2>1. CASE h = <<>>
    BY <1>3, <1>5, <2>1
  <2>2. CASE h = <<"head">>
    <3>1. n = 1 /\ h[1] = "head"
      BY <1>3, <2>2
    <3>2. g[1] = Append(g[0], h[1])
      BY <1>6, <3>1
    <3> QED
      BY <1>5, <2>2, <3>1, <3>2
  <2>3. CASE h = <<"head", "id">>
    <3>1. n = 2 /\ h[1] = "head" /\ h[2] = "id"
      BY <1>3, <2>3
    <3>2. g[1] = Append(g[0], h[1]) /\ g[2] = Append(g[1], h[2])
      <4>1. 1 \in 1..n /\ 2 \in 1..n /\ 1 - 1 = 0 /\ 2 - 1 = 1
        BY <3>1
      <4>2. g[1] = Append(g[1 - 1], h[1]) /\ g[2] = Append(g[2 - 1], h[2])
        BY <1>6, <4>1
      <4> QED
        BY <4>1, <4>2
    <3>3. g[1] = <<"head">>
      BY <1>5, <3>1, <3>2
    <3>4. PICK one : one = <<"head">>
      OBVIOUS
    <3>5. one \in Seq(Pieces) /\ Len(one) = 1 /\ one[1] = "head" /\ "id" \in Pieces
      BY <3>4 DEF Pieces
    <3>6. Len(h) = Len(one) + 1 /\ (\A i \in 1..Len(one) : h[i] = one[i]) /\ h[Len(one) + 1] = "id"
      BY <1>3, <3>1, <3>5
    <3>7. h = Append(one, "id")
      BY <3>5, <3>6, AppendIs
    <3>8. g[2] = Append(one, "id")
      BY <3>1, <3>2, <3>3, <3>4
    <3> QED
      BY <3>1, <3>7, <3>8
  <2> QED
    BY <1>2, <2>1, <2>2, <2>3
<1> QED
  BY <1>1, <1>4, <1>7

(* What the view has of one text.                                           *)
LEMMA ViewShows ==
    ASSUME NEW a \in Told, NEW k \in Keys
    PROVE  /\ a.said[k] \in Seq(Pieces)
           /\ ViewOf(a).held[k] = IF k \in a.over THEN <<>> ELSE Held(a.said[k])
           /\ ViewOf(a).shown[k] = IF k \in a.over THEN Expanded(a.said[k])
                                   ELSE Expanded(Whole(a.said[k]))
BY DEF Told, ViewOf

LEMMA ViewIs ==
    ASSUME NEW a \in Told
    PROVE  /\ ViewOf(a) \in Views
           /\ \A k \in Keys : ViewOf(a).held[k] \in {<<>>, <<"head">>, <<"head", "id">>}
<1>1. ASSUME NEW k \in Keys
      PROVE  /\ Held(a.said[k]) \in Seq(Pieces)
             /\ Held(a.said[k]) \in {<<>>, <<"head">>, <<"head", "id">>}
             /\ Expanded(a.said[k]) \in Seq(Expansions)
             /\ Expanded(Whole(a.said[k])) \in Seq(Expansions)
  <2>1. a.said[k] \in Seq(Pieces)
    BY DEF Told
  <2>2. /\ Held(a.said[k]) \in Seq(Pieces) /\ Whole(a.said[k]) \in Seq(Pieces)
        /\ Held(a.said[k]) \in {<<>>, <<"head">>, <<"head", "id">>}
    BY <2>1, WholeAndHeld
  <2> QED
    BY <2>1, <2>2, ExpandedText
<1>2. \A k \in Keys : (IF k \in a.over THEN <<>> ELSE Held(a.said[k])) \in Seq(Pieces)
  BY <1>1
<1>3. \A k \in Keys : (IF k \in a.over THEN Expanded(a.said[k])
                       ELSE Expanded(Whole(a.said[k]))) \in Seq(Expansions)
  BY <1>1
<1>4. a.over \in SUBSET Keys
  BY DEF Told
<1>5. ViewOf(a) \in Views
  BY <1>2, <1>3, <1>4 DEF ViewOf, Views
<1>6. \A k \in Keys : ViewOf(a).held[k] \in {<<>>, <<"head">>, <<"head", "id">>}
  BY <1>1, ViewShows
<1> QED
  BY <1>5, <1>6

(* A flush shows the rest of what was told.                                 *)
LEMMA FlushIs ==
    ASSUME NEW a \in Told, NEW keys \in SUBSET Keys, NEW b,
           b = [said |-> a.said, over |-> a.over \cup keys]
    PROVE  Flush(ViewOf(a), keys) = ViewOf(b)
<1>1. b \in Told /\ b.said = a.said /\ b.over = a.over \cup keys
  BY DEF Told
<1>2. PICK v : v = ViewOf(a)
  OBVIOUS
<1>3. ASSUME NEW k \in Keys
      PROVE  /\ (IF k \in keys THEN <<>> ELSE v.held[k])
                    = IF k \in b.over THEN <<>> ELSE Held(b.said[k])
             /\ (IF k \in keys THEN Joint(v.shown[k], v.held[k]) ELSE v.shown[k])
                    = IF k \in b.over THEN Expanded(b.said[k]) ELSE Expanded(Whole(b.said[k]))
  <2>1. PICK x \in Seq(Pieces) : x = a.said[k]
    BY DEF Told
  <2>2. /\ v.held[k] = IF k \in a.over THEN <<>> ELSE Held(x)
        /\ v.shown[k] = IF k \in a.over THEN Expanded(x) ELSE Expanded(Whole(x))
    BY <1>2, <2>1, ViewShows
  <2>3. Expanded(x) = Joint(Expanded(Whole(x)), Held(x))
    <3>1. Expanded(x) = Joint(Expanded(Whole(x)), Expanded(Held(x)))
      BY ChunkEnds DEF Joint
    <3> QED
      BY <3>1, HeldAsItIs
  <2>4. Joint(Expanded(x), <<>>) = Expanded(x)
    BY ExpandText, JointNothing
  <2>5. b.said[k] = x
    BY <1>1, <2>1
  <2>6. CASE k \in keys
    <3>1. k \in b.over
      BY <1>1, <2>6
    <3>2. Joint(v.shown[k], v.held[k]) = Expanded(x)
      BY <2>2, <2>3, <2>4
    <3> QED
      BY <2>5, <2>6, <3>1, <3>2
  <2>7. CASE k \notin keys
    <3>1. k \in b.over <=> k \in a.over
      BY <1>1, <2>7
    <3> QED
      BY <2>2, <2>5, <2>7, <3>1
  <2> QED
    BY <2>6, <2>7
<1>4. v.over \cup keys = b.over
  BY <1>1, <1>2 DEF ViewOf
<1>5. Flush(v, keys) =
        [held |-> [k \in Keys |-> IF k \in keys THEN <<>> ELSE v.held[k]],
         shown |-> [k \in Keys |-> IF k \in keys THEN Joint(v.shown[k], v.held[k]) ELSE v.shown[k]],
         over |-> b.over]
  BY <1>4 DEF Flush, Joint
<1>6. /\ [k \in Keys |-> IF k \in keys THEN <<>> ELSE v.held[k]]
            = [k \in Keys |-> IF k \in b.over THEN <<>> ELSE Held(b.said[k])]
      /\ [k \in Keys |-> IF k \in keys THEN Joint(v.shown[k], v.held[k]) ELSE v.shown[k]]
            = [k \in Keys |-> IF k \in b.over THEN Expanded(b.said[k]) ELSE Expanded(Whole(b.said[k]))]
  BY <1>3
<1> QED
  BY <1>2, <1>5, <1>6 DEF ViewOf

(* A final event shows its texts instead of what was told.                  *)
LEMMA FinishIs ==
    ASSUME NEW a \in Told, NEW b \in Told, NEW keys \in SUBSET Keys, b.over = a.over \cup keys,
           \A k \in Keys \ keys : b.said[k] = a.said[k]
    PROVE  Finish(ViewOf(a), keys, b.said) = ViewOf(b)
<1>1. PICK v : v = ViewOf(a)
  OBVIOUS
<1>2. ASSUME NEW k \in Keys
      PROVE  /\ (IF k \in keys THEN <<>> ELSE v.held[k])
                    = IF k \in b.over THEN <<>> ELSE Held(b.said[k])
             /\ (IF k \in keys THEN Chunk(b.said[k], TRUE).shown ELSE v.shown[k])
                    = IF k \in b.over THEN Expanded(b.said[k]) ELSE Expanded(Whole(b.said[k]))
  <2>1. Chunk(b.said[k], TRUE).shown = Expanded(b.said[k])
    <3>1. b.said[k] \in Seq(Pieces)
      BY DEF Told
    <3> QED
      BY <3>1, ChunkShows
  <2>2. CASE k \in keys
    BY <2>1, <2>2
  <2>3. CASE k \notin keys
    <3>1. /\ v.held[k] = IF k \in a.over THEN <<>> ELSE Held(a.said[k])
          /\ v.shown[k] = IF k \in a.over THEN Expanded(a.said[k]) ELSE Expanded(Whole(a.said[k]))
      BY <1>1, ViewShows
    <3>2. b.said[k] = a.said[k] /\ (k \in b.over <=> k \in a.over)
      BY <2>3
    <3> QED
      BY <2>3, <3>1, <3>2
  <2> QED
    BY <2>2, <2>3
<1>3. v.over \cup keys = b.over
  BY <1>1 DEF ViewOf
<1>4. /\ [k \in Keys |-> IF k \in keys THEN <<>> ELSE v.held[k]]
            = [k \in Keys |-> IF k \in b.over THEN <<>> ELSE Held(b.said[k])]
      /\ [k \in Keys |-> IF k \in keys THEN Chunk(b.said[k], TRUE).shown ELSE v.shown[k]]
            = [k \in Keys |-> IF k \in b.over THEN Expanded(b.said[k]) ELSE Expanded(Whole(b.said[k]))]
  BY <1>2
<1> QED
  BY <1>1, <1>3, <1>4 DEF ViewOf, Finish

(* A delta shows what may be shown of it behind what was held.              *)
LEMMA AddIs ==
    ASSUME NEW a \in Told, NEW b \in Told, NEW k \in Keys \ a.over, NEW delta \in Seq(Pieces),
           b.over = a.over, b.said = [a.said EXCEPT ![k] = Joint(@, delta)]
    PROVE  AddDelta(ViewOf(a), k, delta) = ViewOf(b)
<1>1. PICK v : v = ViewOf(a)
  OBVIOUS
<1>2. PICK x \in Seq(Pieces) : x = a.said[k]
  BY DEF Told
<1>3. v.held[k] = Held(x) /\ v.shown[k] = Expanded(Whole(x))
  BY <1>1, <1>2, ViewShows
<1>4. b.said[k] = Joint(x, delta) /\ \A l \in Keys : l # k => b.said[l] = a.said[l]
  BY <1>2 DEF Told
<1>5. /\ Joint(Held(x), delta) \in Seq(Pieces)
      /\ Held(Joint(Held(x), delta)) = Held(Joint(x, delta))
      /\ Expanded(Whole(Joint(x, delta)))
            = Joint(Expanded(Whole(x)), Expanded(Whole(Joint(Held(x), delta))))
  <2>1. CASE delta # <<>>
    BY <2>1, ChunkGoesOn DEF Joint
  <2>2. CASE delta = <<>>
    <3>1. /\ Held(x) \in Seq(Pieces) /\ Whole(x) \in Seq(Pieces)
      BY WholeAndHeld
    <3>2. Joint(Held(x), delta) = Held(x) /\ Joint(x, delta) = x
      BY <2>2, <3>1, JointNothing
    <3>3. Held(Held(x)) = Held(x) /\ Expanded(Whole(Held(x))) = <<>>
      BY HeldAgain
    <3>4. Joint(Expanded(Whole(x)), <<>>) = Expanded(Whole(x))
      BY <3>1, ExpandText, JointNothing
    <3> QED
      BY <3>1, <3>2, <3>3, <3>4
  <2> QED
    BY <2>1, <2>2
<1>6. PICK chunk : chunk = Chunk(Joint(v.held[k], delta), FALSE)
  OBVIOUS
<1>7. chunk.held = Held(b.said[k]) /\ Joint(v.shown[k], chunk.shown) = Expanded(Whole(b.said[k]))
  <2>1. /\ chunk.shown = Expanded(Whole(Joint(Held(x), delta)))
        /\ chunk.held = Held(Joint(Held(x), delta))
    BY <1>3, <1>5, <1>6, ChunkShows
  <2> QED
    BY <1>3, <1>4, <1>5, <2>1
<1>8. v = [held |-> v.held, shown |-> v.shown, over |-> b.over]
      /\ v.held = [l \in Keys |-> v.held[l]] /\ v.shown = [l \in Keys |-> v.shown[l]]
  BY <1>1 DEF ViewOf
<1>9. AddDelta(v, k, delta) = [held |-> [v.held EXCEPT ![k] = chunk.held],
                               shown |-> [v.shown EXCEPT ![k] = Joint(@, chunk.shown)],
                               over |-> b.over]
  <2>1. PICK more : more = [v.shown EXCEPT ![k] = Joint(@, chunk.shown)]
    OBVIOUS
  <2>2. PICK w : w = [v EXCEPT !.shown = more]
    OBVIOUS
  <2>3. w = [held |-> v.held, shown |-> more, over |-> b.over]
    BY <1>8, <2>2
  <2>4. PICK rest : rest = [v.held EXCEPT ![k] = chunk.held]
    OBVIOUS
  <2>5. [w EXCEPT !.held = rest] = [held |-> rest, shown |-> more, over |-> b.over]
    BY <2>3
  <2>6. w.held = v.held
    BY <2>3
  <2>7. AddDelta(v, k, delta) = [w EXCEPT !.held = [w.held EXCEPT ![k] = chunk.held]]
    BY <1>6, <2>1, <2>2, Zenon DEF AddDelta, Joint
  <2> QED
    BY <2>1, <2>4, <2>5, <2>6, <2>7
<1>10. ASSUME NEW l \in Keys
       PROVE  /\ [v.held EXCEPT ![k] = chunk.held][l]
                    = IF l \in b.over THEN <<>> ELSE Held(b.said[l])
              /\ [v.shown EXCEPT ![k] = Joint(@, chunk.shown)][l]
                    = IF l \in b.over THEN Expanded(b.said[l]) ELSE Expanded(Whole(b.said[l]))
  <2>1. CASE l = k
    BY <1>7, <1>8, <2>1
  <2>2. CASE l # k
    <3>1. /\ v.held[l] = IF l \in a.over THEN <<>> ELSE Held(a.said[l])
          /\ v.shown[l] = IF l \in a.over THEN Expanded(a.said[l]) ELSE Expanded(Whole(a.said[l]))
      BY <1>1, ViewShows
    <3> QED
      BY <1>4, <1>8, <2>2, <3>1
  <2> QED
    BY <2>1, <2>2
<1>11. /\ [v.held EXCEPT ![k] = chunk.held]
             = [l \in Keys |-> IF l \in b.over THEN <<>> ELSE Held(b.said[l])]
       /\ [v.shown EXCEPT ![k] = Joint(@, chunk.shown)]
             = [l \in Keys |-> IF l \in b.over THEN Expanded(b.said[l]) ELSE Expanded(Whole(b.said[l]))]
  BY <1>8, <1>10
<1> QED
  BY <1>1, <1>9, <1>11 DEF ViewOf

(* A record turns the view of what was told so far into that of what it     *)
(* tells.                                                                   *)
LEMMA AfterMore ==
    ASSUME NEW a \in Told, NEW b \in Told, NEW record, TellsMore(record, a, b)
    PROVE  After(ViewOf(a), record) = ViewOf(b)
<1>1. CASE TellsDelta(record, a, b)
  <2>1. PICK k \in Keys \ a.over, delta \in Seq(Pieces) :
          /\ record = Partial(k, delta) /\ b.over = a.over
          /\ b.said = [a.said EXCEPT ![k] = Joint(@, delta)]
    BY <1>1 DEF TellsDelta
  <2>2. AddDelta(ViewOf(a), k, delta) = ViewOf(b)
    BY <2>1, AddIs
  <2>3. record.kind = "partial" /\ record.key = k /\ record.text = delta
    BY <2>1 DEF Partial
  <2> QED
    BY <2>2, <2>3 DEF After
<1>2. CASE TellsEnd(record, a, b)
  <2>1. PICK m \in Messages :
          /\ record = Final(m, b.said) /\ b.over = a.over \cup OfMessage(m)
          /\ \A k \in Keys \ OfMessage(m) : b.said[k] = a.said[k]
    BY <1>2 DEF TellsEnd
  <2>2. OfMessage(m) \in SUBSET Keys
    BY DEF OfMessage, Keys
  <2>3. Finish(ViewOf(a), OfMessage(m), b.said) = ViewOf(b)
    BY <2>1, <2>2, FinishIs
  <2>4. record.kind = "final" /\ KeysOf(record) = OfMessage(m) /\ record.texts = b.said
    BY <2>1 DEF Final, KeysOf, OfMessage
  <2> QED
    BY <2>3, <2>4 DEF After
<1>3. CASE TellsNoText(record, a, b)
  <2>1. PICK m \in Messages : /\ record = FinalWithoutText(m)
                              /\ b = [said |-> a.said, over |-> a.over \cup OfMessage(m)]
    BY <1>3 DEF TellsNoText
  <2>2. OfMessage(m) \in SUBSET Keys
    BY DEF OfMessage, Keys
  <2>3. Flush(ViewOf(a), OfMessage(m)) = ViewOf(b)
    BY <2>1, <2>2, FlushIs
  <2>4. record.kind = "textless" /\ KeysOf(record) = OfMessage(m)
    BY <2>1 DEF FinalWithoutText, KeysOf, OfMessage
  <2> QED
    BY <2>3, <2>4 DEF After
<1>4. CASE record = Done /\ b = All(a)
  <2>1. a.over \cup Keys = Keys
    BY DEF Told
  <2>2. Flush(ViewOf(a), Keys) = ViewOf(b)
    BY <1>4, <2>1, FlushIs DEF All
  <2>3. record.kind = "done" /\ KeysOf(record) = Keys
    BY <1>4 DEF Done, KeysOf
  <2> QED
    BY <2>2, <2>3 DEF After
<1>5. CASE record = Comment /\ b = a
  BY <1>5 DEF Comment, After
<1> QED
  BY <1>1, <1>2, <1>3, <1>4, <1>5 DEF TellsMore

-----------------------------------------------------------------------------
(* g[i] is the view after the first i parts of records.                     *)
Feeds(g, before, parts, due, n) ==
    g = [i \in 0..n |->
            IF i = 0 THEN before
            ELSE IF parts[i].part = due THEN After(g[i - 1], parts[i].record)
            ELSE g[i - 1]]

LEMMA FeedsExists ==
    ASSUME NEW before, NEW parts, NEW due, NEW n \in Nat
    PROVE  \E g : Feeds(g, before, parts, due, n)
<1> DEFINE T == {m \in Nat : ~\E g : Feeds(g, before, parts, due, m)}
<1> SUFFICES ASSUME T # {} PROVE FALSE
  OBVIOUS
<1>1. PICK m \in T : \A k \in T : m <= k
  <2>1. T \subseteq Nat
    OBVIOUS
  <2> HIDE DEF T
  <2> QED
    BY <2>1, LeastNumber
<1>2. m # 0
  <2>1. Feeds([i \in 0..0 |-> before], before, parts, due, 0)
    BY DEF Feeds
  <2> QED
    BY <2>1
<1>3. m - 1 \in Nat /\ m - 1 \notin T
  BY <1>1, <1>2
<1>4. PICK h : Feeds(h, before, parts, due, m - 1)
  BY <1>3
<1> DEFINE last == IF parts[m].part = due THEN After(h[m - 1], parts[m].record) ELSE h[m - 1]
           g == [i \in 0..m |-> IF i = m THEN last ELSE h[i]]
<1>5. Feeds(g, before, parts, due, m)
  <2>1. \A i \in 0..m : g[i] = IF i = 0 THEN before
                               ELSE IF parts[i].part = due THEN After(g[i - 1], parts[i].record)
                               ELSE g[i - 1]
    <3> SUFFICES ASSUME NEW i \in 0..m
                 PROVE  g[i] = IF i = 0 THEN before
                               ELSE IF parts[i].part = due THEN After(g[i - 1], parts[i].record)
                               ELSE g[i - 1]
      OBVIOUS
    <3>1. CASE i = m
      <4>1. m - 1 \in 0..m /\ m - 1 # m
        BY <1>2
      <4>2. g[m - 1] = h[m - 1] /\ g[m] = last
        BY <4>1
      <4> QED
        BY <3>1, <4>2, <1>2
    <3>2. CASE i # m
      <4>1. i \in 0..(m - 1) /\ g[i] = h[i]
        BY <3>2
      <4>2. h[i] = IF i = 0 THEN before
                   ELSE IF parts[i].part = due THEN After(h[i - 1], parts[i].record)
                   ELSE h[i - 1]
        BY <4>1, <1>4 DEF Feeds
      <4>3. i # 0 => g[i - 1] = h[i - 1]
        BY <4>1
      <4> QED
        BY <4>1, <4>2, <4>3
    <3> QED
      BY <3>1, <3>2
  <2> QED
    BY <2>1 DEF Feeds
<1> QED
  BY <1>1, <1>5

LEMMA FeedsStep ==
    ASSUME NEW g, NEW before, NEW parts, NEW due, NEW n \in Nat, Feeds(g, before, parts, due, n)
    PROVE  /\ g[0] = before
           /\ \A i \in 1..n : g[i] = IF parts[i].part = due THEN After(g[i - 1], parts[i].record)
                                     ELSE g[i - 1]
BY DEF Feeds

LEMMA FeedIs ==
    ASSUME NEW before, NEW parts, Len(parts) \in Nat
    PROVE  /\ \E g : /\ Feeds(g, before, parts, 2, Len(parts))
                     /\ Feed(before, parts, FALSE) = g[Len(parts)]
           /\ \E g : /\ Feeds(g, before, parts, 1, Len(parts))
                     /\ Feed(before, parts, TRUE) = Flush(g[Len(parts)], Keys)
<1>1. PICK g : Feeds(g, before, parts, 2, Len(parts))
  BY FeedsExists
<1>2. PICK h : Feeds(h, before, parts, 1, Len(parts))
  BY FeedsExists
<1>3. \E s : Feeds(s, before, parts, 2, Len(parts)) /\ Feed(before, parts, FALSE) = s[Len(parts)]
  <2>1. Feed(before, parts, FALSE) = (CHOOSE s : Feeds(s, before, parts, 2, Len(parts)))[Len(parts)]
    BY Zenon DEF Feed, Feeds
  <2> QED
    BY <1>1, <2>1
<1>4. \E s : Feeds(s, before, parts, 1, Len(parts)) /\ Feed(before, parts, TRUE) = Flush(s[Len(parts)], Keys)
  BY <1>2 DEF Feed, Feeds
<1> QED
  BY <1>3, <1>4

-----------------------------------------------------------------------------
(* The parts carry n records, the last of them perhaps without its end,     *)
(* Len(parts) = 2 * n - 1;                                                  *)
Carries(parts, records, n) ==
    /\ n \in Nat /\ Len(parts) \in {2 * n - 1, 2 * n}
    /\ \A j \in 1..n : /\ parts[2 * j - 1] = [record |-> records[j], part |-> 1]
                       /\ 2 * j <= Len(parts) => parts[2 * j] = [record |-> records[j], part |-> 2]

(* and the records tell a story: how far the answer is told before each and *)
(* after the last.                                                          *)
Story(records, tale, n) ==
    /\ n \in Nat
    /\ \A j \in 0..n : tale[j] \in Told
    /\ \A j \in 1..n : TellsMore(records[j], tale[j - 1], tale[j])
    /\ \A i, j \in 0..n : i <= j => Precedes(tale[i], tale[j])

(* What a body shows are the records that are complete in it, and the last  *)
(* body all.                                                                *)
LEMMA FeedsTell ==
    ASSUME NEW records, NEW tale, NEW n, NEW parts, Len(parts) \in Nat,
           Carries(parts, records, n), Story(records, tale, n), NEW p \in Nat,
           Len(parts) \in {2 * p, 2 * p + 1}, NEW g,
           Feeds(g, ViewOf(tale[0]), parts, 2, Len(parts))
    PROVE  g[Len(parts)] = ViewOf(tale[p])
<1>1. PICK l \in Nat : l = Len(parts)
  OBVIOUS
<1>2. n \in Nat /\ l \in {2 * n - 1, 2 * n} /\ l \in {2 * p, 2 * p + 1} /\ p <= n /\ n <= p + 1
  BY <1>1 DEF Carries
<1>3. /\ g[0] = ViewOf(tale[0])
      /\ \A i \in 1..l : g[i] = IF parts[i].part = 2 THEN After(g[i - 1], parts[i].record)
                                ELSE g[i - 1]
  BY <1>1, FeedsStep
<1>4. ASSUME NEW j \in 1..n, 2 * j - 1 <= l
      PROVE  g[2 * j - 1] = g[2 * (j - 1)]
  <2>1. PICK i \in 1..l : i = 2 * j - 1 /\ i - 1 = 2 * (j - 1)
    BY <1>2, <1>4
  <2>2. parts[2 * j - 1] = [record |-> records[j], part |-> 1]
    BY DEF Carries
  <2>3. parts[i].part = 1
    BY <2>1, <2>2
  <2>4. g[i] = g[i - 1]
    BY <1>3, <2>3
  <2> QED
    BY <2>1, <2>4
<1>5. ASSUME NEW j \in 1..p, g[2 * (j - 1)] = ViewOf(tale[j - 1])
      PROVE  g[2 * j] = ViewOf(tale[j])
  <2>1. j \in 1..n /\ 2 * j <= l /\ 2 * j - 1 <= l /\ 2 * j \in 1..l
    BY <1>2
  <2>2. parts[2 * j] = [record |-> records[j], part |-> 2]
    BY <1>1, <2>1 DEF Carries
  <2>3. g[2 * j - 1] = g[2 * (j - 1)]
    BY <1>4, <2>1
  <2>4. g[2 * j] = After(g[2 * j - 1], records[j])
    BY <1>3, <2>1, <2>2
  <2>5. tale[j - 1] \in Told /\ tale[j] \in Told /\ TellsMore(records[j], tale[j - 1], tale[j])
    BY <2>1 DEF Story
  <2>6. After(ViewOf(tale[j - 1]), records[j]) = ViewOf(tale[j])
    BY <2>5, AfterMore
  <2> QED
    BY <1>5, <2>3, <2>4, <2>6
<1> DEFINE P == {j \in 0..p : g[2 * j] = ViewOf(tale[j])}
<1>6. \A j \in 0..p : j \in P
  <2>1. 0 \in P
    BY <1>3
  <2>2. \A j \in 1..p : (\A i \in 0..(j - 1) : i \in P) => j \in P
    BY <1>5
  <2> HIDE DEF P
  <2> QED
    BY <2>1, <2>2, Recursion
<1>7. g[2 * p] = ViewOf(tale[p])
  BY <1>6
<1>8. CASE l = 2 * p
  BY <1>1, <1>7, <1>8
<1>9. CASE l = 2 * p + 1
  <2>1. p + 1 \in 1..n /\ 2 * (p + 1) - 1 = l /\ 2 * ((p + 1) - 1) = 2 * p
    BY <1>2, <1>9
  <2>2. g[2 * (p + 1) - 1] = g[2 * ((p + 1) - 1)]
    BY <1>4, <2>1
  <2> QED
    BY <1>1, <1>7, <2>1, <2>2
<1> QED
  BY <1>2, <1>8, <1>9

LEMMA FeedsTellAll ==
    ASSUME NEW records, NEW tale, NEW n, NEW parts, Len(parts) \in Nat,
           Carries(parts, records, n), Story(records, tale, n), NEW g,
           Feeds(g, ViewOf(tale[0]), parts, 1, Len(parts))
    PROVE  g[Len(parts)] = ViewOf(tale[n])
<1>1. PICK l \in Nat : l = Len(parts)
  OBVIOUS
<1>2. n \in Nat /\ l \in {2 * n - 1, 2 * n}
  BY <1>1 DEF Carries
<1>3. /\ g[0] = ViewOf(tale[0])
      /\ \A i \in 1..l : g[i] = IF parts[i].part = 1 THEN After(g[i - 1], parts[i].record)
                                ELSE g[i - 1]
  BY <1>1, FeedsStep
<1>4. ASSUME NEW j \in 1..n, g[2 * (j - 1)] = ViewOf(tale[j - 1])
      PROVE  g[2 * j - 1] = ViewOf(tale[j])
  <2>1. parts[2 * j - 1] = [record |-> records[j], part |-> 1]
    BY DEF Carries
  <2>2. 2 * j - 1 \in 1..l /\ (2 * j - 1) - 1 = 2 * (j - 1)
    BY <1>2
  <2>3. g[2 * j - 1] = After(g[2 * (j - 1)], records[j])
    BY <1>3, <2>1, <2>2
  <2>4. tale[j - 1] \in Told /\ tale[j] \in Told /\ TellsMore(records[j], tale[j - 1], tale[j])
    BY <1>2 DEF Story
  <2>5. After(ViewOf(tale[j - 1]), records[j]) = ViewOf(tale[j])
    BY <2>4, AfterMore
  <2> QED
    BY <1>4, <2>3, <2>5
<1>5. ASSUME NEW j \in 1..n, 2 * j <= l
      PROVE  g[2 * j] = g[2 * j - 1]
  <2>1. parts[2 * j] = [record |-> records[j], part |-> 2]
    BY <1>1, <1>5 DEF Carries
  <2>2. 2 * j \in 1..l
    BY <1>5
  <2> QED
    BY <1>3, <2>1, <2>2
<1> DEFINE P == {j \in 0..n : /\ 2 * j <= l => g[2 * j] = ViewOf(tale[j])
                              /\ j > 0 => g[2 * j - 1] = ViewOf(tale[j])}
<1>6. \A j \in 0..n : j \in P
  <2>1. 0 \in P
    BY <1>2, <1>3
  <2>2. ASSUME NEW j \in 1..n, \A i \in 0..(j - 1) : i \in P
        PROVE  j \in P
    <3>1. j - 1 \in P /\ 2 * (j - 1) <= l
      BY <1>2, <2>2
    <3>2. g[2 * (j - 1)] = ViewOf(tale[j - 1])
      BY <3>1
    <3>3. g[2 * j - 1] = ViewOf(tale[j])
      BY <1>4, <3>2
    <3>4. 2 * j <= l => g[2 * j] = ViewOf(tale[j])
      BY <1>5, <3>3
    <3> QED
      BY <1>2, <3>3, <3>4
  <2> HIDE DEF P
  <2> QED
    BY <1>2, <2>1, <2>2, Recursion
<1>7. n \in P
  BY <1>2, <1>6
<1>8. CASE l = 2 * n
  BY <1>1, <1>2, <1>7, <1>8
<1>9. CASE l = 2 * n - 1
  <2>1. n > 0
    BY <1>2, <1>9
  <2> QED
    BY <1>1, <1>7, <1>9, <2>1
<1> QED
  BY <1>2, <1>8, <1>9

-----------------------------------------------------------------------------
(* What the wrapper holds of an answer and what is on its way.              *)
Records ==
    {Partial(k, delta) : k \in Keys, delta \in Seq(Pieces)}
        \cup {Final(m, texts) : m \in Messages, texts \in [Keys -> Seq(Pieces)]}
        \cup {FinalWithoutText(m) : m \in Messages}
        \cup {Done, Comment}

Parts == [record : Records, part : 1..2]

Joins(ab, a, b) ==
    /\ ab \in Seq(Parts) /\ Len(a) \in Nat /\ Len(b) \in Nat
    /\ Len(ab) = Len(a) + Len(b)
    /\ \A i \in 1..Len(a) : ab[i] = a[i]
    /\ \A i \in 1..Len(b) : ab[Len(a) + i] = b[i]

LEMMA JointIs ==
    ASSUME NEW a \in Seq(Parts), NEW b \in Seq(Parts)
    PROVE  Joins(Joint(a, b), a, b)
<1>1. PICK ab : ab = Joint(a, b)
  OBVIOUS
<1>2. /\ Len(a) \in Nat /\ Len(b) \in Nat /\ ab \in Seq(Parts) /\ Len(ab) = Len(a) + Len(b)
      /\ \A i \in 1..Len(a) + Len(b) : ab[i] = IF i <= Len(a) THEN a[i] ELSE b[i - Len(a)]
  BY <1>1, ConcatProperties DEF Joint
<1>3. \A i \in 1..Len(b) : ab[Len(a) + i] = b[i]
  <2> SUFFICES ASSUME NEW i \in 1..Len(b) PROVE ab[Len(a) + i] = b[i]
    OBVIOUS
  <2>1. /\ Len(a) + i \in 1..Len(a) + Len(b) /\ ~(Len(a) + i <= Len(a))
        /\ (Len(a) + i) - Len(a) = i
    BY <1>2
  <2> QED
    BY <1>2, <2>1
<1>4. Joins(ab, a, b)
  BY <1>2, <1>3 DEF Joins
<1> QED
  BY <1>1, <1>4

LEMMA EveryHalf ==
    ASSUME NEW l \in Nat
    PROVE  /\ \E m \in Nat : l \in {2 * m - 1, 2 * m}
           /\ \E p \in Nat : l \in {2 * p, 2 * p + 1}
<1>1. (l + 1) \div 2 \in Nat /\ l \in {2 * ((l + 1) \div 2) - 1, 2 * ((l + 1) \div 2)}
  OBVIOUS
<1>2. l \div 2 \in Nat /\ l \in {2 * (l \div 2), 2 * (l \div 2) + 1}
  OBVIOUS
<1> QED
  BY <1>1, <1>2

(* A body that is taken carries the first records.                          *)
LEMMA BodyCarries ==
    ASSUME NEW body \in Seq(Parts), NEW left \in Seq(Parts), NEW records, NEW n,
           Carries(Joint(body, left), records, n)
    PROVE  \E m \in 0..n : Carries(body, records, m)
<1>1. PICK whole \in Seq(Parts) : whole = Joint(body, left)
  BY JointTyped
<1>2. Len(body) \in Nat /\ Len(left) \in Nat /\ Len(whole) = Len(body) + Len(left)
      /\ \A i \in 1..Len(body) : whole[i] = body[i]
  <2>1. Joins(whole, body, left)
    BY <1>1, JointIs
  <2> QED
    BY <2>1 DEF Joins
<1>3. PICK m \in Nat : Len(body) \in {2 * m - 1, 2 * m}
  BY <1>2, EveryHalf
<1>4. n \in Nat /\ Len(whole) \in {2 * n - 1, 2 * n}
  BY <1>1 DEF Carries
<1>5. m \in 0..n
  BY <1>2, <1>3, <1>4
<1>6. ASSUME NEW j \in 1..m
      PROVE  /\ body[2 * j - 1] = [record |-> records[j], part |-> 1]
             /\ 2 * j <= Len(body) => body[2 * j] = [record |-> records[j], part |-> 2]
  <2>1. j \in 1..n /\ 2 * j - 1 \in 1..Len(body)
    BY <1>3, <1>4, <1>5
  <2>2. /\ whole[2 * j - 1] = [record |-> records[j], part |-> 1]
        /\ 2 * j <= Len(whole) => whole[2 * j] = [record |-> records[j], part |-> 2]
    BY <1>1, <2>1 DEF Carries
  <2>3. 2 * j <= Len(body) => 2 * j \in 1..Len(body) /\ 2 * j <= Len(whole)
    BY <1>2
  <2> QED
    BY <1>2, <2>1, <2>2, <2>3
<1> QED
  BY <1>3, <1>5, <1>6 DEF Carries

(* What is kept of a body is behind its last complete record,               *)
LEMMA RestIs ==
    ASSUME NEW body \in Seq(Parts), NEW records, NEW m, Carries(body, records, m),
           NEW p \in Nat, Len(body) \in {2 * p, 2 * p + 1}
    PROVE  Rest(body) = SubSeq(body, 2 * p + 1, Len(body))
<1>1. PICK l \in Nat : l = Len(body)
  OBVIOUS
<1>2. m \in Nat /\ l \in {2 * m - 1, 2 * m} /\ l \in {2 * p, 2 * p + 1} /\ p <= m /\ m <= p + 1
  BY <1>1 DEF Carries
<1>3. ASSUME NEW i \in 1..l, body[i].part = 2
      PROVE  i <= 2 * p
  <2>1. CASE i = 2 * p + 1
    <3>1. p + 1 \in 1..m /\ 2 * (p + 1) - 1 = i
      BY <1>2, <2>1
    <3>2. body[2 * (p + 1) - 1] = [record |-> records[p + 1], part |-> 1]
      BY <3>1 DEF Carries
    <3> QED
      BY <1>3, <3>1, <3>2
  <2>2. CASE i # 2 * p + 1
    BY <1>2, <2>2
  <2> QED
    BY <2>1, <2>2
<1>4. CASE p = 0
  <2>1. ~\E i \in 1..Len(body) : body[i].part = 2
    BY <1>1, <1>3, <1>4
  <2>2. Rest(body) = body
    BY <2>1 DEF Rest
  <2>3. SubSeq(body, 1, Len(body)) = body
    OBVIOUS
  <2> QED
    BY <1>4, <2>2, <2>3
<1>5. CASE p # 0
  <2>1. p \in 1..m /\ 2 * p \in 1..l /\ 2 * p <= Len(body)
    BY <1>1, <1>2, <1>5
  <2>2. body[2 * p] = [record |-> records[p], part |-> 2]
    <3>1. \A j \in 1..m : 2 * j <= Len(body) => body[2 * j] = [record |-> records[j], part |-> 2]
      BY DEF Carries
    <3> QED
      BY <2>1, <3>1
  <2>3. 2 * p \in {i \in 1..l : body[i].part = 2}
    BY <2>1, <2>2
  <2>4. Max({i \in 1..l : body[i].part = 2}) = 2 * p
    <3> DEFINE Ends == {i \in 1..l : body[i].part = 2}
    <3>1. 2 * p \in Ends /\ \A i \in Ends : i \in Nat /\ i <= 2 * p
      BY <1>3, <2>3
    <3> HIDE DEF Ends
    <3>2. Max(Ends) \in Ends /\ \A i \in Ends : Max(Ends) >= i
      BY <3>1 DEF Max
    <3>3. Max(Ends) = 2 * p
      BY <3>1, <3>2
    <3> QED
      BY <3>3 DEF Ends
  <2>5. Rest(body) = SubSeq(body, 1 + 2 * p, Len(body))
    BY <1>1, <2>3, <2>4 DEF Rest
  <2>6. 1 + 2 * p = 2 * p + 1
    OBVIOUS
  <2> QED
    BY <2>5, <2>6
<1> QED
  BY <1>4, <1>5

LEMMA BehindKept ==
    ASSUME NEW a \in Nat, NEW b \in Nat, NEW c \in Nat, NEW p \in Nat, a = b - 2 * p,
           NEW i \in 1..(a + c), i > a
    PROVE  \E j \in 1..c : i = a + j /\ 2 * p + i = b + j
<1>1. i - a \in 1..c /\ i = a + (i - a) /\ 2 * p + i = b + (i - a)
  OBVIOUS
<1> QED
  BY <1>1

Keeps(kept, body, p) ==
    /\ kept \in Seq(Parts) /\ Len(kept) \in Nat /\ Len(kept) = Len(body) - 2 * p
    /\ \A i \in 1..Len(kept) : kept[i] = body[2 * p + i]

LEMMA KeptIs ==
    ASSUME NEW body \in Seq(Parts), NEW p \in Nat, Len(body) \in {2 * p, 2 * p + 1}
    PROVE  Keeps(SubSeq(body, 2 * p + 1, Len(body)), body, p)
<1>1. PICK b \in Nat : b = Len(body)
  OBVIOUS
<1>2. CASE b = 2 * p
  <2>1. SubSeq(body, 2 * p + 1, Len(body)) = <<>>
    BY <1>1, <1>2
  <2>2. PICK kept : kept = <<>>
    OBVIOUS
  <2>3. kept \in Seq(Parts) /\ Len(kept) = 0
    BY <2>2
  <2>4. Keeps(kept, body, p)
    BY <1>1, <1>2, <2>3 DEF Keeps
  <2> QED
    BY <2>1, <2>2, <2>4
<1>3. CASE b = 2 * p + 1
  <2>1. PICK kept : kept = SubSeq(body, b, b)
    OBVIOUS
  <2>2. b \in 1..Len(body)
    BY <1>1, <1>3
  <2>3. kept \in Seq(Parts) /\ Len(kept) = 1 /\ kept[1] = body[b]
    BY <1>1, <2>1, <2>2
  <2>4. Keeps(kept, body, p)
    BY <1>1, <1>3, <2>3 DEF Keeps
  <2> QED
    BY <1>1, <1>3, <2>1, <2>4
<1> QED
  BY <1>1, <1>2, <1>3

(* and it and what follows carry the other records.                         *)
Later(more, first, p, n) == more = [j \in 0..(n - p) |-> first[j + p]]

LEMMA RestCarries ==
    ASSUME NEW body \in Seq(Parts), NEW left \in Seq(Parts), NEW records, NEW n,
           Carries(Joint(body, left), records, n),
           NEW p \in Nat, Len(body) \in {2 * p, 2 * p + 1}, NEW kept,
           Keeps(kept, body, p), NEW others, Later(others, records, p, n)
    PROVE  /\ n - p \in Nat
           /\ kept \in Seq(Parts) /\ Len(kept) = Len(body) - 2 * p
           /\ Carries(Joint(kept, left), others, n - p)
           /\ Len(Joint(kept, left)) = Len(Joint(body, left)) - 2 * p
<1>1. PICK whole \in Seq(Parts) : whole = Joint(body, left)
  BY JointTyped
<1>2. /\ Len(body) \in Nat /\ Len(left) \in Nat /\ Len(whole) = Len(body) + Len(left)
      /\ \A i \in 1..Len(body) : whole[i] = body[i]
      /\ \A i \in 1..Len(left) : whole[Len(body) + i] = left[i]
  <2>1. Joins(whole, body, left)
    BY <1>1, JointIs
  <2> QED
    BY <2>1 DEF Joins
<1>3. n \in Nat /\ Len(whole) \in {2 * n - 1, 2 * n} /\ p <= n
  <2>1. n \in Nat /\ Len(whole) \in {2 * n - 1, 2 * n}
    BY <1>1 DEF Carries
  <2> QED
    BY <1>2, <2>1
<1>4. /\ kept \in Seq(Parts) /\ Len(kept) \in Nat /\ Len(kept) = Len(body) - 2 * p
      /\ \A i \in 1..Len(kept) : kept[i] = body[2 * p + i]
  BY DEF Keeps
<1>5. PICK now \in Seq(Parts) : now = Joint(kept, left)
  BY <1>4, JointTyped
<1>6. /\ Len(now) = Len(kept) + Len(left)
      /\ \A i \in 1..Len(kept) : now[i] = kept[i]
      /\ \A i \in 1..Len(left) : now[Len(kept) + i] = left[i]
  <2>1. Joins(now, kept, left)
    BY <1>4, <1>5, JointIs
  <2> QED
    BY <2>1 DEF Joins
<1>7. Len(now) = Len(whole) - 2 * p
  BY <1>2, <1>4, <1>6
<1>8. ASSUME NEW i \in 1..Len(now)
      PROVE  now[i] = whole[2 * p + i]
  <2>1. CASE i <= Len(kept)
    <3>1. i \in 1..Len(kept) /\ 2 * p + i \in 1..Len(body)
      BY <1>2, <1>4, <2>1
    <3> QED
      BY <1>2, <1>4, <1>6, <3>1
  <2>2. CASE i > Len(kept)
    <3>1. /\ Len(kept) \in Nat /\ Len(body) \in Nat /\ Len(left) \in Nat
          /\ Len(kept) = Len(body) - 2 * p
      BY <1>2, <1>4
    <3>2. i \in 1..(Len(kept) + Len(left))
      BY <1>6
    <3>3. \E j \in 1..Len(left) : i = Len(kept) + j /\ 2 * p + i = Len(body) + j
      <4>1. PICK a \in Nat : a = Len(kept)
        BY <3>1
      <4>2. PICK b \in Nat : b = Len(body)
        BY <3>1
      <4>3. PICK c \in Nat : c = Len(left)
        BY <3>1
      <4>4. a = b - 2 * p /\ i \in 1..(a + c) /\ i > a
        BY <2>2, <3>1, <3>2, <4>1, <4>2, <4>3
      <4>5. \E j \in 1..c : i = a + j /\ 2 * p + i = b + j
        BY <4>4, BehindKept
      <4> QED
        BY <4>1, <4>2, <4>3, <4>5
    <3>4. PICK j \in 1..Len(left) : i = Len(kept) + j /\ 2 * p + i = Len(body) + j
      BY <3>3
    <3> QED
      BY <1>2, <1>6, <3>4
  <2> QED
    BY <1>2, <1>4, <2>1, <2>2
<1>9. ASSUME NEW j \in 1..(n - p)
      PROVE  /\ now[2 * j - 1] = [record |-> others[j], part |-> 1]
             /\ 2 * j <= Len(now) => now[2 * j] = [record |-> others[j], part |-> 2]
  <2>1. PICK k \in 1..n : k = j + p
    BY <1>3
  <2>2. /\ whole[2 * k - 1] = [record |-> records[k], part |-> 1]
        /\ 2 * k <= Len(whole) => whole[2 * k] = [record |-> records[k], part |-> 2]
    BY <1>1 DEF Carries
  <2>3. others[j] = records[k]
    BY <2>1 DEF Later
  <2>4. 2 * j - 1 \in 1..Len(now) /\ 2 * p + (2 * j - 1) = 2 * k - 1
    BY <1>2, <1>3, <1>7, <2>1
  <2>5. now[2 * j - 1] = whole[2 * k - 1]
    BY <1>8, <2>4
  <2>6. 2 * j <= Len(now) => now[2 * j] = whole[2 * k] /\ 2 * k <= Len(whole)
    <3> SUFFICES ASSUME 2 * j <= Len(now) PROVE now[2 * j] = whole[2 * k] /\ 2 * k <= Len(whole)
      OBVIOUS
    <3>1. 2 * j \in 1..Len(now) /\ 2 * p + 2 * j = 2 * k /\ 2 * k <= Len(whole)
      BY <1>2, <1>3, <1>7, <2>1
    <3>2. now[2 * j] = whole[2 * p + 2 * j]
      BY <1>8, <3>1
    <3> QED
      BY <3>1, <3>2
  <2> QED
    BY <2>2, <2>3, <2>5, <2>6
<1>10. n - p \in Nat /\ Len(now) \in {2 * (n - p) - 1, 2 * (n - p)}
  BY <1>2, <1>3, <1>7
<1>11. Carries(now, others, n - p)
  BY <1>9, <1>10 DEF Carries
<1> QED
  BY <1>1, <1>4, <1>5, <1>7, <1>10, <1>11

LEMMA StoryGoesOn ==
    ASSUME NEW records, NEW tale, NEW n, Story(records, tale, n), NEW p \in 0..n,
           NEW others, Later(others, records, p, n), NEW sequel, Later(sequel, tale, p, n)
    PROVE  Story(others, sequel, n - p) /\ sequel[0] = tale[p] /\ sequel[n - p] = tale[n]
<1>1. n \in Nat /\ n - p \in Nat
  BY DEF Story
<1>2. \A j \in 0..(n - p) : j + p \in 0..n /\ sequel[j] = tale[j + p]
  BY <1>1 DEF Later
<1>3. \A j \in 0..(n - p) : sequel[j] \in Told
  BY <1>2 DEF Story
<1>4. ASSUME NEW j \in 1..(n - p)
      PROVE  TellsMore(others[j], sequel[j - 1], sequel[j])
  <2>1. PICK k \in 1..n : k = j + p /\ k - 1 = (j - 1) + p
    BY <1>1
  <2>2. others[j] = records[k] /\ sequel[j - 1] = tale[k - 1] /\ sequel[j] = tale[k]
    BY <1>1, <2>1 DEF Later
  <2> QED
    BY <2>2 DEF Story
<1>5. ASSUME NEW i \in 0..(n - p), NEW j \in 0..(n - p), i <= j
      PROVE  Precedes(sequel[i], sequel[j])
  <2>1. i + p \in 0..n /\ j + p \in 0..n /\ i + p <= j + p
    BY <1>1, <1>5
  <2> QED
    BY <1>2, <2>1 DEF Story
<1>6. sequel[0] = tale[p] /\ sequel[n - p] = tale[n]
  BY <1>1 DEF Later
<1> QED
  BY <1>1, <1>3, <1>4, <1>5, <1>6 DEF Story

LEMMA StoryBegins ==
    ASSUME NEW records, NEW tale, NEW n, Story(records, tale, n), NEW m \in 0..n
    PROVE  Story(records, tale, m)
<1>1. n \in Nat /\ m \in Nat /\ (\A j \in 0..m : j \in 0..n) /\ (\A j \in 1..m : j \in 1..n)
  BY DEF Story
<1> QED
  BY <1>1 DEF Story

LEMMA WireIs ==
    ASSUME NEW record \in Records
    PROVE  /\ Wire(record) \in Seq(Parts) /\ Len(Wire(record)) = 2
           /\ Wire(record)[1] = [record |-> record, part |-> 1]
           /\ Wire(record)[2] = [record |-> record, part |-> 2]
<1>1. \A i \in 1..2 : [record |-> record, part |-> i] \in Parts
  BY DEF Parts
<1> QED
  BY <1>1 DEF Wire

(* One more record goes on the wire, and the story on.                      *)
LEMMA RecordFollows ==
    ASSUME NEW whole \in Seq(Parts), NEW records, NEW tale, NEW n,
           Carries(whole, records, n), Len(whole) = 2 * n, Story(records, tale, n),
           NEW record \in Records, NEW b \in Told, TellsMore(record, tale[n], b)
    PROVE  \E more, sequel : /\ Carries(Joint(whole, Wire(record)), more, n + 1)
                             /\ Len(Joint(whole, Wire(record))) = 2 * (n + 1)
                             /\ Story(more, sequel, n + 1)
                             /\ sequel[0] = tale[0] /\ sequel[n + 1] = b
<1>0. PICK more, sequel :
        /\ more = [j \in 1..(n + 1) |-> IF j = n + 1 THEN record ELSE records[j]]
        /\ sequel = [j \in 0..(n + 1) |-> IF j = n + 1 THEN b ELSE tale[j]]
  OBVIOUS
<1>1. n \in Nat
  BY DEF Carries
<1>2. PICK pair \in Seq(Parts) : /\ pair = Wire(record) /\ Len(pair) = 2
                                 /\ pair[1] = [record |-> record, part |-> 1]
                                 /\ pair[2] = [record |-> record, part |-> 2]
  BY WireIs
<1>3. PICK now : now = Joint(whole, pair)
  OBVIOUS
<1>4. Joins(now, whole, pair)
  BY <1>3, JointIs
<1>5. /\ Len(now) = 2 * (n + 1) /\ \A i \in 1..(2 * n) : now[i] = whole[i]
      /\ now[2 * n + 1] = pair[1] /\ now[2 * n + 2] = pair[2]
  <2>1. Len(now) = 2 * n + 2
    BY <1>1, <1>2, <1>4 DEF Joins
  <2>2. \A i \in 1..(2 * n) : now[i] = whole[i]
    BY <1>4 DEF Joins
  <2>3. now[Len(whole) + 1] = pair[1] /\ now[Len(whole) + 2] = pair[2]
    BY <1>2, <1>4 DEF Joins
  <2> QED
    BY <1>1, <2>1, <2>2, <2>3
<1>6. ASSUME NEW j \in 1..(n + 1)
      PROVE  /\ now[2 * j - 1] = [record |-> more[j], part |-> 1]
             /\ 2 * j <= Len(now) => now[2 * j] = [record |-> more[j], part |-> 2]
  <2>1. CASE j = n + 1
    <3>1. 2 * j - 1 = 2 * n + 1 /\ 2 * j = 2 * n + 2 /\ more[j] = record
      BY <1>0, <1>1, <2>1
    <3> QED
      BY <1>2, <1>5, <3>1
  <2>2. CASE j # n + 1
    <3>1. j \in 1..n /\ 2 * j - 1 \in 1..(2 * n) /\ 2 * j \in 1..(2 * n) /\ 2 * j <= Len(whole)
      BY <1>1, <2>2
    <3>2. more[j] = records[j]
      BY <1>0, <2>2
    <3>3. /\ whole[2 * j - 1] = [record |-> records[j], part |-> 1]
          /\ whole[2 * j] = [record |-> records[j], part |-> 2]
      BY <3>1 DEF Carries
    <3>4. now[2 * j - 1] = whole[2 * j - 1] /\ now[2 * j] = whole[2 * j]
      BY <1>5, <3>1
    <3> QED
      BY <3>2, <3>3, <3>4
  <2> QED
    BY <2>1, <2>2
<1>7. Carries(now, more, n + 1)
  BY <1>1, <1>5, <1>6 DEF Carries
<1>8. /\ \A j \in 0..n : sequel[j] = tale[j] /\ tale[j] \in Told
      /\ sequel[n + 1] = b /\ sequel[0] = tale[0]
  BY <1>0, <1>1 DEF Story
<1>9. \A j \in 0..(n + 1) : sequel[j] \in Told
  <2>1. \A j \in 0..(n + 1) : j \in 0..n \/ j = n + 1
    BY <1>1
  <2> QED
    BY <1>8, <2>1, Zenon
<1>10. ASSUME NEW j \in 1..(n + 1)
       PROVE  TellsMore(more[j], sequel[j - 1], sequel[j])
  <2>1. CASE j = n + 1
    <3>1. j - 1 = n /\ n \in 0..n /\ more[j] = record
      BY <1>0, <1>1, <2>1
    <3> QED
      BY <1>8, <2>1, <3>1
  <2>2. CASE j # n + 1
    <3>1. j \in 1..n /\ j - 1 \in 0..n /\ j \in 0..n /\ more[j] = records[j]
      BY <1>0, <1>1, <2>2
    <3>2. TellsMore(records[j], tale[j - 1], tale[j])
      BY <3>1 DEF Story
    <3> QED
      BY <1>8, <3>1, <3>2
  <2> QED
    BY <2>1, <2>2
<1>11. Precedes(tale[n], b) /\ Precedes(b, b)
  <2>1. tale[n] \in Told
    <3>1. n \in 0..n
      BY <1>1
    <3> QED
      BY <1>8, <3>1, Zenon
  <2> QED
    BY <2>1, MoreIsPreceded, PrecedesItself
<1>12. ASSUME NEW i \in 0..(n + 1), NEW j \in 0..(n + 1), i <= j
       PROVE  Precedes(sequel[i], sequel[j])
  <2>1. CASE j = n + 1 /\ i = n + 1
    BY <1>8, <1>11, <2>1
  <2>2. CASE j = n + 1 /\ i # n + 1
    <3>1. i \in 0..n /\ n \in 0..n /\ i <= n
      BY <1>1, <2>2
    <3>2. Precedes(tale[i], tale[n])
      BY <3>1 DEF Story
    <3>3. Precedes(tale[i], b)
      BY <1>8, <1>11, <3>1, <3>2, PrecedesOn
    <3> QED
      BY <1>8, <2>2, <3>1, <3>3
  <2>3. CASE j # n + 1
    <3>1. i \in 0..n /\ j \in 0..n
      BY <1>1, <1>12, <2>3
    <3>2. Precedes(tale[i], tale[j])
      BY <1>12, <3>1 DEF Story
    <3> QED
      BY <1>8, <3>1, <3>2
  <2> QED
    BY <2>1, <2>2, <2>3
<1>13. Story(more, sequel, n + 1)
  BY <1>1, <1>9, <1>10, <1>12 DEF Story
<1> QED
  BY <1>2, <1>3, <1>5, <1>7, <1>8, <1>13

(* The last record loses its end.                                           *)
LEMMA EndIsMissing ==
    ASSUME NEW body \in Seq(Parts), NEW left \in Seq(Parts), NEW records, NEW n,
           Carries(Joint(body, left), records, n), Len(Joint(body, left)) = 2 * n, Len(left) >= 1
    PROVE  /\ SubSeq(left, 1, Len(left) - 1) \in Seq(Parts)
           /\ Carries(Joint(body, SubSeq(left, 1, Len(left) - 1)), records, n)
<1>1. PICK whole \in Seq(Parts) : whole = Joint(body, left)
  BY JointTyped
<1>2. Joins(whole, body, left)
  BY <1>1, JointIs
<1>3. PICK l \in Nat : l = Len(left) - 1
  <2>1. Len(left) \in Nat
    OBVIOUS
  <2>2. Len(left) - 1 \in Nat
    BY <2>1
  <2> QED
    BY <2>2, Zenon
<1>4. PICK cut : cut = SubSeq(left, 1, l)
  OBVIOUS
<1>5. /\ cut \in Seq(Parts) /\ Len(cut) = l
      /\ \A i \in 1..l : cut[i] = left[i]
  <2>1. \A i \in 1..l : left[i] \in Parts
    BY <1>3
  <2>2. /\ SubSeq(left, 1, l) \in Seq(Parts)
        /\ Len(SubSeq(left, 1, l)) = IF 1 <= l THEN l - 1 + 1 ELSE 0
        /\ \A i \in 1..(l - 1 + 1) : SubSeq(left, 1, l)[i] = left[1 + i - 1]
    BY <2>1, SubSeqProperties
  <2>3. l - 1 + 1 = l /\ \A i \in 1..l : 1 + i - 1 = i
    OBVIOUS
  <2> QED
    BY <1>4, <2>2, <2>3
<1>6. PICK now : now = Joint(body, cut)
  OBVIOUS
<1>7. Joins(now, body, cut)
  BY <1>5, <1>6, JointIs
<1>8. n \in Nat /\ Len(whole) = 2 * n /\ Len(now) = 2 * n - 1
  <2>1. n \in Nat
    BY DEF Carries
  <2>2. Len(whole) = 2 * n
    BY <1>1
  <2>3. /\ Len(body) \in Nat /\ Len(left) \in Nat
        /\ Len(whole) = Len(body) + Len(left) /\ Len(now) = Len(body) + l
    BY <1>2, <1>5, <1>7 DEF Joins
  <2>4. Len(left) = l + 1
    BY <1>3, <2>3
  <2>5. Len(now) = 2 * n - 1
    BY <2>1, <2>2, <2>3, <2>4
  <2> QED
    BY <2>1, <2>2, <2>5
<1>9. ASSUME NEW i \in 1..Len(now)
      PROVE  now[i] = whole[i]
  <2>1. CASE i \in 1..Len(body)
    BY <1>2, <1>7, <2>1 DEF Joins
  <2>2. CASE i \notin 1..Len(body)
    <3>1. /\ Len(body) \in Nat /\ Len(now) = Len(body) + l /\ Len(left) = l + 1
      BY <1>2, <1>3, <1>5, <1>7 DEF Joins
    <3>2. PICK k \in 1..l : i = Len(body) + k
      <4>1. i - Len(body) \in 1..l /\ i = Len(body) + (i - Len(body))
        BY <2>2, <3>1
      <4> QED
        BY <4>1
    <3>3. k \in 1..Len(cut) /\ k \in 1..Len(left)
      BY <1>5, <3>1
    <3>4. now[Len(body) + k] = cut[k] /\ whole[Len(body) + k] = left[k]
      BY <1>2, <1>7, <3>3 DEF Joins
    <3> QED
      BY <1>5, <3>2, <3>4
  <2> QED
    BY <2>1, <2>2
<1>10. ASSUME NEW j \in 1..n
       PROVE  /\ now[2 * j - 1] = [record |-> records[j], part |-> 1]
              /\ 2 * j <= Len(now) => now[2 * j] = [record |-> records[j], part |-> 2]
  <2>1. /\ whole[2 * j - 1] = [record |-> records[j], part |-> 1]
        /\ 2 * j <= Len(whole) => whole[2 * j] = [record |-> records[j], part |-> 2]
    BY <1>1 DEF Carries
  <2>2. 2 * j - 1 \in 1..Len(now) /\ 2 * j <= Len(whole)
    BY <1>8
  <2>3. now[2 * j - 1] = whole[2 * j - 1]
    BY <1>9, <2>2
  <2>4. 2 * j <= Len(now) => now[2 * j] = whole[2 * j]
    <3>1. 2 * j <= Len(now) => 2 * j \in 1..Len(now)
      BY <1>8
    <3> QED
      BY <1>9, <3>1
  <2> QED
    BY <2>1, <2>2, <2>3, <2>4
<1>11. Carries(now, records, n)
  BY <1>8, <1>10 DEF Carries
<1> QED
  BY <1>3, <1>4, <1>5, <1>6, <1>11

(* A chunk is the beginning of what is written, and leaves the rest.        *)
LEMMA ChunkIsTaken ==
    ASSUME NEW parts \in Seq(Parts), NEW n \in 0..Len(parts)
    PROVE  /\ SubSeq(parts, 1, n) \in Seq(Parts)
           /\ SubSeq(parts, n + 1, Len(parts)) \in Seq(Parts)
           /\ Joint(SubSeq(parts, 1, n), SubSeq(parts, n + 1, Len(parts))) = parts
<1>1. /\ Len(parts) \in Nat /\ 1 \in 1..Len(parts) + 1 /\ n \in 1 - 1..Len(parts)
      /\ Len(parts) \in n..Len(parts) /\ n \in Int /\ n + 1 \in Int
  OBVIOUS
<1>2. (\A i \in 1..n : parts[i] \in Parts) /\ (\A i \in (n + 1)..Len(parts) : parts[i] \in Parts)
  OBVIOUS
<1>3. SubSeq(parts, 1, n) \in Seq(Parts) /\ SubSeq(parts, n + 1, Len(parts)) \in Seq(Parts)
  BY <1>1, <1>2, SubSeqProperties
<1>4. SubSeq(parts, 1, n) \o SubSeq(parts, n + 1, Len(parts)) = SubSeq(parts, 1, Len(parts))
  BY <1>1, ConcatAdjacentSubSeq
<1>5. SubSeq(parts, 1, Len(parts)) = parts
  BY SubSeqFull
<1> QED
  BY <1>3, <1>4, <1>5 DEF Joint

-----------------------------------------------------------------------------
(* The inductive invariant: the types; what the answer is before it starts; *)
(* what is not rewritten goes on as it is; and of an answer that is, what   *)
(* the wrapper holds and what is written carry records that tell how the    *)
(* view becomes that of what ADK said.                                      *)
EndedKeys == {k \in Keys : ~Open(k[1])}

Types ==
    /\ route \in Routes /\ client \in {"asking", "waiting", "gone"}
    /\ phase \in {"reading", "called", "answering", "over"}
    /\ session \in BOOLEAN /\ replayed \in BOOLEAN /\ length \in BOOLEAN
    /\ listener \in {"off", "running", "waiting"} /\ media \in Media \cup {"none"}
    /\ said \in [Keys -> Seq(Pieces)] /\ view \in Views
    /\ ended \subseteq Messages \cup {"stream", "finished"}
    /\ bytes \in Seq(Parts) /\ wire \in Seq(Parts)

Starts ==
    /\ media = "none" <=> phase \in {"reading", "called"}
    /\ media = "none" => /\ listener = "off" /\ ~length
                         /\ said = Nothing /\ ended = {} /\ wire = <<>> /\ bytes = <<>>
                         /\ view = NoView
    /\ listener # "off" => media = "stream"
    /\ "finished" \in ended => "stream" \in ended

AsItIs ==
    /\ ~Rewrites(media) => bytes = <<>> /\ view.held = Nothing
    /\ length => media \notin {"none", "stream"} /\ ~Rewrites(media)
    /\ length /\ phase = "over" => view.shown = said

TellsAnswer(records, tale, n) ==
    /\ Carries(Joint(bytes, wire), records, n) /\ Story(records, tale, n)
    /\ view = ViewOf(tale[0])
    /\ tale[n].said = said /\ tale[n].over \subseteq EndedKeys
    /\ Len(Joint(bytes, wire)) = 2 * n \/ "finished" \in ended

Telling ==
    Rewrites(media) =>
        /\ \E records, tale, n : TellsAnswer(records, tale, n)
        /\ media = "stream" => Len(bytes) <= 1

IInv == Types /\ Starts /\ AsItIs /\ Telling

LEMMA NothingIsTyped ==
    /\ Nothing \in [Keys -> Seq(Pieces)] /\ NoView \in Views
    /\ \E a \in Told : a.said = Nothing /\ a.over = {} /\ ViewOf(a) = NoView
<1>1. <<>> \in Seq(Pieces) /\ <<>> \in Seq(Expansions)
  OBVIOUS
<1>2. Nothing \in [Keys -> Seq(Pieces)] /\ Nothing \in [Keys -> Seq(Expansions)]
  BY <1>1 DEF Nothing
<1>3. NoView \in Views
  BY <1>2 DEF NoView, Views
<1>4. PICK a : a = [said |-> Nothing, over |-> {}]
  OBVIOUS
<1>5. a \in Told /\ a.said = Nothing /\ a.over = {}
  BY <1>2, <1>4 DEF Told
<1>6. Whole(<<>>) = <<>> /\ Held(<<>>) = <<>>
  <2>1. PICK none \in Seq(Pieces) : none = <<>>
    BY <1>1
  <2>2. /\ Whole(none) \in Seq(Pieces) /\ Held(none) \in Seq(Pieces)
        /\ Len(Held(none)) = Unfinished(none) /\ Len(Whole(none)) = Len(none) - Unfinished(none)
        /\ Unfinished(none) \in 0..2 /\ Unfinished(none) <= Len(none) /\ Len(none) = 0
    BY <2>1, WholeAndHeld, UnfinishedIs
  <2>3. Unfinished(none) = 0
    BY <2>2
  <2>4. Len(Held(none)) = 0 /\ Len(Whole(none)) = 0
    BY <2>2, <2>3
  <2>5. Held(none) = <<>> /\ Whole(none) = <<>>
    BY <2>2, <2>4
  <2> QED
    BY <2>1, <2>5
<1>7. ASSUME NEW k \in Keys
      PROVE  /\ (IF k \in a.over THEN <<>> ELSE Held(a.said[k])) = <<>>
             /\ (IF k \in a.over THEN Expanded(a.said[k]) ELSE Expanded(Whole(a.said[k]))) = <<>>
  <2>1. a.said[k] = <<>> /\ k \notin a.over
    BY <1>5 DEF Nothing
  <2> QED
    BY <1>6, <2>1, ExpandNone
<1>8. ViewOf(a) = NoView
  BY <1>5, <1>7 DEF ViewOf, NoView, Nothing
<1> QED
  BY <1>2, <1>3, <1>5, <1>8

(* An answer that is rewritten starts with a story of nothing.              *)
LEMMA TaleBegins ==
    ASSUME bytes = <<>>, wire = <<>>, said = Nothing, view = NoView
    PROVE  \E records, tale, n : TellsAnswer(records, tale, n)
<1>1. PICK a \in Told : a.said = Nothing /\ a.over = {} /\ ViewOf(a) = NoView
  BY NothingIsTyped
<1>2. PICK tale : tale = [j \in 0..0 |-> a]
  OBVIOUS
<1>3. Precedes(a, a)
  BY PrecedesItself
<1>4. Story(<<>>, tale, 0)
  <2>1. \A j \in 0..0 : tale[j] = a
    BY <1>2
  <2> QED
    BY <1>3, <2>1 DEF Story
<1>5. Joint(bytes, wire) = <<>>
  BY DEF Joint
<1>6. Carries(Joint(bytes, wire), <<>>, 0) /\ Len(Joint(bytes, wire)) = 2 * 0
  BY <1>5 DEF Carries
<1>7. tale[0] = a
  BY <1>2
<1>8. TellsAnswer(<<>>, tale, 0)
  BY <1>1, <1>4, <1>6, <1>7 DEF TellsAnswer
<1> QED
  BY <1>8

LEMMA InitKeeps == Init => IInv
<1> SUFFICES ASSUME Init PROVE IInv
  OBVIOUS
<1>1. Types
  <2>1. session \in BOOLEAN /\ replayed \in BOOLEAN /\ length \in BOOLEAN
    BY Zenon DEF Init
  <2>2. /\ route \in Routes /\ client = "asking" /\ phase \in {"reading", "called"}
        /\ listener = "off" /\ media = "none"
    BY DEF Init
  <2>3. said \in [Keys -> Seq(Pieces)] /\ view \in Views
    BY NothingIsTyped DEF Init
  <2>4. ended = {} /\ bytes \in Seq(Parts) /\ wire \in Seq(Parts)
    BY DEF Init
  <2> QED
    BY <2>1, <2>2, <2>3, <2>4 DEF Types
<1>2. Starts
  BY DEF Init, Starts
<1>3. ~Rewrites(media)
  BY DEF Init, Rewrites
<1>4. AsItIs
  BY <1>3 DEF Init, AsItIs, NoView
<1> QED
  BY <1>1, <1>2, <1>3, <1>4 DEF IInv, Telling

(* What the client and the request do leaves the answer as it is.           *)
LEMMA AnswerStays ==
    ASSUME IInv, UNCHANGED answer, session' = session \/ media = "none",
           session' \in BOOLEAN, replayed' \in BOOLEAN, route' \in Routes,
           client' \in {"asking", "waiting", "gone"},
           listener' \in {"off", "running", "waiting"}, listener' = "off" \/ listener' = listener
               \/ media = "stream",
           phase' \in {"reading", "called", "answering", "over"},
           phase' \in {"reading", "called"} <=> phase \in {"reading", "called"},
           phase' = phase \/ phase' # "over" \/ media = "stream"
    PROVE  IInv'
<1>1. /\ media' = media /\ length' = length /\ said' = said /\ ended' = ended
      /\ wire' = wire /\ bytes' = bytes /\ view' = view
  BY DEF answer
<1>2. Types /\ Starts /\ AsItIs /\ Telling
  BY DEF IInv
<1>3. Types'
  BY <1>1, <1>2 DEF Types
<1>4. Starts'
  BY <1>1, <1>2 DEF Starts
<1>5. Rewrites(media)' <=> Rewrites(media)
  BY <1>1 DEF Rewrites
<1>6. AsItIs'
  BY <1>1, <1>2, <1>5 DEF AsItIs
<1>7. Telling'
  <2>1. EndedKeys' = EndedKeys
    BY <1>1 DEF EndedKeys, Open
  <2>2. \A records, tale, n : TellsAnswer(records, tale, n) => TellsAnswer(records, tale, n)'
    BY <1>1, <2>1 DEF TellsAnswer
  <2> QED
    BY <1>1, <1>2, <1>5, <2>2 DEF Telling
<1> QED
  BY <1>3, <1>4, <1>6, <1>7 DEF IInv

LEMMA AskKeeps ==
    ASSUME IInv, ClientSends \/ ClientLeaves \/ ReadBody \/ Listen \/ Cancel
    PROVE  IInv'
<1>1. Types /\ Starts
  BY DEF IInv
<1>2. CASE ClientSends \/ ClientLeaves
  <2>1. /\ UNCHANGED answer /\ session' = session /\ replayed' = replayed /\ route' = route
        /\ listener' = listener /\ phase' = phase /\ client' \in {"asking", "waiting", "gone"}
    BY <1>2 DEF ClientSends, ClientLeaves
  <2> QED
    BY <1>1, <2>1, AnswerStays DEF Types
<1>3. CASE ReadBody
  <2>1. /\ UNCHANGED answer /\ replayed' = replayed /\ route' = route /\ client' = client
        /\ listener' = listener /\ phase = "reading" /\ phase' = "called"
    BY <1>3 DEF ReadBody
  <2>2. session' \in BOOLEAN
    BY <1>3, Zenon DEF ReadBody
  <2>3. media = "none"
    BY <1>1, <2>1 DEF Starts
  <2> QED
    BY <1>1, <2>1, <2>2, <2>3, AnswerStays DEF Types
<1>4. CASE Listen
  <2>1. /\ UNCHANGED answer /\ session' = session /\ route' = route /\ client' = client
        /\ phase' = phase /\ listener = "running" /\ listener' \in {"running", "waiting"}
    BY <1>4 DEF Listen
  <2>2. replayed' \in BOOLEAN
    <3>1. (route \in RunRoutes) \in BOOLEAN
      OBVIOUS
    <3>2. replayed' = (route \in RunRoutes)
      BY <1>4, Zenon DEF Listen
    <3> QED
      BY <3>1, <3>2, Zenon
  <2>3. media = "stream"
    BY <1>1, <2>1 DEF Starts
  <2> QED
    BY <1>1, <2>1, <2>2, <2>3, AnswerStays DEF Types
<1>5. CASE Cancel
  <2>1. /\ UNCHANGED answer /\ session' = session /\ replayed' = replayed /\ route' = route
        /\ client' = client /\ listener = "waiting" /\ listener' = "off" /\ phase' = "over"
    BY <1>5 DEF Cancel
  <2>2. media = "stream"
    BY <1>1, <2>1 DEF Starts
  <2>3. phase \notin {"reading", "called"}
    BY <1>1, <2>2 DEF Starts
  <2> QED
    BY <1>1, <2>1, <2>2, <2>3, AnswerStays DEF Types
<1> QED
  BY <1>2, <1>3, <1>4, <1>5

LEMMA StartKeeps ==
    ASSUME IInv, NEW m \in Media, StartAnswer(m)
    PROVE  IInv'
<1>1. Types /\ Starts
  BY DEF IInv
<1>2. /\ phase = "called" /\ media' = m /\ phase' = "answering" /\ length' = KeepsLength(m)
      /\ UNCHANGED <<route, client, session, said, ended, wire, bytes, view>>
      /\ listener' = IF m = "stream" THEN "running" ELSE "off"
  BY DEF StartAnswer
<1>3. replayed' \in BOOLEAN
  <2>1. (route \in RunRoutes) \in BOOLEAN
    OBVIOUS
  <2>2. replayed' = (route \in RunRoutes)
    BY Zenon DEF StartAnswer
  <2> QED
    BY <2>1, <2>2, Zenon
<1>4. media = "none" /\ m # "none"
  <2>1. phase \in {"reading", "called"}
    BY <1>2
  <2>2. m \in {"stream", "json", "encoded json"}
    BY DEF Media
  <2> QED
    BY <1>1, <2>1, <2>2 DEF Starts
<1>5. said = Nothing /\ ended = {} /\ wire = <<>> /\ bytes = <<>> /\ view = NoView
  BY <1>1, <1>4 DEF Starts
<1>6. length' \in BOOLEAN /\ (length' => m # "stream" /\ ~Rewrites(m))
  BY <1>2, Zenon DEF KeepsLength
<1>7. Rewrites(media)' <=> Rewrites(m)
  BY <1>2 DEF Rewrites
<1>8. Types'
  BY <1>1, <1>2, <1>3, <1>6 DEF Types
<1>9. Starts'
  BY <1>2, <1>4, <1>5 DEF Starts
<1>10. AsItIs'
  BY <1>2, <1>4, <1>5, <1>6, <1>7 DEF AsItIs, NoView
<1>11. Telling'
  <2>1. bytes' = <<>> /\ wire' = <<>> /\ said' = Nothing /\ view' = NoView
    BY <1>2, <1>5
  <2>2. (bytes = <<>> /\ wire = <<>> /\ said = Nothing /\ view = NoView
            => \E records, tale, n : TellsAnswer(records, tale, n))'
    BY TaleBegins, PTL
  <2>3. (\E records, tale, n : TellsAnswer(records, tale, n))'
    BY <2>1, <2>2
  <2>4. Len(bytes') <= 1
    BY <2>1
  <2> QED
    BY <2>3, <2>4 DEF Telling
<1> QED
  BY <1>8, <1>9, <1>10, <1>11 DEF IInv

(* A record is written: the story goes on with what it tells.               *)
Follows(record) ==
    \A a \in Told : a.said = said /\ a.over \subseteq EndedKeys =>
        \E b \in Told : TellsMore(record, a, b) /\ b.said = said' /\ b.over \subseteq EndedKeys'

Says ==
    \E a, l, more \in Told :
        /\ view = ViewOf(a) /\ view' = view /\ l.said = said /\ more.said = said'
        /\ Precedes(a, l) /\ Precedes(l, more)

LEMMA EmitKeeps ==
    ASSUME IInv, NEW record \in Records, Emit(record), "stream" \notin ended,
           said' \in [Keys -> Seq(Pieces)],
           ended \subseteq ended', ended' \subseteq Messages \cup {"stream", "finished"},
           "finished" \notin ended', Follows(record)
    PROVE  IInv' /\ (Rewrites(media) => Says)
<1>1. Types /\ Starts /\ AsItIs /\ Telling
  BY DEF IInv
<1>2. /\ phase = "answering" /\ wire' = wire \o Wire(record)
      /\ UNCHANGED <<route, client, phase, session, replayed, listener>>
      /\ UNCHANGED <<media, length, bytes, view>>
  BY DEF Emit, Answering, asked
<1>3. media # "none" /\ "finished" \notin ended
  BY <1>1, <1>2 DEF Starts
<1>4. Rewrites(media)' <=> Rewrites(media)
  BY <1>2 DEF Rewrites
<1>5. /\ Wire(record) \in Seq(Parts) /\ wire \in Seq(Parts) /\ bytes \in Seq(Parts)
      /\ wire' = Joint(wire, Wire(record))
  BY <1>1, <1>2, WireIs DEF Types, Joint
<1>6. Types'
  <2>1. wire' \in Seq(Parts)
    BY <1>5, JointTyped
  <2> QED
    BY <1>1, <1>2, <2>1 DEF Types
<1>7. Starts'
  BY <1>1, <1>2, <1>3 DEF Starts
<1>8. AsItIs'
  BY <1>1, <1>2, <1>4 DEF AsItIs
<1>9. ASSUME Rewrites(media)
      PROVE  (\E records, tale, n : TellsAnswer(records, tale, n)') /\ Says
  <2>1. PICK records, tale, n : TellsAnswer(records, tale, n)
    BY <1>1, <1>9 DEF Telling
  <2>2. PICK whole \in Seq(Parts) : whole = Joint(bytes, wire)
    BY <1>5, JointTyped
  <2>3. /\ Carries(whole, records, n) /\ Story(records, tale, n) /\ Len(whole) = 2 * n
        /\ view = ViewOf(tale[0]) /\ tale[n].said = said /\ tale[n].over \subseteq EndedKeys
    BY <1>3, <2>1, <2>2 DEF TellsAnswer
  <2>4. tale[0] \in Told /\ tale[n] \in Told /\ Precedes(tale[0], tale[n])
    <3>1. n \in Nat
      BY <2>3 DEF Story
    <3>2. 0 \in 0..n /\ n \in 0..n /\ 0 <= n
      BY <3>1
    <3> QED
      BY <2>3, <3>2 DEF Story
  <2>5. PICK b \in Told : /\ TellsMore(record, tale[n], b)
                          /\ b.said = said' /\ b.over \subseteq EndedKeys'
    BY <2>3, <2>4 DEF Follows
  <2>6. PICK more, sequel :
          /\ Carries(Joint(whole, Wire(record)), more, n + 1)
          /\ Len(Joint(whole, Wire(record))) = 2 * (n + 1)
          /\ Story(more, sequel, n + 1)
          /\ sequel[0] = tale[0] /\ sequel[n + 1] = b
    BY <2>3, <2>5, RecordFollows
  <2>7. Joint(bytes', wire') = Joint(whole, Wire(record))
    BY <1>2, <1>5, <2>2, JointTwice
  <2>8. TellsAnswer(more, sequel, n + 1)'
    BY <1>2, <2>3, <2>5, <2>6, <2>7 DEF TellsAnswer
  <2>9. Precedes(tale[n], b)
    BY <2>4, <2>5, MoreIsPreceded
  <2>10. Says
    BY <1>2, <2>3, <2>4, <2>5, <2>9 DEF Says
  <2> QED
    BY <2>8, <2>10
<1>10. Telling'
  BY <1>1, <1>2, <1>4, <1>9 DEF Telling
<1> QED
  BY <1>6, <1>7, <1>8, <1>9, <1>10 DEF IInv

(* What an event tells, of what is told so far.                             *)
LEMMA PartialFollows ==
    ASSUME IInv, NEW k \in Keys, NEW delta \in Seq(Pieces), Open(k[1]),
           said' = [said EXCEPT ![k] = @ \o delta], ended' = ended
    PROVE  /\ said' \in [Keys -> Seq(Pieces)]
           /\ Partial(k, delta) \in Records /\ Follows(Partial(k, delta))
<1>1. said \in [Keys -> Seq(Pieces)]
  BY DEF IInv, Types
<1>2. said' = [said EXCEPT ![k] = Joint(said[k], delta)]
  BY DEF Joint
<1>3. Joint(said[k], delta) \in Seq(Pieces)
  BY <1>1, JointTyped
<1>4. said' \in [Keys -> Seq(Pieces)]
  BY <1>1, <1>2, <1>3
<1>5. Partial(k, delta) \in Records
  BY DEF Records
<1>6. ASSUME NEW a \in Told, a.said = said, a.over \subseteq EndedKeys
      PROVE  \E b \in Told : /\ TellsMore(Partial(k, delta), a, b)
                             /\ b.said = said' /\ b.over \subseteq EndedKeys'
  <2>1. PICK b : b = [said |-> said', over |-> a.over]
    OBVIOUS
  <2>2. b \in Told /\ b.said = said' /\ b.over = a.over
    BY <1>4, <2>1 DEF Told
  <2>3. EndedKeys' = EndedKeys /\ k \notin EndedKeys
    BY DEF EndedKeys, Open
  <2>4. k \in Keys \ a.over
    BY <1>6, <2>3
  <2>5. b.said = [a.said EXCEPT ![k] = Joint(a.said[k], delta)]
    BY <1>2, <1>6, <2>2
  <2>6. TellsDelta(Partial(k, delta), a, b)
    BY <2>2, <2>4, <2>5 DEF TellsDelta
  <2> QED
    BY <1>6, <2>2, <2>3, <2>6 DEF TellsMore
<1> QED
  BY <1>4, <1>5, <1>6 DEF Follows

LEMMA FinalFollows ==
    ASSUME IInv, NEW m \in Messages, Open(m), ended' = ended \cup {m},
           \/ said' = said
           \/ \E reply \in Replies : /\ said[<<m, "answer">>] = <<>>
                                     /\ said' = [said EXCEPT ![<<m, "answer">>] = reply]
    PROVE  /\ said' \in [Keys -> Seq(Pieces)]
           /\ Final(m, said') \in Records /\ Follows(Final(m, said'))
<1>1. said \in [Keys -> Seq(Pieces)]
  BY DEF IInv, Types
<1>2. <<m, "answer">> \in OfMessage(m) /\ OfMessage(m) \subseteq Keys
  BY DEF OfMessage, Channels, Keys
<1>3. \A k \in Keys : Begins(said[k], said[k])
  BY <1>1, BeginsItself
<1>4. /\ said' \in [Keys -> Seq(Pieces)]
      /\ \A k \in Keys : Begins(said[k], said'[k]) /\ (k \notin OfMessage(m) => said'[k] = said[k])
  <2>1. CASE said' = said
    BY <1>1, <1>3, <2>1
  <2>2. CASE \E reply \in Replies : /\ said[<<m, "answer">>] = <<>>
                                    /\ said' = [said EXCEPT ![<<m, "answer">>] = reply]
    <3>1. PICK reply \in Replies : /\ said[<<m, "answer">>] = <<>>
                                   /\ said' = [said EXCEPT ![<<m, "answer">>] = reply]
      BY <2>2
    <3>2. reply \in Seq(Pieces)
      BY DeltasAssumption
    <3>3. Begins(<<>>, reply)
      BY <3>2, BeginsItself
    <3>4. said' \in [Keys -> Seq(Pieces)] /\ said'[<<m, "answer">>] = reply
      BY <1>1, <1>2, <3>1, <3>2
    <3>5. \A k \in Keys : k # <<m, "answer">> => said'[k] = said[k]
      BY <1>1, <3>1
    <3>6. ASSUME NEW k \in Keys
          PROVE  Begins(said[k], said'[k]) /\ (k \notin OfMessage(m) => said'[k] = said[k])
      <4>1. CASE k = <<m, "answer">>
        BY <1>2, <3>1, <3>3, <3>4, <4>1
      <4>2. CASE k # <<m, "answer">>
        BY <1>3, <3>5, <4>2
      <4> QED
        BY <4>1, <4>2
    <3> QED
      BY <3>4, <3>6
  <2> QED
    BY <2>1, <2>2
<1>5. Final(m, said') \in Records
  BY <1>4 DEF Records
<1>6. ASSUME NEW a \in Told, a.said = said, a.over \subseteq EndedKeys
      PROVE  \E b \in Told : /\ TellsMore(Final(m, said'), a, b)
                             /\ b.said = said' /\ b.over \subseteq EndedKeys'
  <2>1. PICK b : b = [said |-> said', over |-> a.over \cup OfMessage(m)]
    OBVIOUS
  <2>2. b \in Told /\ b.said = said' /\ b.over = a.over \cup OfMessage(m)
    BY <1>2, <1>4, <2>1 DEF Told
  <2>3. EndedKeys \subseteq EndedKeys' /\ OfMessage(m) \subseteq EndedKeys'
    BY <1>2 DEF EndedKeys, Open, OfMessage
  <2>4. \A k \in OfMessage(m) : k \notin EndedKeys
    BY DEF EndedKeys, OfMessage
  <2>5. \A k \in Keys : IF k \in OfMessage(m) \ a.over THEN Begins(a.said[k], b.said[k])
                        ELSE b.said[k] = a.said[k]
    BY <1>4, <1>6, <2>2, <2>4
  <2>6. TellsEnd(Final(m, said'), a, b)
    BY <2>2, <2>5 DEF TellsEnd
  <2> QED
    BY <1>6, <2>2, <2>3, <2>6 DEF TellsMore
<1> QED
  BY <1>4, <1>5, <1>6 DEF Follows

LEMMA NoTextFollows ==
    ASSUME IInv, NEW m \in Messages, ended' = ended \cup {m}, said' = said
    PROVE  FinalWithoutText(m) \in Records /\ Follows(FinalWithoutText(m))
<1>1. FinalWithoutText(m) \in Records
  BY DEF Records
<1>2. OfMessage(m) \subseteq Keys
  BY DEF OfMessage, Keys
<1>3. ASSUME NEW a \in Told, a.said = said, a.over \subseteq EndedKeys
      PROVE  \E b \in Told : /\ TellsMore(FinalWithoutText(m), a, b)
                             /\ b.said = said' /\ b.over \subseteq EndedKeys'
  <2>1. PICK b : b = [said |-> a.said, over |-> a.over \cup OfMessage(m)]
    OBVIOUS
  <2>2. b \in Told /\ b.said = said' /\ b.over = a.over \cup OfMessage(m)
    BY <1>2, <1>3, <2>1 DEF Told
  <2>3. EndedKeys \subseteq EndedKeys' /\ OfMessage(m) \subseteq EndedKeys'
    BY <1>2 DEF EndedKeys, Open, OfMessage
  <2>4. TellsNoText(FinalWithoutText(m), a, b)
    BY <2>1 DEF TellsNoText
  <2> QED
    BY <1>3, <2>2, <2>3, <2>4 DEF TellsMore
<1> QED
  BY <1>1, <1>3 DEF Follows

LEMMA MarkFollows ==
    ASSUME IInv, said' = said
    PROVE  /\ Done \in Records /\ Comment \in Records
           /\ ended' = ended => Follows(Comment)
           /\ ended' = ended \cup {"stream"} => Follows(Done)
<1>1. Done \in Records /\ Comment \in Records
  BY DEF Records
<1>2. ASSUME ended' = ended
      PROVE  Follows(Comment)
  <2>1. EndedKeys' = EndedKeys
    BY <1>2 DEF EndedKeys, Open
  <2> QED
    BY <2>1 DEF Follows, TellsMore
<1>3. ASSUME ended' = ended \cup {"stream"}
      PROVE  Follows(Done)
  <2>1. EndedKeys' = Keys
    BY <1>3 DEF EndedKeys, Open
  <2>2. ASSUME NEW a \in Told, a.said = said
        PROVE  All(a) \in Told /\ All(a).said = said' /\ All(a).over \subseteq EndedKeys'
    BY <2>1, <2>2, PrecedesItself DEF All
  <2> QED
    BY <2>2 DEF Follows, TellsMore
<1> QED
  BY <1>1, <1>2, <1>3

LEMMA EventKeeps ==
    ASSUME IInv, EmitEvent
    PROVE  IInv' /\ (Rewrites(media) => Says)
<1>1. Types /\ Starts
  BY DEF IInv
<1>2. said \in [Keys -> Seq(Pieces)] /\ ended \subseteq Messages \cup {"stream", "finished"}
      /\ ("finished" \in ended => "stream" \in ended)
  BY <1>1 DEF Types, Starts
<1>3. CASE \E k \in Keys, delta \in Deltas : EmitPartial(k, delta)
  <2>1. PICK k \in Keys, delta \in Deltas : EmitPartial(k, delta)
    BY <1>3
  <2>2. /\ Open(k[1]) /\ said' = [said EXCEPT ![k] = @ \o delta] /\ ended' = ended
        /\ Emit(Partial(k, delta))
    BY <2>1 DEF EmitPartial
  <2>3. delta \in Seq(Pieces)
    BY DeltasAssumption
  <2>4. "stream" \notin ended
    BY <2>2 DEF Open
  <2>5. /\ said' \in [Keys -> Seq(Pieces)]
        /\ Partial(k, delta) \in Records /\ Follows(Partial(k, delta))
    BY <2>2, <2>3, PartialFollows
  <2> QED
    BY <1>2, <2>2, <2>4, <2>5, EmitKeeps
<1>4. CASE \E m \in Messages : EmitFinal(m)
  <2>1. PICK m \in Messages : EmitFinal(m)
    BY <1>4
  <2>2. /\ Open(m) /\ ended' = ended \cup {m} /\ Emit(Final(m, said'))
        /\ IF \E c \in Channels : said[<<m, c>>] # <<>> THEN UNCHANGED said
           ELSE \E reply \in Replies :
                    Room(reply) /\ said' = [said EXCEPT ![<<m, "answer">>] = reply]
    BY <2>1 DEF EmitFinal
  <2>3. \/ said' = said
        \/ \E reply \in Replies : /\ said[<<m, "answer">>] = <<>>
                                  /\ said' = [said EXCEPT ![<<m, "answer">>] = reply]
    <3>1. "answer" \in Channels
      BY DEF Channels
    <3> QED
      BY <2>2, <3>1
  <2>4. "stream" \notin ended /\ "finished" \notin ended' /\ ended \subseteq ended'
        /\ ended' \subseteq Messages \cup {"stream", "finished"}
    BY <1>2, <2>2, MessagesAssumption DEF Open
  <2>5. /\ said' \in [Keys -> Seq(Pieces)]
        /\ Final(m, said') \in Records /\ Follows(Final(m, said'))
    BY <2>2, <2>3, FinalFollows
  <2> QED
    BY <2>2, <2>4, <2>5, EmitKeeps
<1>5. CASE \E m \in Messages : EmitFinalWithoutText(m)
  <2>1. PICK m \in Messages : EmitFinalWithoutText(m)
    BY <1>5
  <2>2. Open(m) /\ ended' = ended \cup {m} /\ said' = said /\ Emit(FinalWithoutText(m))
    BY <2>1 DEF EmitFinalWithoutText
  <2>3. "stream" \notin ended /\ "finished" \notin ended' /\ ended \subseteq ended'
        /\ ended' \subseteq Messages \cup {"stream", "finished"}
    BY <1>2, <2>2, MessagesAssumption DEF Open
  <2>4. FinalWithoutText(m) \in Records /\ Follows(FinalWithoutText(m))
    BY <2>2, NoTextFollows
  <2> QED
    BY <1>2, <2>2, <2>3, <2>4, EmitKeeps
<1>6. CASE EmitComment
  <2>1. "stream" \notin ended /\ ended' = ended /\ said' = said /\ Emit(Comment)
    BY <1>6 DEF EmitComment
  <2>2. Comment \in Records /\ Follows(Comment)
    BY <2>1, MarkFollows
  <2> QED
    BY <1>2, <2>1, <2>2, EmitKeeps
<1>7. CASE EmitDone
  <2>1. "stream" \notin ended /\ ended' = ended \cup {"stream"} /\ said' = said /\ Emit(Done)
    BY <1>7 DEF EmitDone
  <2>2. Done \in Records /\ Follows(Done)
    BY <2>1, MarkFollows
  <2>3. "finished" \notin ended' /\ ended \subseteq ended'
        /\ ended' \subseteq Messages \cup {"stream", "finished"}
    BY <1>2, <2>1
  <2> QED
    BY <1>2, <2>1, <2>2, <2>3, EmitKeeps
<1> QED
  BY <1>3, <1>4, <1>5, <1>6, <1>7 DEF EmitEvent

LEMMA EndKeeps ==
    ASSUME IInv, NEW missing \in 0..1, FinishAnswer(missing)
    PROVE  IInv'
<1>1. Types /\ Starts /\ AsItIs /\ Telling
  BY DEF IInv
<1>2. /\ phase = "answering" /\ "finished" \notin ended
      /\ ended' = ended \cup {"stream", "finished"}
      /\ missing > 0 => missing <= Len(wire)
      /\ wire' = SubSeq(wire, 1, Len(wire) - missing)
      /\ UNCHANGED <<route, client, phase, session, replayed, listener>>
      /\ UNCHANGED <<media, length, said, bytes, view>>
  BY DEF FinishAnswer, Answering, asked
<1>3. media # "none"
  BY <1>1, <1>2 DEF Starts
<1>4. wire \in Seq(Parts) /\ bytes \in Seq(Parts) /\ Len(wire) \in Nat
  BY <1>1 DEF Types
<1>5. CASE missing = 0
  <2>1. wire' = wire
    <3>1. Len(wire) - missing = Len(wire)
      BY <1>4, <1>5
    <3> QED
      BY <1>2, <1>4, <3>1, SubSeqFull
  <2>2. Types'
    BY <1>1, <1>2, <2>1 DEF Types
  <2>3. EndedKeys \subseteq EndedKeys'
    BY <1>2 DEF EndedKeys, Open
  <2>4. \A records, tale, n : TellsAnswer(records, tale, n) => TellsAnswer(records, tale, n)'
    BY <1>2, <2>1, <2>3 DEF TellsAnswer
  <2>5. Telling'
    BY <1>1, <1>2, <2>4 DEF Telling, Rewrites
  <2>6. Starts' /\ AsItIs'
    BY <1>1, <1>2, <1>3, <2>1 DEF Starts, AsItIs, Rewrites
  <2> QED
    BY <2>2, <2>5, <2>6 DEF IInv
<1>6. CASE missing = 1
  <2>1. wire' = SubSeq(wire, 1, Len(wire) - 1) /\ Len(wire) >= 1
    BY <1>2, <1>4, <1>6
  <2>2. wire' \in Seq(Parts)
    <3>1. \A i \in 1..(Len(wire) - 1) : wire[i] \in Parts
      BY <1>4
    <3> QED
      BY <1>4, <2>1, <3>1, SubSeqProperties
  <2>3. Types'
    BY <1>1, <1>2, <2>2 DEF Types
  <2>4. EndedKeys \subseteq EndedKeys'
    BY <1>2 DEF EndedKeys, Open
  <2>5. ASSUME NEW records, NEW tale, NEW n, TellsAnswer(records, tale, n)
        PROVE  TellsAnswer(records, tale, n)'
    <3>1. Carries(Joint(bytes, wire), records, n) /\ Len(Joint(bytes, wire)) = 2 * n
      BY <1>2, <2>5 DEF TellsAnswer
    <3>2. Carries(Joint(bytes, SubSeq(wire, 1, Len(wire) - 1)), records, n)
      BY <1>4, <2>1, <3>1, EndIsMissing
    <3> QED
      BY <1>2, <2>1, <2>4, <2>5, <3>2 DEF TellsAnswer
  <2>6. Telling'
    BY <1>1, <1>2, <2>5 DEF Telling, Rewrites
  <2>7. Starts' /\ AsItIs'
    BY <1>1, <1>2, <1>3 DEF Starts, AsItIs, Rewrites
  <2> QED
    BY <2>3, <2>6, <2>7 DEF IInv
<1> QED
  BY <1>5, <1>6

(* What a chunk that is expanded does to the view: it becomes that of what  *)
(* was told later.                                                          *)
Moves ==
    \E a, b, l \in Told :
        /\ view = ViewOf(a) /\ view' = ViewOf(b) /\ l.said = said
        /\ Precedes(a, b) /\ Precedes(b, l)

LEMMA TellingEnds ==
    ASSUME IInv, Rewrites(media), "finished" \in ended, ended' = ended, said' = said, media' = media,
           bytes' = <<>>, wire' = <<>>, view' = Feed(view, Joint(bytes, wire), TRUE)
    PROVE  Moves /\ view' \in Views /\ Telling'
<1>1. Types /\ Starts /\ Telling
  BY DEF IInv
<1>2. PICK records, tale, n : TellsAnswer(records, tale, n)
  BY <1>1 DEF Telling
<1>3. bytes \in Seq(Parts) /\ wire \in Seq(Parts)
  BY <1>1 DEF Types
<1>4. PICK whole \in Seq(Parts) : whole = Joint(bytes, wire)
  BY <1>3, JointTyped
<1>5. /\ Carries(whole, records, n) /\ Story(records, tale, n)
      /\ view = ViewOf(tale[0]) /\ tale[n].said = said
  BY <1>2, <1>4 DEF TellsAnswer
<1>6. /\ n \in Nat /\ tale[0] \in Told /\ tale[n] \in Told /\ Precedes(tale[0], tale[n])
  <2>1. n \in Nat
    BY <1>5 DEF Story
  <2>2. 0 \in 0..n /\ n \in 0..n /\ 0 <= n
    BY <2>1
  <2> QED
    BY <1>5, <2>1, <2>2 DEF Story
<1>7. Len(whole) \in Nat
  OBVIOUS
<1>8. PICK g : /\ Feeds(g, ViewOf(tale[0]), whole, 1, Len(whole))
               /\ Feed(ViewOf(tale[0]), whole, TRUE) = Flush(g[Len(whole)], Keys)
  BY <1>7, FeedIs
<1>9. g[Len(whole)] = ViewOf(tale[n])
  BY <1>5, <1>7, <1>8, FeedsTellAll
<1>10. PICK b : b = All(tale[n])
  OBVIOUS
<1>11. /\ b \in Told /\ Precedes(tale[n], b) /\ Precedes(b, b)
       /\ b.said = said /\ b.over = Keys
  <2>1. b \in Told /\ Precedes(tale[n], b)
    BY <1>6, <1>10, PrecedesItself
  <2>2. b.said = said /\ b.over = Keys
    BY <1>5, <1>10 DEF All
  <2> QED
    BY <2>1, <2>2, PrecedesItself
<1>12. Flush(ViewOf(tale[n]), Keys) = ViewOf(b)
  <2>1. b = [said |-> tale[n].said, over |-> tale[n].over \cup Keys]
    <3>1. tale[n].over \cup Keys = Keys
      BY <1>6 DEF Told
    <3> QED
      BY <1>10, <3>1 DEF All
  <2> QED
    BY <1>6, <2>1, FlushIs
<1>13. view' = ViewOf(b)
  BY <1>4, <1>5, <1>8, <1>9, <1>12
<1>14. Precedes(tale[0], b)
  BY <1>6, <1>11, PrecedesOn
<1>15. Moves
  BY <1>5, <1>6, <1>11, <1>13, <1>14 DEF Moves
<1>16. view' \in Views
  BY <1>11, <1>13, ViewIs
<1>17. EndedKeys' = Keys
  BY <1>1 DEF Starts, EndedKeys, Open
<1>18. PICK sequel : sequel = [j \in 0..0 |-> b]
  OBVIOUS
<1>19. sequel[0] = b /\ Story(<<>>, sequel, 0)
  BY <1>11, <1>18 DEF Story
<1>20. Joint(bytes', wire') = <<>>
  BY DEF Joint
<1>21. Carries(Joint(bytes', wire'), <<>>, 0)
  BY <1>20 DEF Carries
<1>22. TellsAnswer(<<>>, sequel, 0)'
  BY <1>11, <1>13, <1>17, <1>19, <1>20, <1>21 DEF TellsAnswer
<1>23. Len(bytes') <= 1
  OBVIOUS
<1> QED
  BY <1>15, <1>16, <1>22, <1>23 DEF Telling

LEMMA TellingGoesOn ==
    ASSUME IInv, Rewrites(media), ended' = ended, said' = said, media' = media,
           NEW taken \in Seq(Parts), wire' \in Seq(Parts), wire = Joint(taken, wire'),
           view' = Feed(view, Joint(bytes, taken), FALSE), bytes' = Rest(Joint(bytes, taken))
    PROVE  Moves /\ view' \in Views /\ bytes' \in Seq(Parts) /\ Telling'
<1>1. Types /\ Starts /\ Telling
  BY DEF IInv
<1>2. PICK records, tale, n : TellsAnswer(records, tale, n)
  BY <1>1 DEF Telling
<1>3. bytes \in Seq(Parts)
  BY <1>1 DEF Types
<1>4. PICK body \in Seq(Parts) : body = Joint(bytes, taken)
  BY <1>3, JointTyped
<1>5. Joint(bytes, wire) = Joint(body, wire')
  BY <1>3, <1>4, JointTwice
<1>6. /\ Carries(Joint(body, wire'), records, n) /\ Story(records, tale, n)
      /\ view = ViewOf(tale[0]) /\ tale[n].said = said /\ tale[n].over \subseteq EndedKeys
      /\ Len(Joint(body, wire')) = 2 * n \/ "finished" \in ended
  BY <1>2, <1>5 DEF TellsAnswer
<1>7. PICK m \in 0..n : Carries(body, records, m)
  BY <1>6, BodyCarries
<1>8. Len(body) \in Nat
  OBVIOUS
<1>9. PICK p \in Nat : Len(body) \in {2 * p, 2 * p + 1}
  BY <1>8, EveryHalf
<1>10. p \in 0..n /\ p <= m /\ n \in Nat
  <2>1. n \in Nat /\ m \in Nat /\ Len(body) \in {2 * m - 1, 2 * m}
    BY <1>6, <1>7 DEF Story, Carries
  <2>2. p <= m
    BY <1>9, <2>1
  <2> QED
    BY <1>7, <2>1, <2>2
<1>11. Story(records, tale, m)
  BY <1>6, <1>7, StoryBegins
<1>12. PICK g : /\ Feeds(g, ViewOf(tale[0]), body, 2, Len(body))
                /\ Feed(ViewOf(tale[0]), body, FALSE) = g[Len(body)]
  BY <1>8, FeedIs
<1>13. g[Len(body)] = ViewOf(tale[p])
  BY <1>7, <1>8, <1>9, <1>11, <1>12, FeedsTell
<1>14. view' = ViewOf(tale[p])
  BY <1>4, <1>6, <1>12, <1>13
<1>15. /\ tale[0] \in Told /\ tale[p] \in Told /\ tale[n] \in Told
       /\ Precedes(tale[0], tale[p]) /\ Precedes(tale[p], tale[n])
  <2>1. 0 \in 0..n /\ n \in 0..n /\ 0 <= p /\ p <= n
    BY <1>10
  <2> QED
    BY <1>6, <1>10, <2>1 DEF Story
<1>16. Moves
  BY <1>6, <1>14, <1>15 DEF Moves
<1>17. view' \in Views
  BY <1>14, <1>15, ViewIs
<1>18. Keeps(bytes', body, p)
  <2>1. bytes' = SubSeq(body, 2 * p + 1, Len(body))
    BY <1>4, <1>7, <1>9, RestIs
  <2> QED
    BY <1>9, <2>1, KeptIs
<1>19. PICK others : Later(others, records, p, n)
  BY DEF Later
<1>20. PICK sequel : Later(sequel, tale, p, n)
  BY DEF Later
<1>21. Story(others, sequel, n - p) /\ sequel[0] = tale[p] /\ sequel[n - p] = tale[n]
  BY <1>6, <1>10, <1>19, <1>20, StoryGoesOn
<1>22. /\ n - p \in Nat
       /\ bytes' \in Seq(Parts) /\ Len(bytes') = Len(body) - 2 * p
       /\ Carries(Joint(bytes', wire'), others, n - p)
       /\ Len(Joint(bytes', wire')) = Len(Joint(body, wire')) - 2 * p
  <2>1. PICK left \in Seq(Parts) : left = wire'
    OBVIOUS
  <2>2. PICK kept : kept = bytes'
    OBVIOUS
  <2>3. Carries(Joint(body, left), records, n) /\ Keeps(kept, body, p) /\ body \in Seq(Parts)
    BY <1>4, <1>6, <1>18, <2>1, <2>2
  <2>4. /\ n - p \in Nat /\ kept \in Seq(Parts) /\ Len(kept) = Len(body) - 2 * p
        /\ Carries(Joint(kept, left), others, n - p)
        /\ Len(Joint(kept, left)) = Len(Joint(body, left)) - 2 * p
    BY <1>9, <1>19, <2>1, <2>3, RestCarries
  <2> QED
    BY <2>1, <2>2, <2>4
<1>23. Len(bytes') <= 1
  BY <1>9, <1>22
<1>24. Len(Joint(bytes', wire')) = 2 * (n - p) \/ "finished" \in ended'
  BY <1>6, <1>10, <1>22
<1>25. EndedKeys' = EndedKeys
  BY DEF EndedKeys, Open
<1>26. TellsAnswer(others, sequel, n - p)'
  BY <1>6, <1>14, <1>21, <1>22, <1>24, <1>25 DEF TellsAnswer
<1> QED
  BY <1>16, <1>17, <1>22, <1>23, <1>26 DEF Telling

LEMMA PiecesExpand == \A x \in Seq(Pieces) : x \in Seq(Expansions)
<1> SUFFICES ASSUME NEW x \in Seq(Pieces) PROVE x \in Seq(Expansions)
  OBVIOUS
<1>1. Len(x) \in Nat /\ x = [i \in 1..Len(x) |-> x[i]] /\ \A i \in 1..Len(x) : x[i] \in Expansions
  BY DEF Expansions
<1> QED
  BY <1>1

LEMMA ChunkLeaves ==
    ASSUME IInv, NEW n, NEW final \in BOOLEAN, TakeChunk(n, final)
    PROVE  /\ phase = "answering" /\ phase' = (IF final THEN "over" ELSE phase)
           /\ UNCHANGED <<route, client, session, replayed, listener, media, length, said, ended>>
           /\ bytes \in Seq(Parts) /\ wire \in Seq(Parts)
           /\ SubSeq(wire, 1, n) \in Seq(Parts) /\ wire' \in Seq(Parts)
           /\ wire = Joint(SubSeq(wire, 1, n), wire')
           /\ final => "finished" \in ended /\ wire' = <<>> /\ SubSeq(wire, 1, n) = wire
<1>1. /\ phase = "answering" /\ phase' = (IF final THEN "over" ELSE phase)
      /\ UNCHANGED <<route, client, session, replayed, listener, media, length, said, ended>>
      /\ n \in (IF final THEN 0 ELSE 1)..Len(wire)
      /\ wire' = SubSeq(wire, n + 1, Len(wire)) /\ (final => "finished" \in ended /\ n = Len(wire))
  BY DEF TakeChunk, Answering
<1>2. bytes \in Seq(Parts) /\ wire \in Seq(Parts)
  BY DEF IInv, Types
<1>3. n \in 0..Len(wire)
  <2>1. Len(wire) \in Nat
    BY <1>2
  <2> QED
    BY <1>1, <2>1
<1>4. /\ SubSeq(wire, 1, n) \in Seq(Parts) /\ wire' \in Seq(Parts)
      /\ wire = Joint(SubSeq(wire, 1, n), wire')
  BY <1>1, <1>2, <1>3, ChunkIsTaken
<1>5. ASSUME final
      PROVE  wire' = <<>> /\ SubSeq(wire, 1, n) = wire
  <2>1. n = Len(wire) /\ Len(wire) \in Nat
    BY <1>1, <1>2, <1>5
  <2>2. SubSeq(wire, 1, n) = wire
    BY <1>2, <2>1, SubSeqFull
  <2>3. SubSeq(wire, Len(wire) + 1, Len(wire)) = <<>>
    BY <1>2, <2>1
  <2> QED
    BY <1>1, <2>1, <2>2, <2>3
<1> QED
  BY <1>1, <1>2, <1>4, <1>5

(* What is left of the invariant when a chunk is sent.                      *)
LEMMA SentKeeps ==
    ASSUME IInv, NEW n, NEW final \in BOOLEAN, TakeChunk(n, final),
           view' \in Views, bytes' \in Seq(Parts), AsItIs', Telling'
    PROVE  IInv'
<1>1. Types /\ Starts
  BY DEF IInv
<1>2. /\ phase = "answering" /\ phase' = (IF final THEN "over" ELSE phase) /\ wire' \in Seq(Parts)
      /\ UNCHANGED <<route, client, session, replayed, listener, media, length, said, ended>>
  BY ChunkLeaves
<1>3. phase' \in {"answering", "over"}
  BY <1>2
<1>4. Types'
  BY <1>1, <1>2, <1>3 DEF Types
<1>5. media # "none"
  BY <1>1, <1>2 DEF Starts
<1>6. Starts'
  BY <1>1, <1>2, <1>3, <1>5 DEF Starts
<1> QED
  BY <1>4, <1>6 DEF IInv

(* A chunk is sent: as it is, into the collected JSON, as the last of the   *)
(* answer, or as one of a stream.                                           *)
LEMMA SendKeeps ==
    ASSUME IInv, NEW n, NEW final \in BOOLEAN, SendChunk(n, final)
    PROVE  IInv' /\ (Rewrites(media) => Moves \/ view' = view)
<1>1. Types /\ Starts /\ AsItIs /\ Telling
  BY DEF IInv
<1>2. TakeChunk(n, final)
  BY DEF SendChunk
<1>3. PICK taken \in Seq(Parts) : taken = SubSeq(wire, 1, n)
  BY <1>2, ChunkLeaves
<1>4. /\ phase = "answering" /\ phase' = (IF final THEN "over" ELSE phase)
      /\ UNCHANGED <<route, client, session, replayed, listener, media, length, said, ended>>
      /\ bytes \in Seq(Parts) /\ wire \in Seq(Parts) /\ wire' \in Seq(Parts)
      /\ wire = Joint(taken, wire')
      /\ final => "finished" \in ended /\ wire' = <<>> /\ taken = wire
  BY <1>2, <1>3, ChunkLeaves
<1>5. IF ~Rewrites(media)
      THEN /\ view' = IF final THEN [view EXCEPT !.shown = said] ELSE view
           /\ bytes' = bytes
      ELSE IF media = "json" /\ ~final THEN bytes' = Joint(bytes, taken) /\ view' = view
      ELSE /\ view' = Feed(view, Joint(bytes, taken), final)
           /\ bytes' = Kept(Joint(bytes, taken), final)
  BY <1>3 DEF SendChunk, Joint
<1>6. Rewrites(media)' <=> Rewrites(media)
  BY <1>4 DEF Rewrites
<1>7. CASE ~Rewrites(media)
  <2>1. view' = (IF final THEN [view EXCEPT !.shown = said] ELSE view) /\ bytes' = bytes
    BY <1>5, <1>7
  <2>2. said \in [Keys -> Seq(Expansions)]
    BY <1>1, PiecesExpand DEF Types
  <2>3. view' \in Views /\ view'.held = view.held /\ (final => view'.shown = said)
    BY <1>1, <2>1, <2>2 DEF Types, Views
  <2>4. phase' = "over" => final
    BY <1>4
  <2>5. AsItIs'
    BY <1>1, <1>4, <1>6, <2>1, <2>3, <2>4 DEF AsItIs
  <2>6. Telling'
    BY <1>6, <1>7 DEF Telling
  <2> QED
    BY <1>2, <1>4, <1>7, <2>1, <2>3, <2>5, <2>6, SentKeeps
<1>8. CASE Rewrites(media) /\ media = "json" /\ ~final
  <2>1. bytes' = Joint(bytes, taken) /\ view' = view
    BY <1>5, <1>8
  <2>2. bytes' \in Seq(Parts) /\ view' \in Views
    BY <1>1, <1>4, <2>1, JointTyped DEF Types
  <2>3. Joint(bytes', wire') = Joint(bytes, wire)
    BY <1>4, <2>1, JointTwice
  <2>4. EndedKeys' = EndedKeys
    BY <1>4 DEF EndedKeys, Open
  <2>5. \A records, tale, m : TellsAnswer(records, tale, m) => TellsAnswer(records, tale, m)'
    BY <1>4, <2>1, <2>3, <2>4 DEF TellsAnswer
  <2>6. Telling'
    BY <1>1, <1>4, <1>6, <1>8, <2>5 DEF Telling
  <2>7. AsItIs'
    BY <1>1, <1>4, <1>6, <1>8 DEF AsItIs
  <2> QED
    BY <1>2, <2>1, <2>2, <2>6, <2>7, SentKeeps
<1>9. CASE Rewrites(media) /\ final
  <2>1. bytes' = <<>> /\ view' = Feed(view, Joint(bytes, wire), TRUE)
    BY <1>4, <1>5, <1>9 DEF Kept
  <2>2. Moves /\ view' \in Views /\ Telling'
    BY <1>4, <1>9, <2>1, TellingEnds
  <2>3. AsItIs'
    BY <1>1, <1>4, <1>6, <1>9 DEF AsItIs
  <2>4. bytes' \in Seq(Parts)
    BY <2>1
  <2> QED
    BY <1>2, <2>2, <2>3, <2>4, SentKeeps
<1>10. CASE Rewrites(media) /\ media # "json" /\ ~final
  <2>1. /\ bytes' = Rest(Joint(bytes, taken))
        /\ view' = Feed(view, Joint(bytes, taken), FALSE)
    BY <1>5, <1>10 DEF Kept
  <2>2. Moves /\ view' \in Views /\ bytes' \in Seq(Parts) /\ Telling'
    BY <1>4, <1>10, <2>1, TellingGoesOn
  <2>3. AsItIs'
    BY <1>1, <1>4, <1>6, <1>10 DEF AsItIs
  <2> QED
    BY <1>2, <2>2, <2>3, SentKeeps
<1> QED
  BY <1>7, <1>8, <1>9, <1>10

LEMMA NextKeeps == IInv /\ [Next]_vars => IInv'
<1> SUFFICES ASSUME IInv, [Next]_vars PROVE IInv'
  OBVIOUS
<1>1. CASE ClientSends \/ ClientLeaves \/ ReadBody \/ Listen \/ Cancel
  BY <1>1, AskKeeps
<1>2. CASE Answer
  BY <1>2, StartKeeps DEF Answer
<1>3. CASE EmitEvent
  BY <1>3, EventKeeps
<1>4. CASE EndAnswer
  BY <1>4, EndKeeps DEF EndAnswer
<1>5. CASE Send
  BY <1>5, SendKeeps DEF Send
<1>6. CASE UNCHANGED vars
  <2>1. UNCHANGED answer /\ UNCHANGED <<route, client, phase, session, replayed, listener>>
    BY <1>6 DEF vars, asked
  <2>2. Types
    BY DEF IInv
  <2> QED
    BY <2>1, <2>2, AnswerStays DEF Types
<1> QED
  BY <1>1, <1>2, <1>3, <1>4, <1>5, <1>6 DEF Next

(* Whatever ADK says and however HTTP cuts it, the records on their way     *)
(* tell how the page becomes what ADK said.                                 *)
THEOREM AnswerInvariant == Spec => []IInv
BY InitKeeps, NextKeeps, PTL DEF Spec

-----------------------------------------------------------------------------
LEMMA InvariantTypes == IInv => TypeOK
<1> SUFFICES ASSUME IInv PROVE TypeOK
  OBVIOUS
<1>1. Types
  BY DEF IInv
<1>2. /\ view.held \in [Keys -> Seq(Pieces)] /\ view.over \subseteq Keys
      /\ view.shown \in [Keys -> Seq(Pieces \cup {"stored"})]
  BY <1>1 DEF Types, Views, Expansions
<1> QED
  BY <1>1, <1>2 DEF Types, TypeOK

(* Type correctness of web.py's wrapper (TypeOK): what is held of a channel *)
(* is text, what is shown of it text with stored texts, for every cut.      *)
THEOREM TypeCorrect == Spec => []TypeOK
BY AnswerInvariant, InvariantTypes, PTL

(* The story's view holds the beginning of a token at most, and the bytes   *)
(* of a stream no record that is complete.                                  *)
LEMMA InvariantHolds == IInv => OnlyUnfinishedIsHeld
<1> SUFFICES ASSUME IInv PROVE OnlyUnfinishedIsHeld
  OBVIOUS
<1>1. Types /\ AsItIs /\ Telling
  BY DEF IInv
<1>2. CASE ~Rewrites(media)
  <2>1. view.held = Nothing /\ bytes = <<>>
    BY <1>1, <1>2 DEF AsItIs
  <2>2. \A k \in Keys : view.held[k] = <<>>
    BY <2>1 DEF Nothing
  <2>3. \A i \in 1..Len(bytes) : FALSE
    BY <2>1
  <2> QED
    BY <2>2, <2>3 DEF OnlyUnfinishedIsHeld
<1>3. CASE Rewrites(media)
  <2>1. PICK records, tale, n : TellsAnswer(records, tale, n)
    BY <1>1, <1>3 DEF Telling
  <2>2. /\ Carries(Joint(bytes, wire), records, n) /\ Story(records, tale, n)
        /\ view = ViewOf(tale[0])
    BY <2>1 DEF TellsAnswer
  <2>3. tale[0] \in Told
    <3>1. n \in Nat
      BY <2>2 DEF Story
    <3>2. 0 \in 0..n
      BY <3>1
    <3> QED
      BY <2>2, <3>2 DEF Story
  <2>4. \A k \in Keys : view.held[k] \in {<<>>, <<"head">>, <<"head", "id">>}
    BY <2>2, <2>3, ViewIs
  <2>5. ASSUME media = "stream", NEW i \in 1..Len(bytes)
        PROVE  bytes[i].part # 2
    <3>1. bytes \in Seq(Parts) /\ wire \in Seq(Parts) /\ Len(bytes) <= 1
      BY <1>1, <1>3, <2>5 DEF Types, Telling
    <3>2. i = 1 /\ Len(bytes) = 1
      <4>1. PICK l \in Nat : l = Len(bytes) /\ l <= 1
        BY <3>1
      <4>2. i \in 1..l
        BY <2>5, <4>1
      <4> QED
        BY <4>1, <4>2
    <3>3. PICK whole : whole = Joint(bytes, wire)
      OBVIOUS
    <3>4. Joins(whole, bytes, wire)
      BY <3>1, <3>3, JointIs
    <3>5. whole[1] = bytes[1] /\ Len(whole) \in Nat /\ Len(whole) >= 1
      BY <3>2, <3>4 DEF Joins
    <3>6. PICK l \in Nat : l = Len(whole)
      BY <3>5
    <3>7. n \in Nat /\ l \in {2 * n - 1, 2 * n} /\ l >= 1
      BY <2>2, <3>3, <3>5, <3>6 DEF Carries
    <3>8. 1 \in 1..n /\ 2 * 1 - 1 = 1
      BY <3>7
    <3>9. whole[2 * 1 - 1] = [record |-> records[1], part |-> 1]
      BY <2>2, <3>3, <3>8 DEF Carries
    <3> QED
      BY <3>2, <3>5, <3>8, <3>9
  <2> QED
    BY <2>4, <2>5 DEF OnlyUnfinishedIsHeld
<1> QED
  BY <1>2, <1>3

(* "Only incomplete records and possible placeholder suffixes are held"     *)
(* (OnlyUnfinishedIsHeld): ordinary text is never kept from the page, nor a *)
(* record whose end has come.                                               *)
THEOREM OnlyUnfinished == Spec => []OnlyUnfinishedIsHeld
BY AnswerInvariant, InvariantHolds, PTL

LEMMA InvariantLength == IInv => LengthIsTrue
<1> SUFFICES ASSUME IInv, length, phase = "over" PROVE Size(view.shown) = Size(said)
  BY DEF LengthIsTrue
<1>1. view.shown = said
  BY DEF IInv, AsItIs
<1> QED
  BY <1>1

(* An answer goes out under the length the app announced only as the app    *)
(* wrote it (LengthIsTrue): what is expanded loses its content-length.      *)
THEOREM TrueLength == Spec => []LengthIsTrue
BY AnswerInvariant, InvariantLength, PTL

-----------------------------------------------------------------------------
(* The page implements what ShownText promises.                             *)
LEMMA TextInPromise ==
    ASSUME NEW text
    PROVE  /\ Promised!Expanded(text) = Expanded(text)
           /\ Promised!Chunk(text, FALSE).shown = Chunk(text, FALSE).shown
<1>1. \A t : Promised!Expanded(t) = Expanded(t)
  BY DEF Promised!Expanded, Expanded
<1>2. \A t : Promised!Unfinished(t) = Unfinished(t)
  BY DEF Promised!Unfinished, Unfinished, Promised!IsSuffix, IsSuffix, Promised!IsPrefix,
         IsPrefix, Promised!Reverse, Reverse
<1>3. Promised!Chunk(text, FALSE) = Chunk(text, FALSE)
  BY <1>1, <1>2 DEF Promised!Chunk, Chunk
<1> QED
  BY <1>1, <1>3, Zenon

LEMMA PrefixInPromise ==
    ASSUME NEW p, NEW z
    PROVE  Promised!IsPrefix(p, z) <=> IsPrefix(p, z)
BY DEF Promised!IsPrefix, IsPrefix

(* A view of what is told may be shown of all that is said,                 *)
LEMMA ToldMayBeShown ==
    ASSUME NEW b \in Told, NEW l \in Told, Precedes(b, l), NEW t \in Keys
    PROVE  IF t \in b.over THEN ViewOf(b).shown[t] = Promised!Expanded(l.said[t])
           ELSE Promised!MayBeShown(l.said[t], ViewOf(b).shown[t])
<1>1. /\ b.said[t] \in Seq(Pieces) /\ l.said[t] \in Seq(Pieces)
      /\ Begins(b.said[t], l.said[t]) /\ (t \in b.over => l.said[t] = b.said[t])
  BY DEF Told, Precedes
<1>2. ViewOf(b).shown[t] = IF t \in b.over THEN Expanded(b.said[t])
                           ELSE Expanded(Whole(b.said[t]))
  BY ViewShows
<1>3. CASE t \in b.over
  BY <1>1, <1>2, <1>3, TextInPromise
<1>4. CASE t \notin b.over
  <2>1. ViewOf(b).shown[t] = Expanded(Whole(b.said[t]))
    BY <1>2, <1>4
  <2>2. IsPrefix(Expanded(Whole(b.said[t])), Expanded(Whole(l.said[t])))
    BY <1>1, ShownGrows
  <2>3. Promised!Chunk(l.said[t], FALSE).shown = Expanded(Whole(l.said[t]))
    BY <1>1, TextInPromise, ChunkShows
  <2>4. Promised!IsPrefix(ViewOf(b).shown[t], Promised!Chunk(l.said[t], FALSE).shown)
    BY <2>1, <2>2, <2>3, PrefixInPromise
  <2> QED
    BY <1>4, <2>4, Zenon DEF Promised!MayBeShown
<1> QED
  BY <1>3, <1>4

(* and begins what is shown later.                                          *)
LEMMA ToldGrows ==
    ASSUME NEW a \in Told, NEW b \in Told, Precedes(a, b), NEW t \in Keys
    PROVE  /\ Promised!IsPrefix(a.said[t], b.said[t])
           /\ Promised!IsPrefix(ViewOf(a).shown[t], ViewOf(b).shown[t])
<1>1. /\ a.said[t] \in Seq(Pieces) /\ b.said[t] \in Seq(Pieces)
      /\ Begins(a.said[t], b.said[t]) /\ (t \in a.over => t \in b.over /\ b.said[t] = a.said[t])
  BY DEF Told, Precedes
<1>2. /\ ViewOf(a).shown[t] = IF t \in a.over THEN Expanded(a.said[t])
                              ELSE Expanded(Whole(a.said[t]))
      /\ ViewOf(b).shown[t] = IF t \in b.over THEN Expanded(b.said[t])
                              ELSE Expanded(Whole(b.said[t]))
  BY ViewShows
<1>3. /\ IsPrefix(a.said[t], b.said[t])
      /\ IsPrefix(Expanded(Whole(a.said[t])), Expanded(Whole(b.said[t])))
      /\ IsPrefix(Expanded(Whole(a.said[t])), Expanded(b.said[t]))
  BY <1>1, ShownGrows
<1>4. IsPrefix(ViewOf(a).shown[t], ViewOf(b).shown[t])
  <2>1. CASE t \in a.over
    <3>1. ViewOf(a).shown[t] = Expanded(a.said[t]) /\ ViewOf(b).shown[t] = Expanded(a.said[t])
      BY <1>1, <1>2, <2>1
    <3>2. IsPrefix(Expanded(a.said[t]), Expanded(a.said[t]))
      <4>1. Expanded(a.said[t]) \in Seq(Displayed)
        BY <1>1, ExpandText
      <4> QED
        BY <4>1, JointPrefix
    <3> QED
      BY <3>1, <3>2
  <2>2. CASE t \notin a.over
    BY <1>2, <1>3, <2>2
  <2> QED
    BY <2>1, <2>2
<1> QED
  BY <1>3, <1>4, PrefixInPromise

LEMMA GoesOnIsNext ==
    ASSUME Rewrites(media), Rewrites(media)', NEW a \in Told, NEW b \in Told,
           NEW l \in Told, NEW more \in Told,
           view = ViewOf(a), view' = ViewOf(b), said = l.said, said' = more.said,
           Precedes(a, b), Precedes(b, more), Precedes(a, l), Precedes(l, more)
    PROVE  Promised!Next
<1>1. \A t \in Keys : /\ Promised!IsPrefix(said[t], said'[t])
                      /\ Promised!IsPrefix(view.shown[t], view'.shown[t])
  BY ToldGrows
<1>2. view.over = a.over /\ view'.over = b.over
  BY DEF ViewOf
<1>3. \A t \in view.over : said'[t] = said[t]
  <2>1. \A t \in a.over : t \in Keys /\ l.said[t] = a.said[t]
    BY DEF Told, Precedes
  <2>2. Precedes(a, more)
    BY PrecedesOn
  <2>3. \A t \in a.over : t \in Keys /\ more.said[t] = a.said[t]
    BY <2>2 DEF Told, Precedes
  <2> QED
    BY <1>2, <2>1, <2>3
<1>4. view.over \subseteq view'.over /\ view'.over \subseteq Keys
  BY <1>2 DEF Precedes, Told
<1>5. \A t \in Keys : IF t \in view'.over THEN view'.shown[t] = Promised!Expanded(said'[t])
                      ELSE Promised!MayBeShown(said'[t], view'.shown[t])
  BY <1>2, ToldMayBeShown
<1>6. Promised!Say
  BY <1>1, <1>3, Zenon DEF Promised!Say, Promised!Grows
<1>7. Promised!Show
  BY <1>1, <1>4, <1>5, Zenon DEF Promised!Show, Promised!Grows
<1> QED
  BY <1>6, <1>7 DEF Promised!Next

LEMMA PromiseBegins == Init => Promised!Init
<1> SUFFICES ASSUME Init PROVE Promised!Init
  OBVIOUS
<1>1. ~Rewrites(media)
  BY DEF Init, Rewrites
<1> QED
  BY <1>1, Zenon DEF Promised!Init, Nothing

LEMMA PromiseGoesOn == IInv /\ [Next]_vars => [Promised!Next]_(Promised!vars)
<1> SUFFICES ASSUME IInv, [Next]_vars
             PROVE  Promised!Next \/ UNCHANGED Promised!vars
  OBVIOUS
<1>1. Starts /\ Telling
  BY DEF IInv
<1>2. CASE UNCHANGED <<session, media, said, view>>
  <2>1. Rewrites(media)' <=> Rewrites(media)
    BY <1>2 DEF Rewrites
  <2> QED
    BY <1>2, <2>1, Zenon DEF Promised!vars
<1>3. CASE ~Rewrites(media) /\ ~Rewrites(media)'
  BY <1>3, Zenon DEF Promised!vars
<1>4. CASE ReadBody
  <2>1. media = "none" /\ media' = media
    BY <1>1, <1>4 DEF ReadBody, Starts, answer
  <2> QED
    BY <1>3, <2>1 DEF Rewrites
<1>5. CASE Answer
  <2>1. PICK m \in Media : StartAnswer(m)
    BY <1>5 DEF Answer
  <2>2. phase = "called" /\ said' = said /\ view' = view
    BY <2>1 DEF StartAnswer
  <2>3. media = "none"
    BY <1>1, <2>2 DEF Starts
  <2>4. said = Nothing /\ view = NoView /\ ~Rewrites(media)
    BY <1>1, <2>3 DEF Starts, Rewrites
  <2>5. view.shown = Nothing /\ view.over = {}
    BY <2>4 DEF NoView
  <2> QED
    BY <2>2, <2>4, <2>5, Zenon DEF Promised!vars
<1>6. CASE EmitEvent /\ Rewrites(media)
  <2>1. PICK a \in Told, l \in Told, more \in Told :
          /\ view = ViewOf(a) /\ view' = view /\ l.said = said /\ more.said = said'
          /\ Precedes(a, l) /\ Precedes(l, more)
    BY <1>6, EventKeeps DEF Says
  <2>2. Precedes(a, a) /\ Precedes(a, more)
    BY <2>1, PrecedesItself, PrecedesOn
  <2>3. Rewrites(media)'
    <3>1. media' = media /\ session' = session
      BY <1>6 DEF EmitEvent, EmitPartial, EmitFinal, EmitFinalWithoutText, EmitComment, EmitDone,
                  Emit, asked
    <3> QED
      BY <1>6, <3>1 DEF Rewrites
  <2> QED
    BY <1>6, <2>1, <2>2, <2>3, GoesOnIsNext
<1>7. CASE EmitEvent /\ ~Rewrites(media)
  <2>1. media' = media /\ session' = session
    BY <1>7 DEF EmitEvent, EmitPartial, EmitFinal, EmitFinalWithoutText, EmitComment, EmitDone,
                Emit, asked
  <2> QED
    BY <1>3, <1>7, <2>1 DEF Rewrites
<1>8. CASE Send
  <2>1. PICK n \in 0..MaxWire, final \in BOOLEAN : SendChunk(n, final)
    BY <1>8 DEF Send
  <2>2. session' = session /\ media' = media /\ said' = said
    BY <2>1 DEF SendChunk, TakeChunk
  <2>3. Rewrites(media)' <=> Rewrites(media)
    BY <2>2 DEF Rewrites
  <2>4. CASE Rewrites(media) /\ Moves
    <3>1. PICK a \in Told, b \in Told, l \in Told :
            /\ view = ViewOf(a) /\ view' = ViewOf(b) /\ l.said = said
            /\ Precedes(a, b) /\ Precedes(b, l)
      BY <2>4 DEF Moves
    <3>2. Precedes(a, l) /\ Precedes(l, l)
      BY <3>1, PrecedesItself, PrecedesOn
    <3> QED
      BY <2>2, <2>3, <2>4, <3>1, <3>2, GoesOnIsNext
  <2> QED
    BY <1>2, <1>3, <2>1, <2>2, <2>3, <2>4, SendKeeps
<1>9. CASE ClientSends \/ ClientLeaves \/ Listen \/ Cancel \/ EndAnswer
  <2>1. UNCHANGED <<session, media, said, view>>
    BY <1>9 DEF ClientSends, ClientLeaves, Listen, Cancel, EndAnswer, FinishAnswer, asked, answer
  <2> QED
    BY <1>2, <2>1
<1>10. CASE UNCHANGED vars
  BY <1>2, <1>10 DEF vars, asked, answer
<1> QED
  BY <1>4, <1>5, <1>6, <1>7, <1>8, <1>9, <1>10 DEF Next

(* The wrapper implements the promise (ShowsWhatItPromises): however ADK    *)
(* cuts a text into deltas and mixes messages and channels, and however     *)
(* HTTP cuts the records, the browser shows each text in order, its tokens  *)
(* expanded, once, and completely when it is over.                          *)
THEOREM ShownAsPromised == Spec => ShowsWhatItPromises
<1>1. Init => Promised!Init
  BY PromiseBegins
<1>2. IInv /\ [Next]_vars => [Promised!Next]_(Promised!vars)
  BY PromiseGoesOn
<1> QED
  BY <1>1, <1>2, AnswerInvariant, PTL DEF Spec, ShowsWhatItPromises, Promised!Spec

=============================================================================
