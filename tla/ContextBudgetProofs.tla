------------------------ MODULE ContextBudgetProofs ------------------------
(* Proofs about ContextBudget. *)
EXTENDS ContextBudget, RecursionProofs

-----------------------------------------------------------------------------
LEMMA MaxOfIndices ==
    ASSUME NEW n \in Nat, NEW S \in SUBSET (1..n), S # {}
    PROVE  Max(S) \in S /\ \A i \in S : i <= Max(S)
<1> DEFINE Behind(i) == (i + 1)..n
           T == {Behind(i) : i \in S}
           U == 1..n
<1>1. \A i \in S : Behind(i) \subseteq 1..n
  OBVIOUS
<1>2. PICK x \in S : \A i \in S : Behind(i) \subseteq Behind(x) => Behind(i) = Behind(x)
  <2> HIDE DEF Behind
  <2>1. T \subseteq SUBSET U /\ T # {}
    BY <1>1
  <2>2. IsFiniteSet(U)
    BY FS_Interval
  <2>3. \E least \in T : \A B \in T : B \subseteq least => B = least
    <3> HIDE DEF T, U
    <3> QED
      BY <2>1, <2>2, LeastSet
  <2> QED
    BY <2>3
<1>3. \A i \in S : x >= i
  <2> SUFFICES ASSUME NEW i \in S, i > x PROVE FALSE
    OBVIOUS
  <2>1. Behind(i) \subseteq Behind(x) /\ i \in Behind(x) /\ i \notin Behind(i)
    OBVIOUS
  <2> QED
    BY <1>2, <2>1
<1> QED
  BY <1>3 DEF Max

(* The current request is one of the conversation. *)
LEMMA LatestIsAnIndex ==
    ASSUME NEW cs \in Conversations, Latest(cs) # 0
    PROVE  Latest(cs) \in DOMAIN cs
<1>1. DOMAIN cs = 1..Len(cs) /\ Len(cs) \in Nat
  BY BudgetAssumption
<1>2. Requests(cs) \subseteq 1..Len(cs)
  BY <1>1 DEF Requests
<1> QED
  BY <1>1, <1>2, MaxOfIndices DEF Latest

-----------------------------------------------------------------------------
(* The copies are those of the conversation, the current request whole.     *)
Copies ==
    /\ given \in Conversations
    /\ DOMAIN contents = DOMAIN given
    /\ latest # 0 => latest \in DOMAIN given
    /\ CurrentRequestIsWhole

(* Shortening leaves what is not in the group alone. *)
LEMMA ShortenKeepsOthers ==
    ASSUME NEW cs, NEW group, NEW estimate, NEW tokens
    PROVE  /\ DOMAIN Shorten(cs, group, estimate, tokens) = DOMAIN cs
           /\ \A i \in DOMAIN cs \ group : Shorten(cs, group, estimate, tokens)[i] = cs[i]
  BY DEF Shorten

(* "The current request is immutable, including any attached image": no     *)
(* step that detaches, shortens or leaves out history touches it.           *)
LEMMA CopiesKept == Spec => []Copies
<1>1. Init => Copies
  <2> SUFFICES ASSUME Init PROVE Copies
    OBVIOUS
  <2>1. latest # 0 => latest \in DOMAIN given
    BY LatestIsAnIndex DEF Init
  <2>2. DOMAIN contents = DOMAIN given
    BY DEF Init, Detach
  <2>3. CurrentRequestIsWhole
    BY <2>1 DEF Init, Detach, CurrentRequestIsWhole, Current
  <2> QED
    BY <2>1, <2>2, <2>3 DEF Init, Copies
<1>2. Copies /\ [Next]_vars => Copies'
  <2> SUFFICES ASSUME Copies, [Next]_vars PROVE Copies'
    OBVIOUS
  <2>1. CASE UNCHANGED <<request, contents>>
    BY <2>1 DEF Copies, CurrentRequestIsWhole, Current, request
  <2>2. CASE ShortenGroup
    <3>1. latest \notin Group
      BY DEF Group, Since
    <3>2. DOMAIN contents' = DOMAIN contents
      BY <2>2, ShortenKeepsOthers DEF ShortenGroup
    <3>3. latest # 0 => contents'[latest] = contents[latest]
      BY <2>2, <3>1, ShortenKeepsOthers DEF ShortenGroup, Copies
    <3> QED
      BY <2>2, <3>2, <3>3 DEF ShortenGroup, request, Copies, CurrentRequestIsWhole, Current
  <2>3. CASE Accept \/ RemoveTools \/ Refuse \/ Summarize \/ TakeGroup \/ EndTail \/ Join
    BY <2>1, <2>3 DEF Accept, RemoveTools, Refuse, Summarize, TakeGroup, EndTail, Join
  <2>4. CASE UNCHANGED vars
    BY <2>1, <2>4 DEF vars
  <2> QED
    BY <2>2, <2>3, <2>4 DEF Next
<1> QED
  BY <1>1, <1>2, PTL DEF Spec

THEOREM CurrentRequestKept == Spec => []CurrentRequestIsWhole
<1>1. Copies => CurrentRequestIsWhole
  BY DEF Copies
<1> QED
  BY <1>1, CopiesKept, PTL

-----------------------------------------------------------------------------
(* What is protected fits once the request is being cut: the last resort of *)
(* the loop, to send nothing else, is one.  Before, there is no summary.      *)
ProtectedFits ==
    /\ phase \in {"cut", "join"} => Request(0, {}) <= Target
    /\ phase = "enter" => summary = 0

LEMMA FitsAlways == Spec => [](ProtectedFits /\ AcceptedRequestsFit)
<1>1. Init => ProtectedFits /\ AcceptedRequestsFit
  BY DEF Init, ProtectedFits, AcceptedRequestsFit
<1>2. Copies /\ ProtectedFits /\ AcceptedRequestsFit /\ [Next]_vars
          => ProtectedFits' /\ AcceptedRequestsFit'
  <2> SUFFICES ASSUME Copies, ProtectedFits, AcceptedRequestsFit, [Next]_vars
               PROVE  ProtectedFits' /\ AcceptedRequestsFit'
    OBVIOUS
  <2> USE DEF ProtectedFits, AcceptedRequestsFit
  <2>1. CASE Accept
    <3>1. Request(summary, tail)' = Request(0, Since(1))
      BY <2>1 DEF Accept, Request, Protected, request
    <3> QED
      BY <2>1, <3>1 DEF Accept, Target, request
  <2>2. CASE RemoveTools
    BY <2>2 DEF RemoveTools, TooLarge
  <2>3. CASE Refuse
    BY <2>3 DEF Refuse, TooLarge
  <2>4. CASE Summarize
    BY <2>4 DEF Summarize, Request, Protected, Target, request
  <2>5. CASE TakeGroup
    BY <2>5 DEF TakeGroup, Request, Protected, Target, request
  <2>6. CASE ShortenGroup
    <3>1. latest # 0 => contents'[latest] = contents[latest]
      <4>1. latest \notin Group
        BY DEF Group, Since
      <4> QED
        BY <2>6, <4>1, ShortenKeepsOthers DEF ShortenGroup, Copies
    <3>2. Request(0, {})' = Request(0, {})
      BY <2>6, <3>1 DEF ShortenGroup, Request, Protected, request
    <3> QED
      BY <2>6, <3>2 DEF ShortenGroup, Target, request
  <2>7. CASE EndTail
    BY <2>7 DEF EndTail, Request, Protected, Target, request
  <2>8. CASE Join
    <3>1. Target' = Target /\ Request(0, {})' = Request(0, {})
      BY <2>8 DEF Join, Target, Request, Protected, request
    <3>2. CASE Request(summary, tail) <= Target
      <4>1. Request(summary, tail)' = Request(summary, tail)
        BY <2>8, <3>2 DEF Join, Request, Protected, request
      <4> QED
        BY <2>8, <3>1, <3>2, <4>1 DEF Join
    <3>3. CASE ~(Request(summary, tail) <= Target) /\ budget <= 0
      <4>1. Request(summary, tail)' = Request(0, {})
        BY <2>8, <3>3 DEF Join, Request, Protected, request
      <4> QED
        BY <2>8, <3>1, <3>3, <4>1 DEF Join
    <3>4. CASE ~(Request(summary, tail) <= Target) /\ ~(budget <= 0)
      BY <2>8, <3>1, <3>4 DEF Join
    <3> QED
      BY <3>2, <3>3, <3>4
  <2>9. CASE UNCHANGED vars
    BY <2>9 DEF vars, Request, Protected, Target, request
  <2> QED
    BY <2>1, <2>2, <2>3, <2>4, <2>5, <2>6, <2>7, <2>8, <2>9 DEF Next
<1> QED
  BY <1>1, <1>2, CopiesKept, PTL DEF Spec

(* No request leaves the cut above its target: what is sent was estimated   *)
(* to fit in the very step that accepted it, and the loop that drops the    *)
(* tail, and at last the summary, ends in a request that was known to fit.  *)
THEOREM RequestsFit == Spec => []AcceptedRequestsFit
BY FitsAlways, PTL

-----------------------------------------------------------------------------
(* Contents are contents whatever is done to them, and weigh something: so   *)
(* that estimates can be compared.                                           *)
Parts == [kind : Kinds, size : Nat]
Contents == [role : Roles, parts : Seq(Parts)]

LEMMA PartsAreIndexed ==
    ASSUME NEW T, NEW s \in Seq(T)
    PROVE  /\ Len(s) \in Nat /\ DOMAIN s = 1..Len(s) /\ IsFiniteSet(DOMAIN s)
           /\ \A k \in DOMAIN s : s[k] \in T
<1>1. Len(s) \in Nat /\ DOMAIN s = 1..Len(s) /\ \A k \in DOMAIN s : s[k] \in T
  OBVIOUS
<1>2. IsFiniteSet(1..Len(s))
  BY <1>1, FS_Interval
<1> QED
  BY <1>1, <1>2

(* A sequence changed one by one is one of the same length. *)
LEMMA ChangedOneByOne ==
    ASSUME NEW T, NEW S, NEW s \in Seq(T), NEW f, DOMAIN f = DOMAIN s, f = [k \in DOMAIN s |-> f[k]],
           \A k \in DOMAIN s : f[k] \in S
    PROVE  f \in Seq(S) /\ Len(f) = Len(s)
<1>1. Len(s) \in Nat /\ DOMAIN s = 1..Len(s)
  OBVIOUS
<1>2. f \in [1..Len(s) -> S]
  BY <1>1
<1> QED
  BY <1>1, <1>2

LEMMA SizesAreNat ==
    ASSUME NEW part \in Parts
    PROVE  PartWeight(part) \in Nat /\ Tokens(part.size) \in Nat
<1>1. [text |-> 1, call |-> Label + 2, result |-> Label + 2, image |-> 0][part.kind] \in Nat
  BY BudgetAssumption DEF Parts, Kinds
<1> QED
  BY <1>1 DEF Parts, PartWeight, Tokens

LEMMA ContentWeightIsNat ==
    ASSUME NEW content \in Contents
    PROVE  ContentWeight(content) \in Nat
<1> DEFINE D == DOMAIN content.parts
           f == [k \in D |-> PartWeight(content.parts[k])]
<1>1. content.parts \in Seq(Parts)
  BY DEF Contents
<1>2. IsFiniteSet(D) /\ \A k \in D : content.parts[k] \in Parts
  BY <1>1, PartsAreIndexed
<1>3. \A k \in D : f[k] \in Nat
  BY <1>2, SizesAreNat
<1>4. DOMAIN f = D
  OBVIOUS
<1> HIDE DEF D, f
<1>5. SumFunctionOnSet(f, D) \in Nat
  BY <1>2, <1>3, SumIsNat
<1> QED
  BY <1>4, <1>5 DEF ContentWeight, SumFunction, D, f

LEMMA WeightIsNat ==
    ASSUME NEW cs \in Seq(Contents), NEW indices \in SUBSET DOMAIN cs
    PROVE  Weight(cs, indices) \in Nat
<1> DEFINE f == [i \in indices |-> ContentWeight(cs[i])]
<1>1. IsFiniteSet(indices)
  BY PartsAreIndexed, FS_Subset
<1>2. \A i \in indices : f[i] \in Nat
  BY ContentWeightIsNat
<1>3. DOMAIN f = indices
  OBVIOUS
<1> HIDE DEF f
<1>4. SumFunctionOnSet(f, indices) \in Nat
  BY <1>1, <1>2, SumIsNat
<1> QED
  BY <1>3, <1>4 DEF Weight, SumFunction, f

(* What is not among the contents weighed does not matter. *)
LEMMA WeightOfSame ==
    ASSUME NEW cs, NEW ds, NEW indices, IsFiniteSet(indices), \A i \in indices : cs[i] = ds[i]
    PROVE  Weight(cs, indices) = Weight(ds, indices)
<1>1. [i \in indices |-> ContentWeight(cs[i])] = [i \in indices |-> ContentWeight(ds[i])]
  OBVIOUS
<1> QED
  BY <1>1 DEF Weight

(* A cut text is within the tokens it was cut to. *)
LEMMA FitFits ==
    ASSUME NEW size \in Nat, NEW tokens \in Nat
    PROVE  Fit(size, tokens) \in Nat /\ Tokens(Fit(size, tokens)) <= tokens
  BY DEF Fit, Tokens

LEMMA FitOfSome ==
    ASSUME NEW size \in Nat, Tokens(size) >= 1, NEW tokens \in Nat, Fit(size, tokens) > 0
    PROVE  tokens >= 1 /\ Fit(size, tokens) <= 4 * tokens + 3
  BY BudgetAssumption DEF Fit, Tokens

LEMMA DetachedContents ==
    ASSUME NEW cs \in Seq(Contents)
    PROVE  /\ DetachAll(cs) \in Seq(Contents) /\ Detach(cs) \in Seq(Contents)
           /\ Len(Detach(cs)) = Len(cs) /\ DOMAIN Detach(cs) = DOMAIN cs
<1> DEFINE Detached(part) == IF part.kind = "image" THEN [kind |-> "text", size |-> Placeholder] ELSE part
           Of(i) == [k \in DOMAIN cs[i].parts |-> Detached(cs[i].parts[k])]
<1>1. \A i \in DOMAIN cs : cs[i] \in Contents
  BY PartsAreIndexed
<1>2. \A i \in DOMAIN cs : cs[i].parts \in Seq(Parts)
  BY <1>1 DEF Contents
<1>3. \A part \in Parts : Detached(part) \in Parts
  BY BudgetAssumption DEF Parts, Kinds
<1>4. \A i \in DOMAIN cs : Of(i) \in Seq(Parts)
  <2> SUFFICES ASSUME NEW i \in DOMAIN cs PROVE Of(i) \in Seq(Parts)
    OBVIOUS
  <2>1. \A k \in DOMAIN cs[i].parts : Of(i)[k] \in Parts
    <3>1. \A k \in DOMAIN cs[i].parts : cs[i].parts[k] \in Parts
      BY <1>2, PartsAreIndexed
    <3> HIDE DEF Detached
    <3> QED
      BY <1>3, <3>1
  <2> HIDE DEF Detached
  <2> QED
    BY <1>2, <2>1, ChangedOneByOne
<1>5. \A i \in DOMAIN cs : DetachAll(cs)[i] = [cs[i] EXCEPT !.parts = Of(i)]
  BY DEF DetachAll
<1>6. \A i \in DOMAIN cs : DetachAll(cs)[i] \in Contents
  <2> HIDE DEF Of
  <2> QED
    BY <1>1, <1>4, <1>5 DEF Contents
<1>7. DOMAIN DetachAll(cs) = DOMAIN cs /\ DetachAll(cs) = [i \in DOMAIN cs |-> DetachAll(cs)[i]]
  BY DEF DetachAll
<1>8. DetachAll(cs) \in Seq(Contents)
  BY <1>6, <1>7, ChangedOneByOne
<1>9. DOMAIN Detach(cs) = DOMAIN cs /\ Detach(cs) = [i \in DOMAIN cs |-> Detach(cs)[i]]
  BY DEF Detach
<1>10. \A i \in DOMAIN cs : Detach(cs)[i] \in Contents
  BY <1>1, <1>6 DEF Detach
<1>11. Detach(cs) \in Seq(Contents) /\ Len(Detach(cs)) = Len(cs)
  BY <1>9, <1>10, ChangedOneByOne
<1> QED
  BY <1>8, <1>9, <1>11

(* Images are no calls, results or requests, nor what is left for them. *)
LEMMA DetachedCounts ==
    ASSUME NEW cs \in Seq(Contents), NEW i \in DOMAIN cs
    PROVE  /\ Count(Detach(cs)[i], "call") = Count(cs[i], "call")
           /\ Count(Detach(cs)[i], "result") = Count(cs[i], "result")
           /\ Detach(cs)[i].role = cs[i].role
<1> DEFINE d == DetachAll(cs)[i]
           Of(c, kind) == {k \in DOMAIN c.parts : c.parts[k].kind = kind}
<1>1. d = [cs[i] EXCEPT !.parts = [k \in DOMAIN cs[i].parts |->
               IF cs[i].parts[k].kind = "image" THEN [kind |-> "text", size |-> Placeholder]
               ELSE cs[i].parts[k]]]
  BY DEF DetachAll
<1>2. cs[i] \in Contents
  BY PartsAreIndexed
<1>3. d.role = cs[i].role /\ DOMAIN d.parts = DOMAIN cs[i].parts
  BY <1>1, <1>2 DEF Contents
<1>4. \A k \in DOMAIN cs[i].parts :
         d.parts[k] = IF cs[i].parts[k].kind = "image" THEN [kind |-> "text", size |-> Placeholder]
                      ELSE cs[i].parts[k]
  BY <1>1, <1>2 DEF Contents
<1> HIDE DEF d
<1>5. Of(d, "call") = Of(cs[i], "call") /\ Of(d, "result") = Of(cs[i], "result")
  BY <1>3, <1>4
<1>6. /\ Count(d, "call") = Count(cs[i], "call")
      /\ Count(d, "result") = Count(cs[i], "result")
  BY <1>5 DEF Count
<1>7. Detach(cs)[i] = cs[i] \/ Detach(cs)[i] = d
  BY DEF Detach, d
<1> QED
  BY <1>3, <1>6, <1>7

LEMMA DetachedRequests ==
    ASSUME NEW cs \in Seq(Contents)
    PROVE  Requests(Detach(cs)) = Requests(cs)
<1>1. DOMAIN Detach(cs) = DOMAIN cs
  BY DEF Detach
<1>2. \A i \in DOMAIN cs : IsRequest(Detach(cs)[i]) <=> IsRequest(cs[i])
  BY DetachedCounts DEF IsRequest
<1> QED
  BY <1>1, <1>2 DEF Requests

LEMMA PayloadIsNat ==
    ASSUME NEW cs \in Seq(Contents), NEW indices \in SUBSET DOMAIN cs
    PROVE  Payload(cs, indices) \in Nat
<1> DEFINE tokens(c) == [k \in DOMAIN c.parts |-> Tokens(c.parts[k].size)]
           f == [i \in indices |-> SumFunction(tokens(cs[i]))]
<1>1. IsFiniteSet(indices) /\ \A i \in indices : cs[i] \in Contents
  BY PartsAreIndexed, FS_Subset
<1>2. ASSUME NEW c \in Contents PROVE SumFunction(tokens(c)) \in Nat
  <2>1. c.parts \in Seq(Parts)
    BY <1>2 DEF Contents
  <2>2. IsFiniteSet(DOMAIN c.parts) /\ \A k \in DOMAIN c.parts : c.parts[k] \in Parts
    BY <2>1, PartsAreIndexed
  <2>3. DOMAIN tokens(c) = DOMAIN c.parts /\ \A k \in DOMAIN c.parts : tokens(c)[k] \in Nat
    BY <2>2, SizesAreNat
  <2> HIDE DEF tokens
  <2> QED
    BY <2>2, <2>3, SumIsNat DEF SumFunction
<1>3. DOMAIN f = indices /\ \A i \in indices : f[i] \in Nat
  BY <1>1, <1>2
<1>4. Payload(cs, indices) = SumFunction(f)
  BY DEF Payload
<1> HIDE DEF f
<1> QED
  BY <1>1, <1>3, <1>4, SumIsNat DEF SumFunction

(* Shortened parts are parts: at least the least size is kept of each. *)
LEMMA ShrunkParts ==
    ASSUME NEW part \in Parts, NEW num \in Nat, NEW den \in Nat \ {0}
    PROVE  ShrinkPart(part, num, den) \in Parts
<1> DEFINE share == (Tokens(part.size) * num) \div den
<1>1. Tokens(part.size) \in Nat /\ part.size \in Nat
  BY SizesAreNat DEF Parts
<1>2. Tokens(part.size) * num \in Nat
  BY <1>1
<1>3. share \in Nat
  <2> DEFINE n == Tokens(part.size) * num
  <2>1. n \in Nat
    BY <1>2
  <2> HIDE DEF n
  <2> SUFFICES n \div den \in Nat
    BY DEF n
  <2> QED
    BY <2>1
<1> HIDE DEF share
<1>4. AtLeast(MinKeep, share) \in Nat
  BY <1>3, BudgetAssumption DEF AtLeast
<1>5. Fit(part.size, AtLeast(MinKeep, share)) \in Nat
  BY <1>1, <1>4, FitFits
<1>6. ShrinkPart(part, num, den) = [part EXCEPT !.size = Fit(@, AtLeast(MinKeep, share))]
  BY DEF ShrinkPart, share
<1> QED
  BY <1>5, <1>6 DEF Parts

LEMMA ShortenedContents ==
    ASSUME NEW cs \in Seq(Contents), NEW group \in SUBSET DOMAIN cs, NEW estimate \in Int,
           NEW tokens \in Int, Payload(cs, group) > 0
    PROVE  /\ Shorten(cs, group, estimate, tokens) \in Seq(Contents)
           /\ Len(Shorten(cs, group, estimate, tokens)) = Len(cs)
<1> DEFINE payload == Payload(cs, group)
           left == AtLeast(0, payload - (estimate - tokens))
           Of(i) == [k \in DOMAIN cs[i].parts |-> ShrinkPart(cs[i].parts[k], left, payload)]
           s == Shorten(cs, group, estimate, tokens)
<1>1. payload \in Nat \ {0}
  BY PayloadIsNat
<1>2. left \in Nat
  <2> HIDE DEF payload
  <2> QED
    BY <1>1 DEF AtLeast
<1>3. \A i \in DOMAIN cs : cs[i] \in Contents
  BY PartsAreIndexed
<1>4. \A i \in DOMAIN cs : cs[i].parts \in Seq(Parts)
  BY <1>3 DEF Contents
<1>5. s = [i \in DOMAIN cs |-> IF i \in group THEN [cs[i] EXCEPT !.parts = Of(i)] ELSE cs[i]]
  BY DEF Shorten
<1> HIDE DEF s, left, payload
<1>6. \A i \in DOMAIN cs : Of(i) \in Seq(Parts)
  <2> SUFFICES ASSUME NEW i \in DOMAIN cs PROVE Of(i) \in Seq(Parts)
    OBVIOUS
  <2>1. \A k \in DOMAIN cs[i].parts : Of(i)[k] \in Parts
    BY <1>1, <1>2, <1>4, PartsAreIndexed, ShrunkParts
  <2> QED
    BY <1>4, <2>1, ChangedOneByOne
<1> HIDE DEF Of
<1>7. \A i \in DOMAIN cs : s[i] \in Contents
  BY <1>3, <1>5, <1>6 DEF Contents
<1>8. DOMAIN s = DOMAIN cs /\ s = [i \in DOMAIN cs |-> s[i]]
  BY <1>5
<1>9. s \in Seq(Contents) /\ Len(s) = Len(cs)
  BY <1>7, <1>8, ChangedOneByOne
<1> QED
  BY <1>9 DEF s

-----------------------------------------------------------------------------
(* The lines of a summary weigh something. *)
LEMMA LatestIsOne ==
    ASSUME NEW cs \in Seq(Contents)
    PROVE  Latest(cs) \in 0..Len(cs)
<1>1. Len(cs) \in Nat /\ DOMAIN cs = 1..Len(cs)
  BY PartsAreIndexed
<1>2. Requests(cs) \in SUBSET (1..Len(cs))
  BY <1>1 DEF Requests
<1>3. Requests(cs) # {} => Max(Requests(cs)) \in Requests(cs)
  BY <1>1, <1>2, MaxOfIndices
<1> QED
  BY <1>1, <1>2, <1>3 DEF Latest

LEMMA QuotesAreFinite ==
    ASSUME NEW cs \in Seq(Contents), NEW indices \in SUBSET DOMAIN cs
    PROVE  /\ IsFiniteSet(Quotes(cs, indices))
           /\ \A q \in Quotes(cs, indices) : Line(cs, q) \in Nat
<1> DEFINE Of(i) == {i} \X DOMAIN cs[i].parts
           T == {Of(i) : i \in indices}
           f == [i \in indices |-> Of(i)]
<1>1. \A i \in indices : cs[i].parts \in Seq(Parts)
  <2>1. \A i \in indices : cs[i] \in Contents
    BY PartsAreIndexed
  <2> QED
    BY <2>1 DEF Contents
<1>2. \A i \in indices : IsFiniteSet(Of(i))
  <2> SUFFICES ASSUME NEW i \in indices PROVE IsFiniteSet(Of(i))
    OBVIOUS
  <2>1. IsFiniteSet({i})
    BY FS_Singleton
  <2>2. IsFiniteSet(DOMAIN cs[i].parts)
    BY <1>1, PartsAreIndexed
  <2> QED
    BY <2>1, <2>2, FS_Product
<1>3. IsFiniteSet(indices)
  BY PartsAreIndexed, FS_Subset
<1>4. IsFiniteSet(T)
  <2>1. f \in Surjection(indices, T)
    BY DEF Surjection
  <2> HIDE DEF f, T
  <2> QED
    BY <1>3, <2>1, FS_Surjection
<1>5. IsFiniteSet(UNION T)
  <2>1. \A U \in T : IsFiniteSet(U)
    BY <1>2
  <2> HIDE DEF T
  <2> QED
    BY <1>4, <2>1, FS_UNION
<1>6. Quotes(cs, indices) \in SUBSET UNION T
  BY DEF Quotes
<1>7. IsFiniteSet(Quotes(cs, indices))
  <2> HIDE DEF T
  <2> QED
    BY <1>5, <1>6, FS_Subset
<1>8. ASSUME NEW q \in Quotes(cs, indices) PROVE Line(cs, q) \in Nat
  <2>1. q[1] \in indices /\ q[2] \in DOMAIN cs[q[1]].parts
    BY DEF Quotes
  <2>2. cs[q[1]].parts[q[2]] \in Parts
    BY <1>1, <2>1, PartsAreIndexed
  <2>3. cs[q[1]].parts[q[2]].size \in Nat
    BY <2>2 DEF Parts
  <2>4. Label \in Nat /\ Snippet \in Nat
    BY BudgetAssumption
  <2>5. \A size \in Nat : Label + AtMost(Snippet, size) \in Nat
    BY <2>4 DEF AtMost
  <2> QED
    BY <2>3, <2>5 DEF Line
<1> QED
  BY <1>7, <1>8

LEMMA NewestAreSome ==
    ASSUME NEW quotes, NEW n
    PROVE  Newest(quotes, n) \in SUBSET quotes
  BY DEF Newest

LEMMA LinesAreNat ==
    ASSUME NEW cs \in Seq(Contents), NEW indices \in SUBSET DOMAIN cs,
           NEW quotes \in SUBSET Quotes(cs, indices)
    PROVE  /\ Lines(cs, quotes) \in Nat
           /\ SumFunction([q \in quotes |-> Label + Line(cs, q)]) \in Nat
<1> DEFINE f == [q \in quotes |-> 1 + Line(cs, q)]
           g == [q \in quotes |-> Label + Line(cs, q)]
<1>1. IsFiniteSet(quotes)
  BY QuotesAreFinite, FS_Subset
<1>2. \A q \in quotes : Line(cs, q) \in Nat
  BY QuotesAreFinite
<1>3. /\ DOMAIN f = quotes /\ \A q \in quotes : f[q] \in Nat
      /\ DOMAIN g = quotes /\ \A q \in quotes : g[q] \in Nat
  BY <1>2, BudgetAssumption
<1>4. Lines(cs, quotes) = SumFunction(f) /\ SumFunction(g) = SumFunction([q \in quotes |-> Label + Line(cs, q)])
  BY DEF Lines
<1> HIDE DEF f, g
<1>5. SumFunction(f) \in Nat /\ SumFunction(g) \in Nat
  BY <1>1, <1>3, SumIsNat DEF SumFunction
<1> QED
  BY <1>4, <1>5

LEMMA RequestLinesAreNat ==
    ASSUME NEW cs \in Seq(Contents), NEW i \in DOMAIN cs
    PROVE  Quoted(cs[i]) \in Nat /\ RequestLine(cs, i) \in Nat
<1> DEFINE D == DOMAIN cs[i].parts
           texts == {k \in D : cs[i].parts[k].kind = "text"}
           f == [k \in texts |-> cs[i].parts[k].size]
           context == Newest(Quotes(cs, {i - 1} \ {0}), 1)
<1>1. cs[i].parts \in Seq(Parts)
  <2>1. cs[i] \in Contents
    BY PartsAreIndexed
  <2> QED
    BY <2>1 DEF Contents
<1>2. IsFiniteSet(texts)
  <2>1. IsFiniteSet(D)
    BY <1>1, PartsAreIndexed
  <2> QED
    BY <2>1, FS_Subset
<1>3. DOMAIN f = texts /\ \A k \in texts : f[k] \in Nat
  <2>1. \A k \in D : cs[i].parts[k] \in Parts
    BY <1>1, PartsAreIndexed
  <2> QED
    BY <2>1 DEF Parts
<1>4. SumFunction(f) \in Nat
  <2> HIDE DEF f, texts
  <2> QED
    BY <1>2, <1>3, SumIsNat DEF SumFunction
<1>5. Quoted(cs[i]) = Label + AtMost(Snippet, SumFunction(f))
  BY DEF Quoted
<1>6. Quoted(cs[i]) \in Nat
  <2> HIDE DEF f
  <2> QED
    BY <1>4, <1>5, BudgetAssumption DEF AtMost
<1>7. {i - 1} \ {0} \in SUBSET DOMAIN cs
  BY PartsAreIndexed
<1>8. context \in SUBSET Quotes(cs, {i - 1} \ {0})
  BY NewestAreSome
<1>9. SumFunction([q \in context |-> Label + Line(cs, q)]) \in Nat
  <2> HIDE DEF context
  <2> QED
    BY <1>7, <1>8, LinesAreNat
<1> QED
  BY <1>6, <1>9 DEF RequestLine

(* Each section is its lines under a title, cut to its tokens. *)
LEMMA SectionsAreCut ==
    ASSUME NEW cs \in Seq(Contents), NEW tokens \in Nat, NEW n \in 1..3
    PROVE  \E lines \in Nat : Sections(cs, tokens)[n] = Section(lines, SectionTokens(tokens))
<1> DEFINE current  == Latest(cs)
           earlier  == Requests(cs) \ {current}
           f        == [i \in earlier |-> 1 + RequestLine(cs, i)]
           progress == Quotes(cs, DOMAIN cs \ Requests(cs))
           activity == Quotes(cs, (current + 1)..Len(cs))
           now      == IF current = 0 THEN 1 + Title
                       ELSE 1 + Quoted(cs[current]) + Lines(cs, Newest(activity, 2))
<1>1. current \in 0..Len(cs) /\ Len(cs) \in Nat /\ DOMAIN cs = 1..Len(cs) /\ IsFiniteSet(DOMAIN cs)
  BY LatestIsOne, PartsAreIndexed
<1>2. SumFunction(f) \in Nat
  <2>1. earlier \in SUBSET DOMAIN cs
    BY DEF Requests
  <2>2. IsFiniteSet(earlier)
    BY <1>1, <2>1, FS_Subset
  <2>3. DOMAIN f = earlier /\ \A i \in earlier : f[i] \in Nat
    BY <2>1, RequestLinesAreNat
  <2> HIDE DEF f, earlier
  <2> QED
    BY <2>2, <2>3, SumIsNat DEF SumFunction
<1>3. Lines(cs, progress) \in Nat
  <2>1. DOMAIN cs \ Requests(cs) \in SUBSET DOMAIN cs
    OBVIOUS
  <2> QED
    BY <2>1, LinesAreNat
<1>4. now \in Nat
  <2>1. (current + 1)..Len(cs) \in SUBSET DOMAIN cs
    BY <1>1
  <2>2. Newest(activity, 2) \in SUBSET activity
    BY NewestAreSome
  <2>3. Lines(cs, Newest(activity, 2)) \in Nat
    <3> HIDE DEF current
    <3> QED
      BY <2>1, <2>2, LinesAreNat
  <2>4. current # 0 => Quoted(cs[current]) \in Nat
    BY <1>1, RequestLinesAreNat
  <2> HIDE DEF activity, current
  <2> QED
    BY <2>3, <2>4, BudgetAssumption
<1>5. Sections(cs, tokens) = [m \in 1..3 |-> Section(<<SumFunction(f), Lines(cs, progress), now>>[m],
                                                     SectionTokens(tokens))]
  BY DEF Sections
<1> HIDE DEF f, progress, now
<1>6. <<SumFunction(f), Lines(cs, progress), now>>[n] \in Nat
  <2>1. n = 1 \/ n = 2 \/ n = 3
    OBVIOUS
  <2> QED
    BY <1>2, <1>3, <1>4, <2>1
<1> QED
  BY <1>5, <1>6

LEMMA SectionTokensAreNat ==
    ASSUME NEW tokens \in Nat
    PROVE  /\ SectionTokens(tokens) \in Nat
           /\ SectionTokens(tokens) >= 1 => 3 * SectionTokens(tokens) <= tokens - Tokens(Notice) - 4
<1>1. Tokens(Notice) \in Nat
  BY BudgetAssumption DEF Tokens
<1> QED
  BY <1>1 DEF SectionTokens, AtLeast

(* The summary is within its tokens, and if any section is of some tokens,   *)
(* the sections together are too.                                            *)
LEMMA SummaryFits ==
    ASSUME NEW cs \in Seq(Contents), NEW tokens \in Nat
    PROVE  /\ Summary(cs, tokens) \in Nat
           /\ Tokens(Summary(cs, tokens)) <= tokens
           /\ tokens = 0 => Summary(cs, tokens) = 0
           /\ (\E n \in 1..3 : Sections(cs, tokens)[n] > 0)
                  => Summary(cs, tokens) = Joined(Sections(cs, tokens))
<1> DEFINE s == Sections(cs, tokens)
           each == SectionTokens(tokens)
<1>1. each \in Nat /\ (each >= 1 => 3 * each <= tokens - Tokens(Notice) - 4)
  BY SectionTokensAreNat
<1>2. Notice \in Nat /\ Notice >= 4 /\ Title \in Nat /\ Title >= 4 /\ Marker \in Nat /\ Marker >= 4
  BY BudgetAssumption
<1>3. ASSUME NEW n \in 1..3
      PROVE  s[n] \in Nat /\ (s[n] > 0 => each >= 1 /\ s[n] <= 4 * each + 3)
  <2>1. PICK lines \in Nat : s[n] = Section(lines, each)
    BY SectionsAreCut
  <2> HIDE DEF s, each
  <2>2. Title + lines \in Nat /\ Tokens(Title + lines) >= 1
    BY <1>2 DEF Tokens
  <2>3. s[n] = Fit(Title + lines, each)
    BY <2>1 DEF Section
  <2>4. s[n] \in Nat
    BY <1>1, <2>2, <2>3, FitFits
  <2>5. s[n] > 0 => each >= 1 /\ s[n] <= 4 * each + 3
    BY <1>1, <2>2, <2>3, FitOfSome
  <2> QED
    BY <2>4, <2>5
<1> HIDE DEF s, each
<1> DEFINE added(n) == IF s[n] = 0 THEN 0 ELSE 1 + s[n]
<1>4. Joined(s) = Notice + added(1) + added(2) + added(3)
  BY DEF Joined
<1>5. \A n \in 1..3 : added(n) \in Nat
  BY <1>3
<1>6. added(1) \in Nat /\ added(2) \in Nat /\ added(3) \in Nat
  BY <1>5
<1>7. Joined(s) \in Nat /\ Joined(s) >= 4
  <2> HIDE DEF added
  <2> QED
    BY <1>2, <1>4, <1>6
<1>8. Summary(cs, tokens) = Fit(Joined(s), tokens)
  BY DEF Summary, s
<1>9. ASSUME \E n \in 1..3 : s[n] > 0
      PROVE  Tokens(Joined(s)) <= tokens
  <2>1. each >= 1
    BY <1>3, <1>9
  <2>2. \A n \in 1..3 : added(n) <= 4 * each + 4
    BY <1>1, <1>3, <2>1
  <2>3. added(1) <= 4 * each + 4 /\ added(2) <= 4 * each + 4 /\ added(3) <= 4 * each + 4
    BY <2>2
  <2>4. 3 * each <= tokens - Tokens(Notice) - 4
    BY <1>1, <2>1
  <2> HIDE DEF added
  <2> QED
    BY <1>1, <1>2, <1>4, <1>6, <2>3, <2>4 DEF Tokens
<1>10. Fit(Joined(s), tokens) \in Nat /\ Tokens(Fit(Joined(s), tokens)) <= tokens
  BY <1>7, FitFits
<1>11. tokens = 0 => Fit(Joined(s), tokens) = 0
  BY <1>2, <1>7 DEF Fit, Tokens
<1>12. (\E n \in 1..3 : s[n] > 0) => Fit(Joined(s), tokens) = Joined(s)
  BY <1>9 DEF Fit
<1> QED
  BY <1>8, <1>10, <1>11, <1>12 DEF s

-----------------------------------------------------------------------------
LEMMA FromIsOne ==
    ASSUME NEW cs \in Seq(Contents)
    PROVE  From(cs) \in Nat \ {0} /\ (From(cs) # 1 => From(cs) \in Requests(cs))
<1> DEFINE few == {i \in Requests(cs) : Cardinality({j \in Requests(cs) : j > i}) = MaxRequests - 1}
<1>1. Len(cs) \in Nat /\ DOMAIN cs = 1..Len(cs)
  BY PartsAreIndexed
<1>2. few \in SUBSET (1..Len(cs)) /\ few \subseteq Requests(cs)
  BY <1>1 DEF Requests
<1>3. From(cs) = IF few = {} THEN 1 ELSE Max(few)
  BY DEF From
<1> HIDE DEF few
<1>4. few # {} => Max(few) \in few
  BY <1>1, <1>2, MaxOfIndices
<1>5. few # {} => From(cs) \in few
  BY <1>3, <1>4
<1>6. CASE few = {}
  BY <1>3, <1>6
<1>7. CASE few # {}
  <2>1. 1..Len(cs) \subseteq Nat \ {0}
    BY <1>1
  <2> QED
    BY <1>2, <1>5, <1>7, <2>1
<1> QED
  BY <1>6, <1>7

LEMMA StartsAreIndices ==
    ASSUME NEW cs \in Seq(Contents)
    PROVE  Starts(cs) \in SUBSET ((1..Len(cs)) \ {Latest(cs)})
<1>1. From(cs) \in Nat \ {0} /\ Len(cs) \in Nat
  BY FromIsOne, PartsAreIndexed
<1>2. Starts(cs) \subseteq (From(cs)..Len(cs)) \ {Latest(cs)}
  BY DEF Starts
<1> QED
  BY <1>1, <1>2

-----------------------------------------------------------------------------
(* The type invariant, with what is true until the cut begins: nothing is   *)
(* shortened, summarized or chosen.                                         *)
Types ==
    /\ given \in Seq(Contents) /\ contents \in Seq(Contents) /\ Len(contents) = Len(given)
    /\ limit \in Limits /\ limit \in Nat \ {0} /\ instructions \in Nat /\ tools \in Nat
    /\ latest \in 0..Len(given)
    /\ starts \in SUBSET ((1..Len(given)) \ {latest})
    /\ tail \in SUBSET ((1..Len(given)) \ {latest})
    /\ summary \in Nat /\ budget \in Int /\ rounds \in Nat

Begun ==
    /\ latest = Latest(given)
    /\ phase = "enter" => contents = Detach(given) /\ starts = {} /\ tail = {} /\ rounds = 0

LEMMA SinceIsSome ==
    ASSUME Types, NEW i \in Nat \ {0}
    PROVE  Since(i) \in SUBSET ((1..Len(given)) \ {latest})
  BY PartsAreIndexed DEF Types, Since

LEMMA RequestIsNat ==
    ASSUME Types, NEW summarized \in Nat, NEW sent \in SUBSET (1..Len(given))
    PROVE  Protected \in Nat /\ Weight(contents, sent) \in Nat /\ Request(summarized, sent) \in Nat
<1>1. DOMAIN contents = 1..Len(given) /\ \A i \in 1..Len(given) : contents[i] \in Contents
  BY PartsAreIndexed DEF Types
<1>2. latest # 0 => ContentWeight(contents[latest]) \in Nat
  BY <1>1, ContentWeightIsNat DEF Types
<1>3. Protected \in Nat
  BY <1>2 DEF Types, Protected
<1>4. Weight(contents, sent) \in Nat
  BY <1>1, WeightIsNat DEF Types
<1>5. \A weight \in Nat : Estimate(weight) \in Nat
  BY DEF Estimate, Tokens, AtLeast
<1>6. Protected + (IF summarized = 0 THEN 0 ELSE summarized + 1)
                + (IF sent = {} THEN 0 ELSE Weight(contents, sent)) \in Nat
  BY <1>3, <1>4
<1> QED
  BY <1>3, <1>4, <1>5, <1>6 DEF Request

LEMMA TokensLeftAreNat ==
    ASSUME Types
    PROVE  Target \in Nat \ {0} /\ Available \in Nat /\ SummaryTokens \in Nat
           /\ SummaryTokens <= Available
<1>1. Target \in Nat \ {0}
  BY BudgetAssumption DEF Types, Target, AtLeast
<1>2. Request(0, {}) \in Nat
  BY RequestIsNat
<1>3. Available \in Nat
  BY <1>1, <1>2, BudgetAssumption DEF Available, AtLeast
<1>4. limit \div 8 \in Nat
  BY DEF Types
<1> QED
  BY <1>1, <1>3, <1>4 DEF SummaryTokens, AtMost

(* The next group is of what is left, and not sent yet. *)
LEMMA GroupIsLeft ==
    ASSUME Types, Left # {}
    PROVE  /\ Max(Left) \in Left /\ \A s \in Left : s <= Max(Left)
           /\ Group \in SUBSET ((1..Len(given)) \ ({latest} \cup tail))
<1>1. Left \in SUBSET (1..Len(given)) /\ Len(given) \in Nat
  <2>1. starts \in SUBSET (1..Len(given)) /\ given \in Seq(Contents)
    BY DEF Types
  <2> QED
    BY <2>1, PartsAreIndexed DEF Left
<1>2. Max(Left) \in Left /\ \A s \in Left : s <= Max(Left)
  BY <1>1, MaxOfIndices
<1>3. Since(Max(Left)) \in SUBSET ((1..Len(given)) \ {latest})
  <2>1. Max(Left) \in Nat \ {0}
    <3>1. 1..Len(given) \subseteq Nat \ {0}
      BY <1>1
    <3> QED
      BY <1>1, <1>2, <3>1
  <2> QED
    BY <2>1, SinceIsSome
<1> QED
  BY <1>2, <1>3 DEF Group

LEMMA LongerIsNat ==
    ASSUME Types, Left # {}
    PROVE  Weight(contents, tail \cup Group) \in Nat /\ Longer \in Nat
<1>1. tail \cup Group \in SUBSET (1..Len(given))
  BY GroupIsLeft DEF Types
<1>2. Weight(contents, tail \cup Group) \in Nat
  BY <1>1, RequestIsNat
<1> QED
  BY <1>2 DEF Longer, Estimate, Tokens, AtLeast

LEMMA TypesAtFirst == Init => Types /\ Begun
<1> SUFFICES ASSUME Init PROVE Types /\ Begun
  OBVIOUS
<1> USE DEF Init
<1>1. given \in Seq(Contents)
  BY BudgetAssumption DEF Contents, Parts
<1>2. contents \in Seq(Contents) /\ Len(contents) = Len(given)
  BY <1>1, DetachedContents
<1>3. latest \in 0..Len(given)
  BY <1>1, LatestIsOne
<1>4. limit \in Limits /\ limit \in Nat \ {0} /\ instructions \in Nat /\ tools \in Nat
  BY BudgetAssumption
<1> QED
  BY <1>1, <1>2, <1>3, <1>4 DEF Types, Begun

LEMMA TypesKept == Types /\ Begun /\ [Next]_vars => (Types /\ Begun)'
<1> SUFFICES ASSUME Types, Begun, [Next]_vars PROVE (Types /\ Begun)'
  OBVIOUS
<1>1. CASE Accept
  <2>1. Since(1) \in SUBSET ((1..Len(given)) \ {latest})
    BY SinceIsSome
  <2> QED
    BY <1>1, <2>1 DEF Accept, Types, Begun, request
<1>2. CASE RemoveTools
  BY <1>2 DEF RemoveTools, Types, Begun, request
<1>3. CASE Refuse
  BY <1>3 DEF Refuse, Types, Begun, request
<1>4. CASE Summarize
  <2>1. summary' \in Nat
    BY <1>4, SummaryFits, TokensLeftAreNat DEF Summarize, Types
  <2>2. starts' \in SUBSET ((1..Len(given)) \ {latest})
    <3>1. Latest(contents) = latest
      <4>1. Requests(contents) = Requests(given)
        BY <1>4, DetachedRequests DEF Summarize, Begun, Types
      <4> QED
        BY <4>1 DEF Begun, Latest
    <3>2. starts' \in SUBSET ((1..Len(contents)) \ {Latest(contents)})
      BY <1>4, StartsAreIndices DEF Summarize, Types
    <3> QED
      BY <3>1, <3>2 DEF Types
  <2>3. budget' \in Int
    <3>1. Tokens(summary') \in Nat /\ Available \in Nat /\ limit \div 4 \in Nat
      <4>1. \A n \in Nat : n \div 4 \in Nat
        OBVIOUS
      <4>2. limit \in Nat /\ Available \in Nat
        BY TokensLeftAreNat DEF Types
      <4> QED
        BY <2>1, <4>1, <4>2 DEF Tokens
    <3> QED
      BY <1>4, <3>1 DEF Summarize, AtMost
  <2> QED
    BY <1>4, <2>1, <2>2, <2>3 DEF Summarize, Types, Begun, request
<1>5. CASE TakeGroup
  BY <1>5, GroupIsLeft DEF TakeGroup, Types, Begun, request
<1>6. CASE ShortenGroup
  <2>1. Group \in SUBSET DOMAIN contents
    BY <1>6, GroupIsLeft, PartsAreIndexed DEF ShortenGroup, Types
  <2>2. Longer \in Int /\ budget \in Int
    BY <1>6, LongerIsNat DEF ShortenGroup, Types
  <2>3. contents' \in Seq(Contents) /\ Len(contents') = Len(contents)
    BY <1>6, <2>1, <2>2, ShortenedContents DEF ShortenGroup, Types
  <2> QED
    BY <1>6, <2>3 DEF ShortenGroup, Types, Begun, request
<1>7. CASE EndTail
  BY <1>7 DEF EndTail, Types, Begun, request
<1>8. CASE Join
  <2>1. budget' \in Int
    <3>1. Request(summary, tail) \in Nat /\ Target \in Nat
      BY RequestIsNat, TokensLeftAreNat DEF Types
    <3> QED
      BY <1>8, <3>1, BudgetAssumption DEF Join, Types, AtLeast
  <2>2. summary' \in Nat /\ tail' \in SUBSET ((1..Len(given)) \ {latest})
    BY <1>8 DEF Join, Types
  <2> QED
    BY <1>8, <2>1, <2>2 DEF Join, Types, Begun, request
<1>9. CASE UNCHANGED vars
  BY <1>9 DEF vars, request, Types, Begun
<1> QED
  BY <1>1, <1>2, <1>3, <1>4, <1>5, <1>6, <1>7, <1>8, <1>9 DEF Next

LEMMA TypesAlways == Spec => [](Types /\ Begun)
BY TypesAtFirst, TypesKept, PTL DEF Spec

-----------------------------------------------------------------------------
(* A request and the longest reply to it fit the window together: the reply  *)
(* gets what the estimate leaves, less a reserve, and never less than that   *)
(* reserve, which the target left.  A window no larger than the reserve is   *)
(* not asked (guard_model_request ends such a turn before the reply is       *)
(* capped).                                                                  *)
THEOREM RepliesFitWindow ==
    ASSUME \A l \in Limits : Reserve < l
    PROVE  Spec => []RepliesFit
<1>1. Types /\ AcceptedRequestsFit => RepliesFit
  <2> SUFFICES ASSUME Types, AcceptedRequestsFit, phase = "fits"
               PROVE  Request(summary, tail) + OutputTokens(Request(summary, tail)) <= limit
    BY DEF RepliesFit
  <2> DEFINE estimate == Request(summary, tail)
  <2>1. estimate \in Nat /\ Target \in Nat
    BY RequestIsNat, TokensLeftAreNat DEF Types
  <2>2. estimate <= Target
    BY DEF AcceptedRequestsFit
  <2>3. limit \in Nat \ {0} /\ Reserve \in Nat /\ Reserve < limit
    BY BudgetAssumption DEF Types
  <2> HIDE DEF estimate
  <2>4. estimate <= limit - Reserve
    BY <2>1, <2>2, <2>3 DEF Target, AtLeast
  <2>5. estimate + OutputTokens(estimate) <= limit
    BY <2>1, <2>3, <2>4 DEF OutputTokens, AtLeast, AtMost
  <2> QED
    BY <2>5 DEF estimate
<1> QED
  BY <1>1, TypesAlways, RequestsFit, PTL

-----------------------------------------------------------------------------
(* What is left for summary and tail is the same from the cut on. *)
LEMMA LeftIsStable ==
    ASSUME Copies, phase # "enter", [Next]_vars
    PROVE  /\ phase' # "enter"
           /\ Target' = Target /\ Request(0, {})' = Request(0, {})
           /\ Available' = Available /\ SummaryTokens' = SummaryTokens
<1> USE DEF Target, Available, SummaryTokens
<1>1. CASE UNCHANGED <<request, tools, contents>>
  <2>1. Request(0, {})' = Request(0, {}) /\ limit' = limit
    BY <1>1 DEF Request, Protected, request
  <2>2. phase' # "enter"
    BY DEF Next, vars, Accept, RemoveTools, Refuse, Summarize, TakeGroup, ShortenGroup, EndTail, Join
  <2> QED
    BY <2>1, <2>2
<1>2. CASE ShortenGroup
  <2>1. latest \notin Group
    BY DEF Group, Since
  <2>2. latest # 0 => contents'[latest] = contents[latest]
    BY <1>2, <2>1, ShortenKeepsOthers DEF ShortenGroup, Copies
  <2>3. Request(0, {})' = Request(0, {}) /\ limit' = limit /\ phase' # "enter"
    BY <1>2, <2>2 DEF ShortenGroup, Request, Protected, request
  <2> QED
    BY <2>3
<1>3. ~(Accept \/ RemoveTools \/ Refuse \/ Summarize)
  BY DEF Accept, RemoveTools, TooLarge, Refuse, Summarize
<1>4. CASE TakeGroup \/ EndTail \/ Join \/ UNCHANGED vars
  BY <1>1, <1>4 DEF TakeGroup, EndTail, Join, vars, request
<1> QED
  BY <1>2, <1>3, <1>4 DEF Next

(* The summary takes no more than what is left, and the tail no more than    *)
(* what the summary leaves.                                                  *)
CutFits ==
    phase \in {"cut", "join"} =>
        /\ Tokens(summary) <= Available
        /\ Available = 0 => summary = 0
        /\ budget <= Available - Tokens(summary)
        /\ tail # {} => Estimate(Weight(contents, tail)) <= budget

(* Three estimates rounded down, and the newlines between what they are of,  *)
(* come to two tokens more at most.                                          *)
LEMMA TailFits ==
    ASSUME Slack >= 2, Types, CutFits, ProtectedFits, phase \in {"cut", "join"}
    PROVE  Request(summary, tail) <= Target
<1> DEFINE protected == Protected
           weight == Weight(contents, tail)
           target == Target
           available == Available
<1>1. protected \in Nat /\ weight \in Nat /\ target \in Nat /\ available \in Nat
  BY RequestIsNat, TokensLeftAreNat DEF Types
<1>2. summary \in Nat /\ budget \in Int /\ Slack \in Nat
  BY BudgetAssumption DEF Types
<1>0. Request(0, {}) = Estimate(protected)
  <2>1. protected + 0 + 0 = protected
    BY <1>1
  <2> QED
    BY <2>1 DEF Request
<1>3. Estimate(protected) <= target
  BY <1>0 DEF ProtectedFits
<1>4. available = AtLeast(0, target - Estimate(protected) - Slack)
  BY <1>0 DEF Available
<1>5. /\ Tokens(summary) <= available /\ (available = 0 => summary = 0)
      /\ budget <= available - Tokens(summary)
      /\ tail # {} => Estimate(weight) <= budget
  BY DEF CutFits
<1>6. Request(summary, tail) = Estimate(protected + (IF summary = 0 THEN 0 ELSE summary + 1)
                                                  + (IF tail = {} THEN 0 ELSE weight))
  BY DEF Request
<1> HIDE DEF protected, weight, target, available
<1>7. CASE tail = {}
  <2>1. Request(summary, tail) = Estimate(protected + (IF summary = 0 THEN 0 ELSE summary + 1))
    BY <1>1, <1>2, <1>6, <1>7
  <2>2. CASE summary = 0
    <3>1. Request(summary, tail) = Estimate(protected)
      BY <1>1, <2>1, <2>2
    <3> QED
      BY <1>3, <3>1 DEF target
  <2>3. CASE summary # 0
    <3>1. Request(summary, tail) = Estimate(protected + summary + 1)
      BY <1>1, <1>2, <2>1, <2>3
    <3>2. target = Estimate(protected) + Slack + available
      BY <1>1, <1>2, <1>4, <1>5, <2>3 DEF Estimate, AtLeast, Tokens
    <3>3. Estimate(protected + summary + 1) <= Estimate(protected) + Tokens(summary) + 1
      BY <1>1, <1>2 DEF Estimate, AtLeast, Tokens
    <3>4. Estimate(protected) \in Int /\ Estimate(protected + summary + 1) \in Int /\ Tokens(summary) \in Int
      BY <1>1, <1>2 DEF Estimate, AtLeast, Tokens
    <3> QED
      BY <1>1, <1>2, <1>5, <3>1, <3>2, <3>3, <3>4 DEF target
  <2> QED
    BY <2>2, <2>3
<1>8. CASE tail # {}
  <2>1. Request(summary, tail) = Estimate(protected + (IF summary = 0 THEN 0 ELSE summary + 1) + weight)
    BY <1>6, <1>8
  <2> DEFINE all == protected + (IF summary = 0 THEN 0 ELSE summary + 1) + weight
  <2>2. all \in Nat /\ all <= protected + summary + 1 + weight
    BY <1>1, <1>2
  <2>3. Estimate(all) <= Estimate(protected) + Tokens(summary) + Estimate(weight) + 2
    <3> HIDE DEF all
    <3> QED
      BY <1>1, <1>2, <2>2 DEF Estimate, AtLeast, Tokens
  <2>4. Estimate(protected) \in Nat /\ Estimate(all) \in Nat /\ Tokens(summary) \in Nat
        /\ Estimate(weight) \in Nat \ {0}
    BY <1>1, <1>2, <2>2 DEF Estimate, AtLeast, Tokens
  <2> HIDE DEF all
  <2>5. available >= 1
    BY <1>1, <1>2, <1>5, <1>8, <2>4
  <2>6. target = Estimate(protected) + Slack + available
    BY <1>1, <1>2, <1>4, <2>4, <2>5 DEF AtLeast
  <2>7. Tokens(summary) + Estimate(weight) <= available
    BY <1>1, <1>2, <1>5, <1>8, <2>4
  <2> QED
    BY <1>1, <1>2, <2>1, <2>3, <2>4, <2>6, <2>7 DEF all, target
<1> QED
  BY <1>7, <1>8

LEMMA CutFitsKept ==
    ASSUME Slack >= 2
    PROVE  Copies /\ Types /\ Begun /\ ProtectedFits /\ CutFits /\ [Next]_vars => CutFits'
<1> SUFFICES ASSUME Copies, Types, Begun, ProtectedFits, CutFits, [Next]_vars
             PROVE  CutFits'
  OBVIOUS
<1>1. CASE Summarize
  <2>1. contents \in Seq(Contents) /\ SummaryTokens \in Nat /\ SummaryTokens <= Available /\ Available \in Nat
    BY TokensLeftAreNat DEF Types
  <2>2. summary' \in Nat /\ Tokens(summary') <= SummaryTokens
        /\ (SummaryTokens = 0 => summary' = 0)
    BY <1>1, <2>1, SummaryFits DEF Summarize
  <2>3. Tokens(summary') \in Nat /\ limit \div 4 \in Nat
    <3>1. limit \in Nat /\ \A n \in Nat : n \div 4 \in Nat
      BY DEF Types
    <3> QED
      BY <2>2, <3>1 DEF Tokens
  <2>4. Available' = Available
    BY <1>1 DEF Summarize, Available, Target, Request, Protected, request
  <2>5. budget' <= Available - Tokens(summary')
    BY <1>1, <2>1, <2>3 DEF Summarize, AtMost
  <2>6. tail' = {}
    BY <1>1 DEF Summarize, Begun
  <2>7. Tokens(summary') <= Available /\ (Available = 0 => summary' = 0)
    BY <2>1, <2>2, <2>3
  <2>8. Tokens(summary)' = Tokens(summary')
    BY DEF Tokens
  <2> QED
    BY <2>4, <2>5, <2>6, <2>7, <2>8 DEF CutFits
<1>2. CASE TakeGroup
  <2>1. phase # "enter" /\ phase \in {"cut", "join"}
    BY <1>2 DEF TakeGroup
  <2>2. Available' = Available
    BY <2>1, LeftIsStable
  <2>3. Estimate(Weight(contents, tail))' = Longer
    BY <1>2 DEF TakeGroup, Longer
  <2>4. Estimate(Weight(contents, tail))' <= budget' /\ budget' = budget /\ summary' = summary
    BY <1>2, <2>3 DEF TakeGroup
  <2> QED
    BY <2>1, <2>2, <2>4 DEF CutFits, Tokens
<1>3. CASE ShortenGroup
  <2>1. phase # "enter" /\ phase \in {"cut", "join"}
    BY <1>3 DEF ShortenGroup
  <2>2. Available' = Available
    BY <2>1, LeftIsStable
  <2>3. tail' = tail /\ budget' = budget /\ summary' = summary
    BY <1>3 DEF ShortenGroup
  <2>4. Weight(contents, tail)' = Weight(contents, tail)
    <3>1. DOMAIN contents = 1..Len(given) /\ IsFiniteSet(1..Len(given)) /\ tail \in SUBSET (1..Len(given))
      BY PartsAreIndexed DEF Types
    <3>2. IsFiniteSet(tail)
      BY <3>1, FS_Subset
    <3>3. \A i \in tail : i \notin Group
      BY DEF Group
    <3>4. \A i \in tail : contents'[i] = contents[i]
      BY <1>3, <3>1, <3>3, ShortenKeepsOthers DEF ShortenGroup
    <3>5. Weight(contents', tail) = Weight(contents, tail)
      BY <3>2, <3>4, WeightOfSame
    <3> QED
      BY <2>3, <3>5
  <2>5. Estimate(Weight(contents, tail))' = Estimate(Weight(contents, tail))
    BY <2>4 DEF Estimate, Tokens, AtLeast
  <2> QED
    BY <2>1, <2>2, <2>3, <2>5 DEF CutFits, Tokens
<1>4. CASE EndTail
  <2>1. phase # "enter" /\ phase \in {"cut", "join"}
    BY <1>4 DEF EndTail
  <2>2. Available' = Available
    BY <2>1, LeftIsStable
  <2>3. UNCHANGED <<contents, tail, budget, summary>>
    BY <1>4 DEF EndTail
  <2> QED
    BY <2>1, <2>2, <2>3 DEF CutFits, Tokens, Estimate, Weight, AtLeast
<1>5. CASE Join
  <2>1. phase \in {"cut", "join"}
    BY <1>5 DEF Join
  <2>2. Request(summary, tail) <= Target
    BY <2>1, TailFits
  <2> QED
    BY <1>5, <2>2 DEF Join, CutFits
<1>6. CASE Accept \/ RemoveTools \/ Refuse
  BY <1>6 DEF Accept, RemoveTools, TooLarge, Refuse, CutFits
<1>7. CASE UNCHANGED vars
  <2>1. Available' = Available
    BY <1>7 DEF vars, Available, Target, Request, Protected, request
  <2> QED
    BY <1>7, <2>1 DEF vars, CutFits, Tokens, Estimate, Weight, AtLeast
<1> QED
  BY <1>1, <1>2, <1>3, <1>4, <1>5, <1>6, <1>7 DEF Next

LEMMA CutFitsAlways ==
    ASSUME Slack >= 2
    PROVE  Spec => []CutFits
<1>1. Init => CutFits
  BY DEF Init, CutFits
<1> QED
  BY <1>1, CutFitsKept, CopiesKept, TypesAlways, FitsAlways, PTL DEF Spec

(* The request is sent as it was first put together: with two tokens of     *)
(* slack (the code leaves eight), the tail that was cut to its budget fits,  *)
(* and neither a smaller tail nor a request without its summary is tried.    *)
THEOREM FirstTailIsSent ==
    ASSUME Slack >= 2
    PROVE  Spec => FirstTailFits
<1>1. Types /\ CutFits /\ ProtectedFits /\ [Next]_vars
          => [phase = "join" => phase' = "fits" /\ summary' = summary]_vars
  <2> SUFFICES ASSUME Types, CutFits, ProtectedFits, [Next]_vars, phase = "join", ~UNCHANGED vars
               PROVE  phase' = "fits" /\ summary' = summary
    OBVIOUS
  <2>1. Join
    BY DEF Next, Accept, RemoveTools, TooLarge, Refuse, Summarize, TakeGroup, ShortenGroup, EndTail
  <2>2. Request(summary, tail) <= Target
    BY TailFits
  <2> QED
    BY <2>1, <2>2 DEF Join
<1> QED
  BY <1>1, CutFitsAlways, TypesAlways, FitsAlways, PTL DEF Spec, FirstTailFits

-----------------------------------------------------------------------------
(* The sections of a summary are cut one by one, so that none crowds out     *)
(* those behind it: a section of some tokens leaves room for the notice and  *)
(* all sections in full.                                                     *)
THEOREM SectionsAreWhole == Spec => []SectionsSurvive
<1>1. Init => SectionsSurvive
  BY DEF Init, SectionsSurvive
<1>2. Copies /\ Types /\ Begun /\ SectionsSurvive /\ [Next]_vars => SectionsSurvive'
  <2> SUFFICES ASSUME Copies, Types, Begun, SectionsSurvive, [Next]_vars
               PROVE  SectionsSurvive'
    OBVIOUS
  <2>1. CASE Summarize
    <3>1. contents = Detach(given) /\ contents \in Seq(Contents) /\ given' = given
      BY <2>1 DEF Summarize, Begun, Types, request
    <3>2. SummaryTokens' = SummaryTokens /\ SummaryTokens \in Nat
      BY <2>1, TokensLeftAreNat DEF Summarize, SummaryTokens, Available, Target, Request, Protected, request
    <3>3. (\E n \in 1..3 : Sections(contents, SummaryTokens)[n] > 0)
              => summary' = Joined(Sections(contents, SummaryTokens))
      BY <2>1, <3>1, <3>2, SummaryFits DEF Summarize
    <3>4. Sections(Detach(given), SummaryTokens)' = Sections(contents, SummaryTokens)
      BY <3>1, <3>2
    <3> QED
      BY <3>3, <3>4 DEF SectionsSurvive
  <2>2. CASE phase # "enter"
    <3>1. SummaryTokens' = SummaryTokens
      BY <2>2, LeftIsStable
    <3>2. given' = given /\ starts' = starts /\ (summary' = summary \/ summary' = 0)
      BY <2>2 DEF Next, vars, Accept, RemoveTools, TooLarge, Refuse, Summarize, TakeGroup, ShortenGroup,
                  EndTail, Join, request
    <3>3. Sections(Detach(given), SummaryTokens)' = Sections(Detach(given), SummaryTokens)
      BY <3>1, <3>2
    <3> QED
      BY <3>2, <3>3 DEF SectionsSurvive
  <2>3. CASE phase = "enter" /\ ~Summarize
    <3>1. starts' = {}
      BY <2>3 DEF Next, vars, Accept, RemoveTools, Refuse, TakeGroup, ShortenGroup, EndTail, Join, Begun
    <3> QED
      BY <3>1 DEF SectionsSurvive
  <2> QED
    BY <2>1, <2>2, <2>3
<1> QED
  BY <1>1, <1>2, CopiesKept, TypesAlways, PTL DEF Spec

-----------------------------------------------------------------------------

(* Of a set of numbers, how many are from i on, and how many behind it. *)
SinceOf(R, i) == {j \in R : j >= i}
NewerOf(R, i) == {j \in R : j > i}

LEMMA IndicesAreFinite ==
    ASSUME NEW n \in Nat, NEW R \in SUBSET (1..n)
    PROVE  IsFiniteSet(R) /\ Cardinality(R) \in Nat
<1>1. IsFiniteSet(1..n)
  BY FS_Interval
<1>2. IsFiniteSet(R)
  BY <1>1, FS_Subset
<1> QED
  BY <1>2, FS_CardinalityType

LEMMA CountedBack ==
    ASSUME NEW n \in Nat, NEW R \in SUBSET (1..n), NEW i \in 1..n
    PROVE  /\ Cardinality(SinceOf(R, i)) \in Nat /\ Cardinality(NewerOf(R, i)) \in Nat
           /\ i \in R => Cardinality(SinceOf(R, i)) = Cardinality(NewerOf(R, i)) + 1
           /\ i \notin R => Cardinality(SinceOf(R, i)) = Cardinality(NewerOf(R, i))
           /\ i = n => NewerOf(R, i) = {}
<1>0. i \in Int /\ \A j \in R : j \in Int /\ j <= n
  OBVIOUS
<1>1. IsFiniteSet(R)
  BY IndicesAreFinite
<1>2. SinceOf(R, i) \in SUBSET R /\ NewerOf(R, i) \in SUBSET R
  BY DEF SinceOf, NewerOf
<1>3. IsFiniteSet(SinceOf(R, i)) /\ IsFiniteSet(NewerOf(R, i))
  BY <1>1, <1>2, FS_Subset
<1>4. i \notin NewerOf(R, i)
  BY DEF NewerOf
<1>10. \A j \in R : j >= i <=> j > i \/ j = i
  BY <1>0
<1>11. \A j : j \in SinceOf(R, i) <=> j \in R /\ (j > i \/ j = i)
  BY <1>10 DEF SinceOf
<1>12. \A j : j \in NewerOf(R, i) <=> j \in R /\ j > i
  BY DEF NewerOf
<1>5. i \in R => SinceOf(R, i) = NewerOf(R, i) \cup {i}
  BY <1>11, <1>12
<1>6. i \notin R => SinceOf(R, i) = NewerOf(R, i)
  BY <1>11, <1>12
<1>7. i = n => NewerOf(R, i) = {}
  <2>1. \A j \in R : ~(j > n)
    BY <1>0
  <2> QED
    BY <2>1 DEF NewerOf
<1>8. Cardinality(SinceOf(R, i)) \in Nat /\ Cardinality(NewerOf(R, i)) \in Nat
  BY <1>3, FS_CardinalityType
<1>9. i \in R => Cardinality(SinceOf(R, i)) = Cardinality(NewerOf(R, i)) + 1
  BY <1>3, <1>4, <1>5, FS_AddElement
<1> QED
  BY <1>6, <1>7, <1>8, <1>9

(* If none is the most-th from the end, there are fewer. *)
LEMMA FewerThan ==
    ASSUME NEW n \in Nat, NEW R \in SUBSET (1..n), NEW most \in Nat \ {0},
           \A i \in R : Cardinality(NewerOf(R, i)) # most - 1
    PROVE  Cardinality(R) < most
<1> DEFINE S == {i \in 1..n : Cardinality(SinceOf(R, i)) >= most}
<1>1. S = {}
  <2> SUFFICES ASSUME S # {} PROVE FALSE
    OBVIOUS
  <2>1. PICK m \in 1..n : m \in S /\ \A i \in S : i <= m
    <3>1. S \in SUBSET (1..n)
      OBVIOUS
    <3> HIDE DEF S
    <3> QED
      BY <3>1, MaxOfIndices
  <2>2. m \in 1..n /\ m \in Nat /\ Cardinality(SinceOf(R, m)) >= most
    BY <2>1
  <2>3. m + 1 \notin S
    BY <2>1, <2>2
  <2>4. Cardinality(NewerOf(R, m)) < most
    <3>1. CASE m = n
      <4>1. Cardinality(NewerOf(R, m)) = 0
        BY <2>2, <3>1, CountedBack, FS_EmptySet
      <4> QED
        BY <4>1
    <3>2. CASE m # n
      <4>1. m + 1 \in 1..n
        BY <2>2, <3>2
      <4>2. ~(Cardinality(SinceOf(R, m + 1)) >= most)
        BY <2>3, <4>1
      <4>3. Cardinality(NewerOf(R, m)) \in Nat
        BY <2>2, CountedBack
      <4>4. NewerOf(R, m) = SinceOf(R, m + 1)
        <5>1. \A j \in R : j > m <=> j >= m + 1
          BY <2>2
        <5> QED
          BY <5>1 DEF NewerOf, SinceOf
      <4> QED
        BY <4>2, <4>3, <4>4
    <3> QED
      BY <3>1, <3>2
  <2>5. /\ Cardinality(NewerOf(R, m)) \in Nat
        /\ m \in R => Cardinality(SinceOf(R, m)) = Cardinality(NewerOf(R, m)) + 1
        /\ m \notin R => Cardinality(SinceOf(R, m)) = Cardinality(NewerOf(R, m))
    BY <2>2, CountedBack
  <2>6. m \in R /\ Cardinality(NewerOf(R, m)) = most - 1
    <3>1. Cardinality(SinceOf(R, m)) >= most
      BY <2>2
    <3> QED
      BY <2>4, <2>5, <3>1
  <2> QED
    BY <2>6
<1>2. CASE n = 0
  <2>1. R = {}
    BY <1>2
  <2> QED
    BY <2>1, FS_EmptySet
<1>3. CASE n # 0
  <2>1. 1 \in 1..n
    BY <1>3
  <2>2. SinceOf(R, 1) = R
    <3>1. \A j \in R : j >= 1
      OBVIOUS
    <3> QED
      BY <3>1 DEF SinceOf
  <2>3. ~(Cardinality(R) >= most)
    BY <1>1, <2>1, <2>2
  <2>4. Cardinality(R) \in Nat
    BY IndicesAreFinite
  <2> QED
    BY <2>3, <2>4
<1> QED
  BY <1>2, <1>3

(* A tail begins no earlier than the MaxRequests-th request from the end. *)
LEMMA RequestsFrom ==
    ASSUME NEW cs \in Seq(Contents)
    PROVE  Cardinality(SinceOf(Requests(cs), From(cs))) <= MaxRequests
<1> DEFINE R   == Requests(cs)
           few == {i \in R : Cardinality(NewerOf(R, i)) = MaxRequests - 1}
           n   == Len(cs)
<1>1. n \in Nat /\ R \in SUBSET (1..n)
  BY PartsAreIndexed DEF Requests
<1>2. MaxRequests \in Nat \ {0}
  BY BudgetAssumption
<1>3. From(cs) = IF few = {} THEN 1 ELSE Max(few)
  BY DEF From, NewerOf
<1> HIDE DEF R, n
<1>4. few \in SUBSET (1..n)
  BY <1>1
<1>5. CASE few # {}
  <2>1. From(cs) \in few
    <3> HIDE DEF few
    <3> QED
      BY <1>1, <1>3, <1>4, <1>5, MaxOfIndices
  <2>2. From(cs) \in R /\ From(cs) \in 1..n /\ Cardinality(NewerOf(R, From(cs))) = MaxRequests - 1
    BY <1>1, <2>1
  <2>3. Cardinality(SinceOf(R, From(cs))) = MaxRequests
    <3>1. Cardinality(SinceOf(R, From(cs))) = Cardinality(NewerOf(R, From(cs))) + 1
      BY <1>1, <2>2, CountedBack
    <3> QED
      BY <1>2, <2>2, <3>1
  <2> QED
    BY <1>2, <2>3 DEF R
<1>6. CASE few = {}
  <2>1. \A i \in R : Cardinality(NewerOf(R, i)) # MaxRequests - 1
    BY <1>6
  <2>2. Cardinality(R) < MaxRequests
    BY <1>1, <1>2, <2>1, FewerThan
  <2>3. From(cs) = 1
    BY <1>3, <1>6
  <2>4. SinceOf(R, 1) = R
    <3>1. \A j \in R : j >= 1
      BY <1>1
    <3> QED
      BY <3>1 DEF SinceOf
  <2>5. Cardinality(R) \in Nat
    BY <1>1, IndicesAreFinite
  <2> QED
    BY <1>2, <2>2, <2>3, <2>4, <2>5 DEF R
<1> QED
  BY <1>5, <1>6

LEMMA RequestsSince ==
    ASSUME NEW cs \in Seq(Contents), NEW S \in SUBSET Requests(cs), \A i \in S : i >= From(cs)
    PROVE  Cardinality(S) <= MaxRequests
<1>1. Len(cs) \in Nat /\ Requests(cs) \in SUBSET (1..Len(cs))
  BY PartsAreIndexed DEF Requests
<1>2. S \in SUBSET SinceOf(Requests(cs), From(cs))
  BY DEF SinceOf
<1>3. SinceOf(Requests(cs), From(cs)) \in SUBSET (1..Len(cs))
  BY <1>1 DEF SinceOf
<1>4. /\ IsFiniteSet(SinceOf(Requests(cs), From(cs)))
      /\ Cardinality(SinceOf(Requests(cs), From(cs))) \in Nat
      /\ Cardinality(S) \in Nat
  <2>1. S \in SUBSET (1..Len(cs))
    BY <1>1
  <2> QED
    BY <1>1, <1>3, <2>1, IndicesAreFinite
<1>5. Cardinality(S) <= Cardinality(SinceOf(Requests(cs), From(cs)))
  BY <1>2, <1>4, FS_Subset
<1> QED
  BY <1>4, <1>5, RequestsFrom, BudgetAssumption

(* The current request is none before the first of a tail. *)
LEMMA LatestIsSince ==
    ASSUME NEW cs \in Seq(Contents), Latest(cs) # 0
    PROVE  Latest(cs) \in Requests(cs) /\ Latest(cs) >= From(cs)
<1>1. Len(cs) \in Nat /\ Requests(cs) \in SUBSET (1..Len(cs))
  BY PartsAreIndexed DEF Requests
<1>2. Requests(cs) # {} /\ Latest(cs) = Max(Requests(cs))
  BY DEF Latest
<1>3. Latest(cs) \in Requests(cs) /\ \A i \in Requests(cs) : i <= Latest(cs)
  BY <1>1, <1>2, MaxOfIndices
<1>4. Latest(cs) \in Nat \ {0}
  <2>1. 1..Len(cs) \subseteq Nat \ {0}
    BY <1>1
  <2> QED
    BY <1>1, <1>3, <2>1
<1>5. From(cs) \in Nat \ {0} /\ (From(cs) # 1 => From(cs) \in Requests(cs))
  BY FromIsOne
<1>6. CASE From(cs) = 1
  BY <1>3, <1>4, <1>6
<1>7. CASE From(cs) # 1
  BY <1>3, <1>4, <1>5, <1>7
<1> QED
  BY <1>6, <1>7

(* The tail is all that follows the start of a group, and only the group it  *)
(* begins with is shortened.                                                 *)
TailIsRecent ==
    /\ \A s \in starts : s >= From(given)
    /\ tail = {} \/ (starts = {} /\ tail = Since(1)) \/ \E s \in starts : tail = Since(s)

Changed == {i \in DOMAIN given : contents[i] # Detach(given)[i]}

OldestIsShortened ==
    /\ phase = "enter" => Changed = {}
    /\ phase = "cut" => \A i \in Changed : rounds # 0 /\ Left # {} /\ i \in Group
    /\ phase \in {"join", "fits"} =>
           \A i \in tail \cap Changed : \A s \in starts \cap tail : s <= i => \A j \in tail : s <= j

LEMMA TailIsRecentAtFirst == Init => TailIsRecent /\ OldestIsShortened
  BY DEF Init, TailIsRecent, OldestIsShortened, Changed

(* Taking a group, the tail is all since its start. *)
LEMMA TakenSince ==
    ASSUME Types, TailIsRecent, Left # {}
    PROVE  tail \cup Group = Since(Max(Left))
<1>1. Max(Left) \in Left
  BY GroupIsLeft
<1>2. Max(Left) \in starts /\ (\A i \in tail : Max(Left) < i)
  BY <1>1 DEF Left
<1>3. tail \in SUBSET ((1..Len(given)) \ {latest}) /\ Max(Left) \in 1..Len(given) /\ Len(given) \in Nat
  BY <1>2, PartsAreIndexed DEF Types
<1>4. \A i \in tail : i \in Since(Max(Left))
  BY <1>2, <1>3 DEF Since
<1> QED
  BY <1>4 DEF Group

(* Of the groups sent, the one taken last is the oldest. *)
LEMMA TakenIsOldest ==
    ASSUME Types, TailIsRecent, Left # {}, NEW i \in Group,
           NEW s \in starts \cap (tail \cup Group), s <= i
    PROVE  \A j \in tail \cup Group : s <= j
<1>1. Max(Left) \in Left /\ \A r \in Left : r <= Max(Left)
  BY GroupIsLeft
<1>2. tail \cup Group = Since(Max(Left))
  BY TakenSince
<1>3. Len(given) \in Nat /\ starts \in SUBSET (1..Len(given)) /\ tail \in SUBSET (1..Len(given))
      /\ Group \in SUBSET ((1..Len(given)) \ ({latest} \cup tail))
  BY PartsAreIndexed, GroupIsLeft DEF Types
<1>4. i \in 1..Len(given) /\ i # latest /\ i \notin tail /\ s \in starts /\ s \in 1..Len(given)
  BY <1>3
<1>5. Max(Left) \in starts /\ Max(Left) \in 1..Len(given)
  BY <1>1, <1>3 DEF Left
<1>6. s >= Max(Left) /\ \A j \in tail \cup Group : j >= Max(Left)
  BY <1>2 DEF Since
<1>7. s \in Left
  <2>1. CASE tail = {}
    BY <1>4, <2>1 DEF Left
  <2>2. CASE tail # {}
    <3>1. starts # {}
      BY <1>4
    <3>2. PICK t \in starts : tail = Since(t)
      BY <2>2, <3>1 DEF TailIsRecent
    <3>3. t \in 1..Len(given)
      BY <1>3
    <3>4. i < t
      BY <1>3, <1>4, <3>2, <3>3 DEF Since
    <3>5. \A j \in tail : j >= t /\ j \in 1..Len(given)
      BY <1>3, <3>2 DEF Since
    <3>6. \A j \in tail : s < j
      BY <1>3, <1>4, <3>3, <3>4, <3>5
    <3> QED
      BY <1>4, <3>6 DEF Left
  <2> QED
    BY <2>1, <2>2
<1>8. s = Max(Left)
  BY <1>1, <1>3, <1>4, <1>5, <1>6, <1>7
<1> QED
  BY <1>6, <1>8

LEMMA TailIsRecentKept ==
    Types /\ Begun /\ TailIsRecent /\ [Next]_vars => TailIsRecent'
<1> SUFFICES ASSUME Types, Begun, TailIsRecent, [Next]_vars
             PROVE  TailIsRecent'
  OBVIOUS
<1> USE DEF TailIsRecent
<1>1. given' = given /\ \A i : Since(i)' = Since(i)
  <2>1. given' = given /\ latest' = latest
    BY DEF Next, vars, request, Accept, RemoveTools, Refuse, Summarize, TakeGroup, ShortenGroup, EndTail, Join
  <2> QED
    BY <2>1 DEF Since
<1>2. CASE UNCHANGED <<starts, tail>>
  BY <1>1, <1>2
<1>3. CASE Accept
  BY <1>1, <1>3 DEF Accept, Begun
<1>4. CASE Summarize
  <2>1. tail' = {}
    BY <1>4 DEF Summarize, Begun
  <2>2. \A s \in starts' : s >= From(given)
    <3>1. contents = Detach(given) /\ given \in Seq(Contents)
      BY <1>4 DEF Summarize, Begun, Types
    <3>2. From(contents) = From(given)
      BY <3>1, DetachedRequests DEF From
    <3>3. \A s \in Starts(contents) : s >= From(contents)
      BY DEF Starts
    <3> QED
      BY <1>4, <3>2, <3>3 DEF Summarize
  <2> QED
    BY <1>1, <2>1, <2>2
<1>5. CASE TakeGroup
  <2>1. tail' = Since(Max(Left)) /\ starts' = starts
    BY <1>5, TakenSince DEF TakeGroup
  <2>2. Max(Left) \in starts
    BY <1>5, GroupIsLeft DEF TakeGroup, Left
  <2> QED
    BY <1>1, <2>1, <2>2
<1>6. CASE Join
  BY <1>1, <1>6 DEF Join
<1>7. CASE RemoveTools \/ Refuse \/ ShortenGroup \/ EndTail \/ UNCHANGED vars
  BY <1>2, <1>7 DEF RemoveTools, Refuse, ShortenGroup, EndTail, vars
<1> QED
  BY <1>3, <1>4, <1>5, <1>6, <1>7 DEF Next

LEMMA OldestIsShortenedKept ==
    ASSUME Slack >= 2
    PROVE  Types /\ Begun /\ TailIsRecent /\ OldestIsShortened /\ CutFits /\ ProtectedFits /\ [Next]_vars
               => OldestIsShortened'
<1> SUFFICES ASSUME Types, Begun, TailIsRecent, OldestIsShortened, CutFits, ProtectedFits, [Next]_vars
             PROVE  OldestIsShortened'
  OBVIOUS
<1>1. CASE Accept \/ RemoveTools \/ Refuse
  BY <1>1 DEF Accept, RemoveTools, TooLarge, Refuse, OldestIsShortened, Changed, request
<1>2. CASE Summarize
  BY <1>2 DEF Summarize, OldestIsShortened, Changed, request
<1>3. CASE TakeGroup
  <2>1. Left # {} /\ tail' = tail \cup Group /\ starts' = starts
    BY <1>3 DEF TakeGroup
  <2>2. Changed' = Changed /\ phase = "cut"
    BY <1>3 DEF TakeGroup, Changed, request
  <2>3. CASE rounds = 0
    <3>1. Changed = {} /\ phase' = "cut"
      BY <1>3, <2>2, <2>3 DEF TakeGroup, OldestIsShortened
    <3> QED
      BY <2>2, <3>1 DEF OldestIsShortened
  <2>4. CASE rounds # 0
    <3>1. phase' = "join" /\ Changed \subseteq Group
      BY <1>3, <2>2, <2>4 DEF TakeGroup, OldestIsShortened
    <3>2. \A i \in Group : \A s \in starts \cap (tail \cup Group) :
              s <= i => \A j \in tail \cup Group : s <= j
      BY <2>1, TakenIsOldest
    <3> QED
      BY <2>1, <2>2, <3>1, <3>2 DEF OldestIsShortened
  <2> QED
    BY <2>3, <2>4
<1>4. CASE ShortenGroup
  <2>1. /\ phase = "cut" /\ phase' = "cut" /\ Left # {} /\ rounds' = rounds + 1
        /\ UNCHANGED <<given, latest, starts, tail>>
        /\ contents' = Shorten(contents, Group, Longer, budget)
    BY <1>4 DEF ShortenGroup, request
  <2>2. Left' = Left /\ Group' = Group
    BY <2>1 DEF Left, Group, Since
  <2>3. DOMAIN contents = DOMAIN given
    BY PartsAreIndexed DEF Types
  <2>4. \A i \in Changed' : i \in Group
    <3> SUFFICES ASSUME NEW i \in Changed', i \notin Group PROVE FALSE
      OBVIOUS
    <3>1. i \in DOMAIN given /\ contents'[i] # Detach(given)[i]
      BY <2>1 DEF Changed
    <3>2. contents'[i] = contents[i]
      BY <2>1, <2>3, <3>1, ShortenKeepsOthers
    <3>3. i \in Changed
      BY <3>1, <3>2 DEF Changed
    <3> QED
      BY <2>1, <3>3 DEF OldestIsShortened
  <2>5. rounds' # 0
    BY <2>1 DEF Types
  <2> QED
    BY <2>1, <2>2, <2>4, <2>5 DEF OldestIsShortened
<1>5. CASE EndTail
  <2>1. phase = "cut" /\ phase' = "join" /\ tail' = tail /\ Changed' = Changed
    BY <1>5 DEF EndTail, Changed, request
  <2>2. tail \cap Changed = {}
    BY <2>1 DEF OldestIsShortened, Group
  <2> QED
    BY <2>1, <2>2 DEF OldestIsShortened
<1>6. CASE Join
  <2>1. Request(summary, tail) <= Target /\ phase = "join"
    BY <1>6, TailFits DEF Join
  <2>2. phase' = "fits" /\ tail' = tail /\ starts' = starts /\ Changed' = Changed
    BY <1>6, <2>1 DEF Join, Changed, request
  <2> QED
    BY <2>1, <2>2 DEF OldestIsShortened
<1>7. CASE UNCHANGED vars
  <2>1. Left' = Left /\ Group' = Group /\ Changed' = Changed /\ UNCHANGED <<phase, rounds, tail, starts>>
    BY <1>7 DEF vars, request, Left, Group, Since, Changed
  <2> QED
    BY <2>1 DEF OldestIsShortened
<1> QED
  BY <1>1, <1>2, <1>3, <1>4, <1>5, <1>6, <1>7 DEF Next

(* "Retain newest exchanges first": what is sent is all that follows the     *)
(* start of a group, of no more requests than the last few, and only the     *)
(* oldest group of it is shortened.  A second try of the tail would begin    *)
(* with a group that may be shortened already, so that this needs the slack. *)
THEOREM NewestAreSent ==
    ASSUME Slack >= 2
    PROVE  Spec => []NewestAreKept
<1>1. Types /\ Begun /\ TailIsRecent /\ OldestIsShortened => NewestAreKept
  <2> SUFFICES ASSUME Types, Begun, TailIsRecent, OldestIsShortened, phase = "fits"
               PROVE  /\ \A i \in tail : Since(i) \subseteq tail
                      /\ starts # {} => Cardinality((tail \cup Current) \cap Requests(given)) <= MaxRequests
                      /\ \A i \in tail : contents[i] # Detach(given)[i] =>
                             \A s \in starts \cap tail : s <= i => \A j \in tail : s <= j
    BY DEF NewestAreKept
  <2>1. /\ given \in Seq(Contents) /\ Len(given) \in Nat /\ DOMAIN given = 1..Len(given)
        /\ starts \in SUBSET (1..Len(given)) /\ tail \in SUBSET (1..Len(given))
        /\ latest = Latest(given) /\ From(given) \in Nat \ {0}
    BY PartsAreIndexed, FromIsOne DEF Types, Begun
  <2>2. \A i \in tail : Since(i) \subseteq tail
    <3> SUFFICES ASSUME NEW i \in tail, NEW j \in Since(i) PROVE j \in tail
      OBVIOUS
    <3>1. PICK s \in 1..Len(given) \cup {1} : tail = Since(s)
      BY <2>1 DEF TailIsRecent
    <3> QED
      BY <2>1, <3>1 DEF Since
  <2>3. ASSUME starts # {}
        PROVE  Cardinality((tail \cup Current) \cap Requests(given)) <= MaxRequests
    <3>1. \A i \in tail : i >= From(given)
      <4> SUFFICES ASSUME NEW i \in tail PROVE i >= From(given)
        OBVIOUS
      <4>1. PICK s \in starts : tail = Since(s)
        BY <2>3 DEF TailIsRecent
      <4>2. s \in Int /\ i >= s /\ i \in Int /\ s >= From(given)
        BY <2>1, <4>1 DEF Since, TailIsRecent
      <4> QED
        BY <2>1, <4>2
    <3>2. \A i \in Current : i >= From(given)
      BY <2>1, LatestIsSince DEF Current
    <3> QED
      BY <2>1, <3>1, <3>2, RequestsSince
  <2>4. \A i \in tail : contents[i] # Detach(given)[i] => i \in Changed
    BY <2>1 DEF Changed
  <2> QED
    BY <2>2, <2>3, <2>4 DEF OldestIsShortened
<1> QED
  BY <1>1, TailIsRecentAtFirst, TailIsRecentKept, OldestIsShortenedKept, CutFitsAlways, TypesAlways,
     FitsAlways, PTL DEF Spec

-----------------------------------------------------------------------------
(* Where groups start: at the first content, a request, behind the current  *)
(* one, or at a call.                                                        *)
StartsAtACall(cs, s) ==
    s = 1 \/ s \in Requests(cs) \/ s - 1 = Latest(cs) \/ Count(cs[s], "call") > 0

GroupsStartAtCalls == \A s \in starts : s \in DOMAIN given /\ StartsAtACall(given, s)

LEMMA StartsAreCalls ==
    ASSUME NEW cs \in Seq(Contents), NEW s \in Starts(Detach(cs))
    PROVE  s \in DOMAIN cs /\ StartsAtACall(cs, s)
<1> DEFINE d == Detach(cs)
<1>1. d \in Seq(Contents) /\ Requests(d) = Requests(cs) /\ DOMAIN d = DOMAIN cs
      /\ DOMAIN d = 1..Len(d)
  BY DetachedContents, DetachedRequests, PartsAreIndexed
<1>2. Latest(d) = Latest(cs) /\ From(d) = From(cs)
  BY <1>1 DEF Latest, From
<1>3. From(cs) = 1 \/ From(cs) \in Requests(cs)
  BY FromIsOne
<1>4. s \in DOMAIN cs
  BY <1>1, StartsAreIndices
<1>5. s = From(d) \/ s - 1 = Latest(d) \/ Count(d[s], "call") > 0 \/ IsRequest(d[s])
  BY DEF Starts
<1>6. Count(d[s], "call") = Count(cs[s], "call") /\ (IsRequest(d[s]) => s \in Requests(cs))
  BY <1>1, <1>4, DetachedCounts DEF Requests
<1> QED
  BY <1>2, <1>3, <1>4, <1>5, <1>6 DEF StartsAtACall

LEMMA GroupsStartAtCallsKept ==
    Types /\ Begun /\ GroupsStartAtCalls /\ [Next]_vars => GroupsStartAtCalls'
<1> SUFFICES ASSUME Types, Begun, GroupsStartAtCalls, [Next]_vars PROVE GroupsStartAtCalls'
  OBVIOUS
<1>1. CASE UNCHANGED <<given, starts>>
  BY <1>1 DEF GroupsStartAtCalls
<1>2. CASE Summarize
  <2>1. given \in Seq(Contents) /\ contents = Detach(given) /\ starts' = Starts(contents) /\ given' = given
    BY <1>2 DEF Summarize, Types, Begun, request
  <2> QED
    BY <2>1, StartsAreCalls DEF GroupsStartAtCalls
<1> QED
  BY <1>1, <1>2
     DEF Next, vars, request, Accept, RemoveTools, Refuse, TakeGroup, ShortenGroup, EndTail, Join

LEMMA CountIsNat ==
    ASSUME NEW cs \in Seq(Contents), NEW i \in DOMAIN cs, NEW kind
    PROVE  Count(cs[i], kind) \in Nat
<1> DEFINE Of == {k \in DOMAIN cs[i].parts : cs[i].parts[k].kind = kind}
<1>1. cs[i].parts \in Seq(Parts)
  <2>1. cs[i] \in Contents
    BY PartsAreIndexed
  <2> QED
    BY <2>1 DEF Contents
<1>2. Len(cs[i].parts) \in Nat /\ DOMAIN cs[i].parts = 1..Len(cs[i].parts)
  BY <1>1
<1>3. Of \in SUBSET (1..Len(cs[i].parts))
  BY <1>2
<1> HIDE DEF Of
<1>4. Cardinality(Of) \in Nat
  BY <1>2, <1>3, IndicesAreFinite
<1> QED
  BY <1>4 DEF Count, Of

(* Between a result and the call before it no group starts. *)
LEMMA NoStartBetween ==
    ASSUME NEW cs \in Conversations, cs \in Seq(Contents), NEW i \in DOMAIN cs,
           Count(cs[i], "result") > 0
    PROVE  LET j == Max({k \in 1..i - 1 : Count(cs[k], "call") > 0})
           IN  /\ j \in DOMAIN cs /\ j < i /\ j \notin Requests(cs) /\ i \notin Requests(cs)
               /\ \A s \in DOMAIN cs : StartsAtACall(cs, s) => ~(j < s /\ s <= i)
<1> DEFINE S == {k \in 1..i - 1 : Count(cs[k], "call") > 0}
           j == Max(S)
<1>1. DOMAIN cs = 1..Len(cs) /\ Len(cs) \in Nat /\ i \in Nat \ {0} /\ i - 1 \in Nat
  BY PartsAreIndexed
<1>2. PICK k \in S : \A m \in (k + 1)..i : m \notin Requests(cs)
  <2>1. \E k \in 1..i - 1 : Count(cs[k], "call") > 0 /\ \A m \in (k + 1)..i : ~IsRequest(cs[m])
    BY AnswersAssumption
  <2> QED
    BY <2>1 DEF Requests
<1>3. j \in S /\ \A m \in S : m <= j
  <2>1. S \in SUBSET (1..i - 1) /\ S # {}
    BY <1>2
  <2> HIDE DEF S
  <2> QED
    BY <1>1, <2>1, MaxOfIndices
<1>4. j \in 1..i - 1 /\ Count(cs[j], "call") > 0 /\ k <= j /\ k \in 1..i - 1
  BY <1>2, <1>3
<1> HIDE DEF j
<1>5. j \in Nat \ {0} /\ j < i /\ j \in DOMAIN cs /\ k \in Nat /\ k <= j
  BY <1>1, <1>4
<1>6. j \notin Requests(cs) /\ Count(cs[i], "call") = 0
  <2>1. cs[j].role = "model"
    BY <1>4, <1>5, AnswersAssumption
  <2>2. Count(cs[i], "call") > 0 => Count(cs[i], "result") = 0
    BY AnswersAssumption
  <2>3. Count(cs[i], "call") \in Nat
    BY CountIsNat
  <2> QED
    BY <2>1, <2>2, <2>3 DEF Requests, IsRequest
<1>7. \A m \in DOMAIN cs : j < m /\ m <= i => m \notin Requests(cs)
  <2> SUFFICES ASSUME NEW m \in DOMAIN cs, j < m, m <= i PROVE m \in (k + 1)..i
    BY <1>2
  <2> QED
    BY <1>1, <1>5
<1>8. Latest(cs) = 0 \/ (Latest(cs) \in Requests(cs) /\ Latest(cs) \in DOMAIN cs)
  BY LatestIsSince DEF Requests
<1>9. ASSUME NEW s \in DOMAIN cs, j < s, s <= i, StartsAtACall(cs, s) PROVE FALSE
  <2>1. s \in Nat /\ s # 1 /\ s \notin Requests(cs)
    BY <1>1, <1>5, <1>7, <1>9
  <2>2. CASE s - 1 = Latest(cs)
    <3>1. s - 1 \in Requests(cs) /\ s - 1 \in DOMAIN cs
      BY <1>1, <1>8, <2>1, <2>2
    <3>2. s - 1 = j \/ j < s - 1
      BY <1>5, <1>9, <2>1
    <3>3. s - 1 <= i
      BY <1>1, <1>9, <2>1
    <3> QED
      BY <1>6, <1>7, <3>1, <3>2, <3>3
  <2>3. CASE Count(cs[s], "call") > 0
    <3>1. s # i
      BY <1>6, <2>3
    <3>2. s \in S
      BY <1>1, <1>9, <2>1, <2>3, <3>1
    <3> QED
      BY <1>3, <1>5, <1>9, <2>1, <3>2
  <2> QED
    BY <1>9, <2>1, <2>2, <2>3 DEF StartsAtACall
<1>10. i \notin Requests(cs)
  BY <1>1, <1>5, <1>7
<1> QED
  BY <1>5, <1>6, <1>9, <1>10 DEF j

(* "Without splitting a tool call from its results": a result is sent just   *)
(* when the call before it is, whatever is left out or shortened.            *)
THEOREM CallsKeptTogether == Spec => []CallsKeepTheirResults
<1>1. Types /\ Begun /\ Copies /\ TailIsRecent /\ GroupsStartAtCalls => CallsKeepTheirResults
  <2> SUFFICES ASSUME Types, Begun, Copies, TailIsRecent, GroupsStartAtCalls, phase = "fits",
                      NEW i \in DOMAIN given, Count(given[i], "result") > 0
               PROVE  i \in tail <=> CallOf(i) \in tail
    BY DEF CallsKeepTheirResults
  <2> DEFINE j == CallOf(i)
  <2>1. /\ given \in Conversations /\ given \in Seq(Contents) /\ DOMAIN given = 1..Len(given)
        /\ Len(given) \in Nat
    BY PartsAreIndexed DEF Types, Copies
  <2>2. /\ j \in DOMAIN given /\ j < i /\ j \notin Requests(given) /\ i \notin Requests(given)
        /\ \A s \in DOMAIN given : StartsAtACall(given, s) => ~(j < s /\ s <= i)
    BY <2>1, NoStartBetween DEF CallOf
  <2> HIDE DEF j
  <2>3. j # latest /\ i # latest
    <3>1. latest = 0 \/ latest \in Requests(given)
      BY <2>1, LatestIsSince DEF Begun
    <3> QED
      BY <2>1, <2>2, <3>1
  <2>4. CASE tail = {}
    BY <2>4 DEF j
  <2>5. ASSUME NEW s \in DOMAIN given, StartsAtACall(given, s), tail = Since(s)
        PROVE  i \in tail <=> j \in tail
    <3>1. ~(j < s /\ s <= i) /\ s \in Nat /\ i \in Nat /\ j \in Nat
      BY <2>1, <2>2, <2>5
    <3>2. (i \in tail <=> s <= i) /\ (j \in tail <=> s <= j)
      BY <2>1, <2>2, <2>3, <2>5 DEF Since
    <3> QED
      BY <2>2, <3>1, <3>2
  <2>6. 1 \in DOMAIN given /\ StartsAtACall(given, 1)
    BY <2>1 DEF StartsAtACall
  <2> QED
    BY <2>4, <2>5, <2>6 DEF TailIsRecent, GroupsStartAtCalls, j
<1>2. Init => GroupsStartAtCalls
  BY DEF Init, GroupsStartAtCalls
<1> QED
  BY <1>1, <1>2, GroupsStartAtCallsKept, TailIsRecentAtFirst, TailIsRecentKept, TypesAlways,
     CopiesKept, PTL DEF Spec

=============================================================================
