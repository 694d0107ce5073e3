--------------------------- MODULE ContextBudget ---------------------------
(***************************************************************************)
(* _enforce_request_token_budget (lllm/runtime_modifiers/turn_guards.py):  *)
(* how a request is cut to the context window before a model call.  What   *)
(* is protected (instructions, tools, the current request) stays whole; a  *)
(* summary and a recent tail of the conversation are what else is sent.    *)
(*                                                                         *)
(* A text is its weight, four to a token: a character of prose weighs one, *)
(* one of a dense run or outside of ASCII four, so that the code's         *)
(* estimate is the weight \div 4.  Cuts are those of prose, which leave no *)
(* token of a budget unused.  An operator used nowhere is a faulty form of *)
(* the next one that is used, for the mutation checks.                     *)
(***************************************************************************)
EXTENDS Integers, SequencesExt

CONSTANTS
    Conversations,  \* the contents of a request, role instructions apart
    Instructions,   \* weights of system and role instructions
    Declarations,   \* weights of tool declarations
    Limits,         \* context windows, in tokens
    Reserve,        \* MIN_REMAINING_CONTEXT_TOKENS_FOR_MODEL_RESPONSE
    MaxRequests,    \* MAXIMUM_CONTEXT_TAIL_USER_REQUESTS
    MinKeep,        \* MINIMUM_TOKENS_TO_KEEP_WHEN_SHRINKING_ONE_PAYLOAD
    Slack,          \* the 8 tokens left for rounding
    Marker,         \* weight of "[truncated to fit the model context window]"
    Placeholder,    \* weight of _PLACEHOLDER_FOR_OMITTED_IMAGE
    Notice,         \* weight of _SUMMARY_NOTICE
    Title,          \* weight of the title of a section
    Label,          \* weight of the label of a line of the summary, or of a name
    Snippet         \* _SUMMARY_SNIPPET_CHARACTERS

Kinds == {"text", "call", "result", "image"}
Roles == {"user", "model"}

ASSUME BudgetAssumption ==
    /\ Conversations \subseteq Seq([role : Roles, parts : Seq([kind : Kinds, size : Nat])])
    /\ Instructions \subseteq Nat /\ Declarations \subseteq Nat
    /\ Limits \subseteq Nat \ {0}
    /\ Reserve \in Nat /\ MaxRequests \in Nat \ {0}
    /\ MinKeep \in Nat \ {0} /\ Slack \in Nat
    /\ {Placeholder, Label, Snippet} \subseteq Nat /\ {Marker, Notice, Title} \subseteq Nat \ 0..3

VARIABLES
    phase,         \* "enter", "cut", "join", and the answer: "fits" or "refused"
    given,         \* the conversation of the request
    limit,         \* the context window
    instructions,  \* the instructions of the request
    tools,         \* the tool declarations left in it
    contents,      \* the copies that are shortened
    latest,        \* the index of the current request, 0 for none
    starts,        \* the first indices of the groups a tail is made of
    summary,       \* weight of the summary, 0 for none
    budget,        \* tail_budget
    tail,          \* the contents sent besides the current request
    rounds         \* of shortening the next group

request == <<given, limit, instructions, latest>>
vars == <<request, phase, tools, contents, starts, summary, budget, tail, rounds>>

AtLeast(least, n) == IF n < least THEN least ELSE n
AtMost(most, n) == IF n > most THEN most ELSE n

-----------------------------------------------------------------------------
(* Estimates.  Texts are joined by a newline; a call and a result also have *)
(* a name.  An image counts as tokens of its own.                           *)
Tokens(weight) == weight \div 4

PartWeight(part) ==
    part.size + [text |-> 1, call |-> Label + 2, result |-> Label + 2, image |-> 0][part.kind]

ContentWeight(content) ==
    SumFunction([k \in DOMAIN content.parts |-> PartWeight(content.parts[k])])

Weight(cs, indices) == SumFunction([i \in indices |-> ContentWeight(cs[i])])

(* _estimate_request_token_count *)
Estimate(weight) == AtLeast(1, Tokens(weight - 1))

(* _fit_text_to_token_budget: a cut text ends in a marker, within the budget. *)
Fit(size, tokens) ==
    IF Tokens(size) <= tokens THEN size
    ELSE IF Tokens(Marker) > tokens THEN 0 ELSE 4 * tokens + 3

-----------------------------------------------------------------------------
(* Which contents are what. *)
Count(content, kind) == Cardinality({k \in DOMAIN content.parts : content.parts[k].kind = kind})

(* _latest_human_user_index of one content, and of all: 0 for none. *)
IsRequest(content) == content.role = "user" /\ Count(content, "result") = 0

(* ADK: the model makes calls, and results follow them in the same turn.    *)
ASSUME AnswersAssumption ==
    \A cs \in Conversations : \A i \in DOMAIN cs :
        /\ Count(cs[i], "call") > 0 => cs[i].role = "model" /\ Count(cs[i], "result") = 0
        /\ Count(cs[i], "result") > 0 =>
             \E k \in 1..i - 1 : /\ Count(cs[k], "call") > 0
                                 /\ \A m \in (k + 1)..i : ~IsRequest(cs[m])

Requests(cs) == {i \in DOMAIN cs : IsRequest(cs[i])}
Latest(cs) == IF Requests(cs) = {} THEN 0 ELSE Max(Requests(cs))

(* _detach_request_parts_from_session_history: images are left out, but for *)
(* those of the current request.                                            *)
DetachAll(cs) ==
    LET Detached(part) == IF part.kind = "image" THEN [kind |-> "text", size |-> Placeholder] ELSE part
    IN  [i \in DOMAIN cs |-> [cs[i] EXCEPT !.parts = [k \in DOMAIN @ |-> Detached(@[k])]]]

Detach(cs) == [i \in DOMAIN cs |-> IF i = Latest(cs) THEN cs[i] ELSE DetachAll(cs)[i]]

(* _recent_context_groups: from the last MaxRequests requests on, an        *)
(* exchange, or what follows one.  A group is not split while calls of it   *)
(* wait for results.                                                        *)
From(cs) ==
    LET newer(i) == {j \in Requests(cs) : j > i}
        few == {i \in Requests(cs) : Cardinality(newer(i)) = MaxRequests - 1}
    IN  IF few = {} THEN 1 ELSE Max(few)

Pending(cs) ==
    LET from    == From(cs)
        current == Latest(cs)
        f[i \in 0..Len(cs)] ==
          IF i < from THEN 0
          ELSE IF i = current THEN f[i - 1]
          ELSE AtLeast(0, f[i - 1] + Count(cs[i], "call") - Count(cs[i], "result"))
    IN  f

StartsAtEveryCall(cs) ==
    {i \in (From(cs)..Len(cs)) \ {Latest(cs)} :
        \/ i = From(cs) \/ i - 1 = Latest(cs)
        \/ Count(cs[i], "call") > 0 \/ Count(cs[i], "result") > 0 \/ IsRequest(cs[i])}

Starts(cs) ==
    LET from    == From(cs)
        current == Latest(cs)
        pending == Pending(cs)
    IN  {i \in (from..Len(cs)) \ {current} :
            \/ i = from \/ i - 1 = current
            \/ pending[i - 1] = 0 /\ (Count(cs[i], "call") > 0 \/ IsRequest(cs[i]))}

-----------------------------------------------------------------------------
(* Shortening.  _shrink_part_payloads cuts every payload to a share of its  *)
(* tokens, here num of den.                                                 *)
Payload(cs, indices) ==
    LET Of(content) == SumFunction([k \in DOMAIN content.parts |-> Tokens(content.parts[k].size)])
    IN  SumFunction([i \in indices |-> Of(cs[i])])

ShrinkPart(part, num, den) ==
    [part EXCEPT !.size = Fit(@, AtLeast(MinKeep, (Tokens(@) * num) \div den))]

(* A group shortened so that the contents from its start on fit the tokens, *)
(* by estimate.                                                             *)
Shorten(cs, group, estimate, tokens) ==
    LET payload == Payload(cs, group)
        left    == AtLeast(0, payload - (estimate - tokens))
    IN  [i \in DOMAIN cs |->
            IF i \in group
            THEN [cs[i] EXCEPT !.parts = [k \in DOMAIN @ |-> ShrinkPart(@[k], left, payload)]]
            ELSE cs[i]]

-----------------------------------------------------------------------------
(* _extractive_summary: three sections with a third of the tokens each, of  *)
(* lines that quote at most a snippet of a part.                            *)
Quotes(cs, indices) ==
    {q \in UNION {{i} \X DOMAIN cs[i].parts : i \in indices} : cs[q[1]].parts[q[2]].kind # "image"}

Newest(quotes, n) ==
    LET newer(q) == {r \in quotes : r[1] > q[1] \/ (r[1] = q[1] /\ r[2] > q[2])}
    IN  {q \in quotes : Cardinality(newer(q)) < n}

Line(cs, q) == Label + AtMost(Snippet, cs[q[1]].parts[q[2]].size)

Lines(cs, quotes) == SumFunction([q \in quotes |-> 1 + Line(cs, q)])

(* A request is quoted with the last line of what came before it. *)
Quoted(content) ==
    LET texts == {k \in DOMAIN content.parts : content.parts[k].kind = "text"}
    IN  Label + AtMost(Snippet, SumFunction([k \in texts |-> content.parts[k].size]))

RequestLine(cs, i) ==
    LET context == Newest(Quotes(cs, {i - 1} \ {0}), 1)
    IN  Quoted(cs[i]) + SumFunction([q \in context |-> Label + Line(cs, q)])

Section(lines, tokens) == Fit(Title + lines, tokens)

SectionTokensTight(tokens) == AtLeast(0, (tokens - Tokens(Notice)) \div 3)

SectionTokens(tokens) == AtLeast(0, (tokens - Tokens(Notice) - 4) \div 3)

Sections(cs, tokens) ==
    LET current  == Latest(cs)
        earlier  == Requests(cs) \ {current}
        progress == Quotes(cs, DOMAIN cs \ Requests(cs))
        activity == Quotes(cs, (current + 1)..Len(cs))
        all      == << SumFunction([i \in earlier |-> 1 + RequestLine(cs, i)]),
                       Lines(cs, progress),
                       IF current = 0 THEN 1 + Title
                       ELSE 1 + Quoted(cs[current]) + Lines(cs, Newest(activity, 2)) >>
    IN  [n \in 1..3 |-> Section(all[n], SectionTokens(tokens))]

Joined(sections) ==
    LET Added(n) == IF sections[n] = 0 THEN 0 ELSE 1 + sections[n]
    IN  Notice + Added(1) + Added(2) + Added(3)

Summary(cs, tokens) == Fit(Joined(Sections(cs, tokens)), tokens)

-----------------------------------------------------------------------------
(* _prompt_token_target *)
Target == AtLeast(1, limit - AtLeast(Reserve, limit \div 4))

Current == {latest} \ {0}

Since(i) == (i..Len(given)) \ {latest}

(* The estimate of a request of what is protected, and some of the rest.    *)
Protected == instructions + tools + (IF latest = 0 THEN 0 ELSE ContentWeight(contents[latest]))

Request(summarized, sent) ==
    Estimate(Protected + (IF summarized = 0 THEN 0 ELSE summarized + 1)
                       + (IF sent = {} THEN 0 ELSE Weight(contents, sent)))

Init ==
    /\ phase = "enter"
    /\ given \in Conversations
    /\ limit \in Limits
    /\ instructions \in Instructions
    /\ tools \in Declarations
    /\ contents = Detach(given)
    /\ latest = Latest(given)
    /\ starts = {}
    /\ summary = 0
    /\ budget = 0
    /\ tail = {}
    /\ rounds = 0

(* The request fits as it is. *)
Accept ==
    /\ phase = "enter"
    /\ Request(0, Since(1)) <= Target
    /\ phase' = "fits"
    /\ tail' = Since(1)
    /\ UNCHANGED <<request, tools, contents, starts, summary, budget, rounds>>

(* What is protected does not: guard_model_request removes all tools and    *)
(* tries again,                                                             *)
TooLarge ==
    /\ phase = "enter"
    /\ Request(0, Since(1)) > Target
    /\ Request(0, {}) > Target

RemoveToolsAndSend ==
    /\ TooLarge
    /\ tools > 0
    /\ tools' = 0
    /\ tail' = Since(1)
    /\ phase' = "fits"
    /\ UNCHANGED <<request, contents, starts, summary, budget, rounds>>

RemoveTools ==
    /\ TooLarge
    /\ tools > 0
    /\ tools' = 0
    /\ UNCHANGED <<request, phase, contents, starts, summary, budget, tail, rounds>>

(* or ends the turn. *)
Refuse ==
    /\ TooLarge
    /\ tools = 0
    /\ phase' = "refused"
    /\ UNCHANGED <<request, tools, contents, starts, summary, budget, tail, rounds>>

(* What is protected fits: the rest gets what it leaves. *)
AvailableWithoutSlack == AtLeast(0, Target - Request(0, {}))

Available == AtLeast(0, Target - Request(0, {}) - Slack)

SummaryTokens == AtMost(limit \div 8, Available \div 3)

Summarize ==
    /\ phase = "enter"
    /\ Request(0, Since(1)) > Target
    /\ Request(0, {}) <= Target
    /\ phase' = "cut"
    /\ summary' = Summary(contents, SummaryTokens)
    /\ budget' = AtMost(limit \div 4, Available - Tokens(summary'))
    /\ starts' = Starts(contents)
    /\ UNCHANGED <<request, tools, contents, tail, rounds>>

-----------------------------------------------------------------------------
(* _context_tail: groups join the tail from the newest on.                  *)
Left == {s \in starts : \A i \in tail : s < i}
Group == Since(Max(Left)) \ tail
Longer == Estimate(Weight(contents, tail \cup Group))

(* The next group fits.  It is the last one if it had to be shortened.      *)
TakeGroupAndGoOn ==
    /\ phase = "cut"
    /\ budget > 0 /\ Left # {}
    /\ rounds < 4
    /\ Longer <= budget
    /\ tail' = tail \cup Group
    /\ rounds' = 0
    /\ UNCHANGED <<request, phase, tools, contents, starts, summary, budget>>

TakeGroup ==
    /\ phase = "cut"
    /\ budget > 0 /\ Left # {}
    /\ rounds < 4
    /\ Longer <= budget
    /\ tail' = tail \cup Group
    /\ phase' = IF rounds = 0 THEN "cut" ELSE "join"
    /\ UNCHANGED <<request, tools, contents, starts, summary, budget, rounds>>

(* One round of shortening it. *)
ShortenGroup ==
    /\ phase = "cut"
    /\ budget > 0 /\ Left # {}
    /\ rounds < 4
    /\ Longer > budget
    /\ Payload(contents, Group) > 0
    /\ contents' = Shorten(contents, Group, Longer, budget)
    /\ rounds' = rounds + 1
    /\ UNCHANGED <<request, phase, tools, starts, summary, budget, tail>>

(* No group is left, or four rounds were not enough. *)
EndTail ==
    /\ phase = "cut"
    /\ budget > 0 /\ Left # {} => rounds = 4 \/ (Longer > budget /\ Payload(contents, Group) = 0)
    /\ phase' = "join"
    /\ UNCHANGED <<request, tools, contents, starts, summary, budget, tail, rounds>>

(* The request is put together.  If it exceeds the target, a smaller tail   *)
(* is tried, at last none and no summary.                                   *)
Join ==
    LET fits == Request(summary, tail) <= Target
        last == budget <= 0
    IN  /\ phase = "join"
        /\ phase' = IF fits \/ last THEN "fits" ELSE "cut"
        /\ tail' = IF fits THEN tail ELSE {}
        /\ summary' = IF fits \/ ~last THEN summary ELSE 0
        /\ budget' = IF fits THEN budget
                     ELSE AtLeast(0, budget - (Request(summary, tail) - Target) - Slack)
        /\ rounds' = 0
        /\ UNCHANGED <<request, tools, contents, starts>>

(* _cap_output_tokens: what the reply to a request may take. *)
OutputTokensOfWindow(estimate) == AtLeast(Reserve, limit - Reserve)

OutputTokens(estimate) == AtMost(limit, AtLeast(Reserve, limit - estimate - Reserve))

Next ==
    \/ Accept \/ RemoveTools \/ Refuse \/ Summarize
    \/ TakeGroup \/ ShortenGroup \/ EndTail \/ Join

Spec == Init /\ [][Next]_vars

-----------------------------------------------------------------------------
(* What is accepted fits the target, on each of the ways there: as it is,   *)
(* without tools, summarized, or cut to what is protected.                  *)
AcceptedRequestsFit == phase = "fits" => Request(summary, tail) <= Target

(* A request and the longest reply to it fit the window together.           *)
RepliesFit ==
    phase = "fits" => Request(summary, tail) + OutputTokens(Request(summary, tail)) <= limit

(* The tail that is cut to its budget fits at once: what is protected, the  *)
(* summary and the tail never exceed the target by rounding, so neither a   *)
(* smaller tail nor a request without its summary is ever sent.             *)
FirstTailFits == [][phase = "join" => phase' = "fits" /\ summary' = summary]_vars

(* A tool call is never sent without its results or a result without its    *)
(* call, be they parallel, or those of turns that were interrupted.         *)
CallOf(i) == Max({j \in 1..i - 1 : Count(given[j], "call") > 0})

CallsKeepTheirResults ==
    phase = "fits" =>
        \A i \in DOMAIN given : Count(given[i], "result") > 0 => (i \in tail <=> CallOf(i) \in tail)

(* "Retain newest exchanges first": what is left out is older than what is  *)
(* sent, a compacted request "spans at most three human requests", and what *)
(* is shortened is "only the oldest retained group", older than any group   *)
(* behind the first one.                                                    *)
NewestAreKept ==
    LET detached == Detach(given)
    IN  phase = "fits" =>
        /\ \A i \in tail : Since(i) \subseteq tail
        /\ starts # {} => Cardinality((tail \cup Current) \cap Requests(given)) <= MaxRequests
        /\ \A i \in tail : contents[i] # detached[i] =>
                \A s \in starts \cap tail : s <= i => \A j \in tail : s <= j

(* The current request is sent as the user wrote it, images included.       *)
CurrentRequestIsWhole == \A i \in Current : contents[i] = given[i]

(* The sections of a summary are cut one by one, so that none crowds out    *)
(* those behind it: the whole is never cut once more.                       *)
SectionsSurvive ==
    LET sections == Sections(Detach(given), SummaryTokens)
    IN  starts # {} /\ summary > 0 /\ (\E n \in 1..3 : sections[n] > 0)
            => summary = Joined(sections)

=============================================================================
