----------------------------- MODULE WebServer -----------------------------
(***************************************************************************)
(* One request to `lllm web` (lllm/web.py): the wrapper reads the body of  *)
(* a run request to learn its session, replays it to ADK's app, and        *)
(* expands the callback tokens of the answer, an event stream or JSON, on  *)
(* its way to the browser.  The event loop is cooperative: a task keeps it *)
(* until it waits.  The app is ADK with starlette, the client a browser.   *)
(*                                                                         *)
(* An operator used nowhere is a faulty form of the next one that is used, *)
(* for the mutation checks.                                                *)
(***************************************************************************)
EXTENDS StreamExpansion

CONSTANTS
    Deltas,     \* texts a partial event may carry
    Replies,    \* texts of a final event without deltas
    MaxPieces,  \* bound: pieces of all channels
    MaxWire     \* bound: parts of records the app has written and not sent

ASSUME DeltasAssumption ==
    /\ Deltas \subseteq Seq(Pieces) /\ Replies \subseteq Seq(Pieces)
    /\ MaxPieces \in Nat /\ MaxWire \in Nat

(* An identity is a tuple, and neither mark of ended.                       *)
ASSUME MessagesAssumption == Messages \cap {"stream", "finished"} = {}

Routes == {"run_sse", "run", "sessions"}     \* the paths the wrapper tells apart
Media == {"stream", "json", "encoded json"}  \* of the answer
RunRoutes == {"run_sse", "run"}

VARIABLES
    route,     \* of the request
    client,    \* "asking", "waiting" for the answer, or "gone"
    phase,     \* "reading" the body, "called" the app, "answering", "over"
    session,   \* whether the wrapper knows the session of the request
    replayed,  \* sent of _replay_http_body
    listener,  \* starlette's wait for a disconnect: "off", "running", "waiting"
    media,     \* of the answer, "none" before it starts
    length,    \* whether the answer announces a content-length
    said,      \* what ADK said of each channel, deltas joined
    ended,     \* messages with their final event, and "stream" after the last
    wire,      \* what the app has written and not sent
    bytes,     \* _buffer or json_body: what the wrapper holds of the answer
    view       \* what the expander holds, and what the browser shows

asked == <<route, client, phase, session, replayed, listener>>
answer == <<media, length, said, ended, wire, bytes, view>>
vars == <<asked, answer>>

Init ==
    /\ route \in Routes
    /\ client = "asking"
    /\ phase = IF route \in RunRoutes THEN "reading" ELSE "called"
    /\ session = (route = "sessions")   \* _SESSION_ID_IN_PATH
    /\ replayed = FALSE
    /\ listener = "off"
    /\ media = "none"
    /\ length = FALSE
    /\ said = Nothing
    /\ ended = {}
    /\ wire = <<>>
    /\ bytes = <<>>
    /\ view = NoView

-----------------------------------------------------------------------------
(* The client sends the rest of its body, or goes away.                     *)
ClientSends ==
    /\ client = "asking"
    /\ client' = "waiting"
    /\ UNCHANGED <<route, phase, session, replayed, listener, answer>>

ClientLeaves ==
    /\ client # "gone"
    /\ client' = "gone"
    /\ UNCHANGED <<route, phase, session, replayed, listener, answer>>

(* _read_http_body: to the end of the body or a disconnect.  A body that is *)
(* cut off has no session.                                                  *)
ReadBody ==
    /\ phase = "reading" /\ client # "asking"
    /\ session' = (client = "waiting")
    /\ phase' = "called"
    /\ UNCHANGED <<route, client, replayed, listener, answer>>

(* The replayed receive, which answers at once, for ever or once;           *)
AnswersAtOnceAlways == route \in RunRoutes

AnswersAtOnce == route \in RunRoutes /\ ~replayed

(* the app reads its request with it and starts its answer.                 *)
Rewrites(m) == session /\ m \in {"stream", "json"}

(* send_expanded of http.response.start: the length of what is rewritten    *)
(* is not known.                                                            *)
KeepsLengthOfJson(m) == m # "stream"

KeepsLength(m) == m # "stream" /\ ~Rewrites(m)

StartAnswer(m) ==
    /\ phase = "called"
    /\ AnswersAtOnce \/ client # "asking"
    /\ m = "stream" => route = "run_sse"
    /\ replayed' = (route \in RunRoutes)
    /\ media' = m
    /\ length' = KeepsLength(m)
    /\ phase' = "answering"
    /\ listener' = IF m = "stream" THEN "running" ELSE "off"
    /\ UNCHANGED <<route, client, session, said, ended, wire, bytes, view>>

(* A streaming answer waits for http.disconnect beside its body; each       *)
(* receive that answers at once keeps the event loop.                       *)
Listen ==
    /\ listener = "running"
    /\ listener' = IF AnswersAtOnce THEN "running" ELSE "waiting"
    /\ replayed' = (route \in RunRoutes)
    /\ UNCHANGED <<route, client, phase, session, answer>>

(* A disconnect cancels the streaming answer.                               *)
Cancel ==
    /\ listener = "waiting" /\ client = "gone"
    /\ listener' = "off"
    /\ phase' = "over"
    /\ UNCHANGED <<route, client, session, replayed, answer>>

-----------------------------------------------------------------------------
(* The app's own task; what it does for a client that is gone is left out.  *)
Answering == phase = "answering" /\ listener # "running" /\ client # "gone"

(* ADK's events.  A final event repeats its deltas, or is the whole text.   *)
Open(m) == {m, "stream"} \cap ended = {}

Emit(record) ==
    /\ Answering
    /\ Len(wire) + 2 <= MaxWire
    /\ wire' = wire \o Wire(record)
    /\ UNCHANGED <<asked, media, length, bytes, view>>

Size(texts) == MapThenSumSet(LAMBDA k : Len(texts[k]), Keys)
Room(delta) == Size(said) + Len(delta) <= MaxPieces

EmitPartial(k, delta) ==
    /\ media = "stream" /\ Open(k[1]) /\ Room(delta)
    /\ said' = [said EXCEPT ![k] = @ \o delta]
    /\ Emit(Partial(k, delta))
    /\ UNCHANGED ended

EmitFinal(m) ==
    /\ Open(m)
    /\ IF \E c \in Channels : said[<<m, c>>] # <<>> THEN UNCHANGED said
       ELSE \E reply \in Replies :
                Room(reply) /\ said' = [said EXCEPT ![<<m, "answer">>] = reply]
    /\ ended' = ended \cup {m}
    /\ Emit(Final(m, said'))

EmitFinalWithoutText(m) ==
    /\ Open(m)
    /\ ended' = ended \cup {m}
    /\ Emit(FinalWithoutText(m))
    /\ UNCHANGED said

EmitComment ==
    /\ media = "stream" /\ "stream" \notin ended
    /\ Emit(Comment)
    /\ UNCHANGED <<said, ended>>

EmitDone ==
    /\ media = "stream" /\ "stream" \notin ended
    /\ ended' = ended \cup {"stream"}
    /\ Emit(Done)
    /\ UNCHANGED said

(* The stream ends, with its last line complete or not, or with neither a   *)
(* [DONE] nor an error.                                                     *)
FinishAnswer(missing) ==
    /\ Answering
    /\ "finished" \notin ended
    /\ ended' = ended \cup {"stream", "finished"}
    /\ missing > 0 => missing <= Len(wire) /\ media = "stream"
    /\ wire' = SubSeq(wire, 1, Len(wire) - missing)
    /\ UNCHANGED <<asked, media, length, said, bytes, view>>

(* A body message takes n parts of what is written; the last one all.       *)
TakeChunk(n, final) ==
    /\ Answering
    /\ n \in (IF final THEN 0 ELSE 1)..Len(wire)
    /\ final => "finished" \in ended /\ n = Len(wire)
    /\ wire' = SubSeq(wire, n + 1, Len(wire))
    /\ phase' = IF final THEN "over" ELSE phase
    /\ UNCHANGED <<route, client, session, replayed, listener, media, length, said, ended>>

(* send_expanded of it: JSON is collected, a stream expanded record by      *)
(* record, anything else goes on as it is.                                  *)
SendChunk(n, final) ==
    /\ TakeChunk(n, final)
    /\ LET body == bytes \o SubSeq(wire, 1, n)
       IN  IF ~Rewrites(media)
           THEN /\ view' = IF final THEN [view EXCEPT !.shown = said] ELSE view
                /\ UNCHANGED bytes
           ELSE IF media = "json" /\ ~final THEN bytes' = body /\ UNCHANGED view
           ELSE view' = Feed(view, body, final) /\ bytes' = Kept(body, final)

EmitEvent ==
    \/ \E k \in Keys, delta \in Deltas : EmitPartial(k, delta)
    \/ \E m \in Messages : EmitFinal(m) \/ EmitFinalWithoutText(m)
    \/ EmitComment
    \/ EmitDone

Answer == \E m \in Media : StartAnswer(m)
EndAnswer == \E missing \in 0..1 : FinishAnswer(missing)
Send == \E n \in 0..MaxWire, final \in BOOLEAN : SendChunk(n, final)

Next ==
    \/ ClientSends \/ ClientLeaves
    \/ ReadBody \/ Answer \/ Listen \/ Cancel
    \/ EmitEvent \/ EndAnswer \/ Send

(* The event loop goes on as long as a task waits for nothing, ADK's run    *)
(* ends, and the client sends its body or leaves.  A step that takes a      *)
(* chunk is a SendChunk.                                                    *)
Take == \E n \in 0..MaxWire, final \in BOOLEAN : TakeChunk(n, final)
Loop == ReadBody \/ Answer \/ Listen \/ Cancel

Fairness ==
    /\ WF_vars(Loop) /\ WF_<<wire, phase>>(Take)
    /\ WF_vars(EndAnswer) /\ WF_vars(ClientSends)

Spec == Init /\ [][Next]_vars /\ Fairness
-----------------------------------------------------------------------------
TypeOK ==
    /\ route \in Routes /\ client \in {"asking", "waiting", "gone"}
    /\ phase \in {"reading", "called", "answering", "over"}
    /\ session \in BOOLEAN /\ replayed \in BOOLEAN /\ length \in BOOLEAN
    /\ listener \in {"off", "running", "waiting"} /\ media \in Media \cup {"none"}
    /\ said \in [Keys -> Seq(Pieces)]
    /\ ended \subseteq Messages \cup {"stream", "finished"}
    /\ view.held \in [Keys -> Seq(Pieces)]
    /\ view.shown \in [Keys -> Seq(Pieces \cup {"stored"})]
    /\ view.over \subseteq Keys

(* However ADK cuts a text into deltas and mixes those of messages and of   *)
(* channels, and however HTTP cuts the records, the browser shows each text *)
(* as ShownText promises: in order, tokens expanded, once, complete at the  *)
(* end.  An answer that is not rewritten promises nothing.                  *)
Promised == INSTANCE ShownText WITH
    Texts <- Keys,
    said  <- IF Rewrites(media) THEN said ELSE Nothing,
    shown <- IF Rewrites(media) THEN view.shown ELSE Nothing,
    over  <- IF Rewrites(media) THEN view.over ELSE {}

ShowsWhatItPromises == Promised!Spec

(* "Only incomplete records and possible placeholder suffixes are held;     *)
(* ordinary text and event metadata continue streaming."                    *)
OnlyUnfinishedIsHeld ==
    /\ \A k \in Keys : view.held[k] \in {<<>>, <<"head">>, <<"head", "id">>}
    /\ media = "stream" => \A i \in 1..Len(bytes) : bytes[i].part # 2

(* A body whose length was announced is as long as announced: what is       *)
(* expanded never goes out under the length of what the app wrote.          *)
LengthIsTrue == length /\ phase = "over" => Size(view.shown) = Size(said)

(* The answer to a client that waits for it ends, all of it shown: the wait *)
(* for a disconnect never keeps the event loop from the answer.             *)
AnswersEnd ==
    phase = "answering" ~> \/ client = "gone"
                           \/ phase = "over" /\ (Rewrites(media) => view.over = Keys)

=============================================================================
