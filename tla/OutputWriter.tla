---------------------------- MODULE OutputWriter ----------------------------
(***************************************************************************)
(* AdkEventRenderer (lllm/cli/output_writer.py) and the channel rules it   *)
(* asks (lllm/output_channels.py): which parts of ADK's events the CLI     *)
(* records and prints, where, and under which label.                       *)
(*                                                                         *)
(* A key is an agent and a channel.  What is written to a stream is a      *)
(* sequence of marks: <<agent, channel, piece>>, with the piece "label"    *)
(* for a header, and Newline.                                              *)
(*                                                                         *)
(* An operator used nowhere is a faulty form of the next one that is used, *)
(* for the mutation checks.                                                *)
(***************************************************************************)
EXTENDS TokenText, TLC

CONSTANTS
    Coordinator,  \* the root of the composed agents
    Specialists   \* the agents under it, each of which --agent may select

ASSUME AgentsAssumption == Coordinator \notin Specialists

Agents == {Coordinator} \cup Specialists
Channels == {"thinking", "answer", "tool_calls", "tool_results", "prompt"}
Keys == Agents \X Channels
Streams == {"stdout", "stderr"}
Newline == <<"newline">>

-----------------------------------------------------------------------------
(* _resolve_output_channel_visibility_by_agent: layers of settings, each    *)
(* over those before.  They go by the composed tree, whatever --agent says. *)
DefaultChannelVisibility ==
    [c \in Channels |-> c \in {"thinking", "answer", "tool_calls"}]

Layers(config, agent) ==
    LET sub == agent # Coordinator
        overrides == SelectSeq(config.overrides, LAMBDA o : agent \in o.targets)
    IN  <<DefaultChannelVisibility>>
        \o (IF sub THEN <<[c \in {"prompt"} |-> TRUE]>> ELSE <<>>)
        \o <<config.defaults>>
        \o (IF sub THEN <<config.subAgentDefaults>> ELSE <<>>)
        \o [i \in 1..Len(overrides) |-> overrides[i].channels]

Visibility(config) ==
    [a \in Agents |-> FoldLeft(LAMBDA v, layer : layer @@ v, <<>>, Layers(config, a))]

(* collect_sub_agent_names of the selected root                             *)
SubAgents(o) == IF o.root = Coordinator THEN Specialists ELSE {}

-----------------------------------------------------------------------------
(* The renderer r of one turn under the options o: [mode, split, root,      *)
(* visible], where mode is "stream", "buffer" or "json", and split is       *)
(* --stderr.  Every part that is recorded for JSON is also an entry.        *)
NewRenderer ==
    [entries   |-> <<>>,                        \* _buffered_turn_entries
     screen    |-> [s \in Streams |-> <<>>],    \* what was written
     last      |-> [s \in Streams |-> <<>>],    \* _last_channel_by_stream
     pending   |-> [s \in Streams |-> FALSE],   \* _has_pending_newline_by_stream
     streaming |-> {},     \* _partially_streamed_agent_channels
     labelled  |-> {},     \* _agent_channels_with_printed_header
     held      |-> <<>>]   \* _held_answer_token_by_agent: only of the root

Enabled(o, key) == o.visible[key[1]][key[2]]
RootAnswer(o) == <<o.root, "answer">>

TraceStream(o) == IF o.split /\ o.mode # "json" THEN "stderr" ELSE "stdout"
StreamOf(o, key) == IF key = RootAnswer(o) THEN "stdout" ELSE TraceStream(o)

Marks(key, text) == [i \in 1..Len(text) |-> <<key[1], key[2], text[i]>>]
Label(key) == <<<<key[1], key[2], "label">>, Newline>>
EndsLine(marks) == marks # <<>> /\ Last(marks) = Newline

(* _write_streaming_chunk: another channel starts on a line of its own.     *)
StreamChunkOn(o, r, key, marks) ==
    LET s == StreamOf(o, key)
    IN  [r EXCEPT !.screen[s] = @ \o marks,
                  !.last[s] = key,
                  !.pending[s] = ~EndsLine(marks)]

StreamChunk(o, r, key, marks) ==
    LET s == StreamOf(o, key)
        separate == r.pending[s] /\ r.last[s] \notin {<<>>, key}
    IN  [r EXCEPT !.screen[s] = @ \o (IF separate THEN <<Newline>> ELSE <<>>) \o marks,
                  !.last[s] = key,
                  !.pending[s] = ~EndsLine(marks)]

Record(o, r, key, text, marks) ==
    LET recorded == [r EXCEPT !.entries = Append(@, <<key, text>>)]
    IN  IF o.mode = "stream" THEN StreamChunk(o, recorded, key, marks) ELSE recorded

(* _stream_header: the root's text has no label, another's has one until    *)
(* its reply is over.                                                       *)
HasLabel(o, r, key) == key[1] = o.root \/ key \in r.labelled

RecordText(o, r, key, text) ==
    LET header == IF HasLabel(o, r, key) THEN <<>> ELSE Label(key)
    IN  Record(o, [r EXCEPT !.labelled = IF o.mode = "stream" /\ key[1] # o.root
                                         THEN @ \cup {key} ELSE @],
               key, text, header \o Marks(key, text))

(* _write_expanded_answer                                                   *)
WriteAnswer(o, r, text, flush) ==
    LET chunk == Chunk(r.held \o text, flush)
        kept  == [r EXCEPT !.held = chunk.held]
    IN  IF chunk.shown = <<>> \/ ~Enabled(o, RootAnswer(o)) THEN kept
        ELSE RecordText(o, kept, RootAnswer(o), chunk.shown)

(* _write_text of a delta                                                   *)
WriteDelta(o, r, key, text) ==
    LET streamed == [r EXCEPT !.streaming = @ \cup {key}]
    IN  IF text = <<>> \/ ~Enabled(o, key) THEN r
        ELSE IF key = RootAnswer(o) THEN WriteAnswer(o, streamed, text, FALSE)
        ELSE RecordText(o, streamed, key, text)

(* and of a final text, which repeats the deltas when there were any.       *)
EndStreamedHolding(o, r, key) ==
    [r EXCEPT !.streaming = @ \ {key}, !.labelled = @ \ {key}]

EndStreamed(o, r, key) ==
    LET flushed == IF key = RootAnswer(o) THEN WriteAnswer(o, r, <<>>, TRUE) ELSE r
    IN  [flushed EXCEPT !.streaming = @ \ {key}, !.labelled = @ \ {key}]

WriteFinal(o, r, key, text) ==
    IF key \in r.streaming THEN EndStreamed(o, r, key)
    ELSE IF text = <<>> \/ ~Enabled(o, key) THEN r
    ELSE IF key = RootAnswer(o) THEN WriteAnswer(o, r, text, TRUE)
    ELSE RecordText(o, r, key, text)

(* _record_visible_prompt, of the user's prompt and of a delegated request  *)
WritePrompt(o, r, agent, text) ==
    LET key == <<agent, "prompt">>
    IN  IF ~Enabled(o, key) THEN r
        ELSE Record(o, r, key, text, Label(key) \o Marks(key, text) \o <<Newline>>)

WriteToolCall(o, r, agent, name, text) ==
    LET key == <<agent, "tool_calls">>
    IN  IF name \in SubAgents(o) THEN WritePrompt(o, r, name, text)
        ELSE IF ~Enabled(o, key) THEN r
        ELSE Record(o, r, key, <<"label">>, Label(key))

(* The result of a sub-agent is its answer (_agents_with_recorded_answer    *)
(* holds only the root).                                                    *)
WriteToolResult(o, r, agent, name, text) ==
    LET key == <<agent, "tool_results">>
        sub == <<name, "answer">>
    IN  IF name \in SubAgents(o) /\ Enabled(o, sub) THEN WriteFinal(o, r, sub, text)
        ELSE IF ~Enabled(o, key) THEN r
        ELSE Record(o, r, key, text, Label(key) \o Marks(key, text) \o <<Newline>>)

-----------------------------------------------------------------------------
(* _write_buffered_output: the trace, then the answer.                      *)
Rendered(o, entry) ==
    LET key == entry[1]
        marks == Marks(key, entry[2])
    IN  CASE key \in {o.root} \X {"answer", "thinking"} -> marks
          [] key[2] = "tool_calls" -> Label(key)
          [] key[2] = "tool_results" -> Label(key) \o marks \o <<Newline>>
          [] OTHER -> Label(key) \o marks

(* The entries of the answer, or those of the trace.                        *)
Joined(o, entries, ofAnswer) ==
    FlattenSeq([i \in 1..Len(entries) |->
        IF (entries[i][1] = RootAnswer(o)) = ofAnswer THEN Rendered(o, entries[i]) ELSE <<>>])
Line(marks) == IF marks = <<>> \/ EndsLine(marks) THEN marks ELSE Append(marks, Newline)

BufferedTogether(o, r) ==
    [stdout |-> Line(FlattenSeq([i \in 1..Len(r.entries) |-> Rendered(o, r.entries[i])])),
     stderr |-> <<>>]

Buffered(o, r) ==
    LET answer == Line(Joined(o, r.entries, TRUE))
        trace  == Line(Joined(o, r.entries, FALSE))
    IN  IF TraceStream(o) = "stderr" THEN [stdout |-> answer, stderr |-> trace]
        ELSE [stdout |-> trace \o answer, stderr |-> <<>>]

(* JSON holds the entries themselves, by agent and channel.                 *)
Json(r) == FlattenSeq([i \in 1..Len(r.entries) |-> Marks(r.entries[i][1], r.entries[i][2])])

(* finish                                                                   *)
Finish(o, r) ==
    LET flushed == WriteAnswer(o, r, <<>>, TRUE)
    IN  CASE o.mode = "json" ->
               [flushed EXCEPT !.screen.stdout = Append(Json(flushed), Newline)]
          [] o.mode = "buffer" ->
               [flushed EXCEPT !.screen = Buffered(o, flushed)]
          [] o.mode = "stream" ->
               [flushed EXCEPT !.screen = [s \in Streams |->
                   IF flushed.pending[s] THEN Append(@[s], Newline) ELSE @[s]]]

=============================================================================
