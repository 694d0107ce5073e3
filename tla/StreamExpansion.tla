-------------------------- MODULE StreamExpansion --------------------------
(***************************************************************************)
(* CallbackTokenSseExpander (lllm/web_output.py): what each record of an   *)
(* ADK event stream does to the suffixes it holds and to the web page.     *)
(*                                                                         *)
(* A message is one identity of _identity, with a channel for its answer   *)
(* and one for its thoughts; all parts of a channel come at one index.     *)
(* A view is what is held and shown of each channel and which are over.    *)
(*                                                                         *)
(* An operator used nowhere is a faulty form of the next one that is used, *)
(* for the mutation checks.                                                *)
(***************************************************************************)
EXTENDS TokenText

CONSTANT Messages  \* identities of the events of one response

Channels == {"answer", "thought"}
Keys == Messages \X Channels
Nothing == [k \in Keys |-> <<>>]

NoView == [held |-> Nothing, shown |-> Nothing, over |-> {}]

(* The records of ADK's events: a delta, a final event with the full texts  *)
(* or (a tool call) without text, an error or [DONE], and a comment.        *)
Partial(k, delta) == [kind |-> "partial", key |-> k, text |-> delta]
Final(m, full) == [kind |-> "final", message |-> m, texts |-> full]
FinalWithoutText(m) == [kind |-> "textless", message |-> m]
Done == [kind |-> "done"]
Comment == [kind |-> "comment"]

KeysOf(record) ==
    CASE record.kind = "partial" -> {record.key}
      [] record.kind \in {"final", "textless"} -> {record.message} \X Channels
      [] record.kind = "done" -> Keys
      [] record.kind = "comment" -> {}

(* _flush_held_text: what is held is shown as it is.                        *)
FlushBack(view, keys) ==
    [held |-> [k \in Keys |-> IF k \in keys THEN view.shown[k] ELSE view.held[k]],
     shown |-> [k \in Keys |-> IF k \in keys THEN view.shown[k] \o view.held[k]
                               ELSE view.shown[k]],
     over |-> view.over \cup keys]

Flush(view, keys) ==
    [held |-> [k \in Keys |-> IF k \in keys THEN <<>> ELSE view.held[k]],
     shown |-> [k \in Keys |-> IF k \in keys THEN view.shown[k] \o view.held[k]
                               ELSE view.shown[k]],
     over |-> view.over \cup keys]

AddDelta(view, k, delta) ==
    LET chunk == Chunk(view.held[k] \o delta, FALSE)
    IN  [view EXCEPT !.shown[k] = @ \o chunk.shown, !.held[k] = chunk.held]

(* A final event repeats the text, which the page shows instead of the      *)
(* deltas: what is held is in it, and is dropped.                           *)
FinishAsDelta(view, keys, full) ==
    [view EXCEPT !.shown = [k \in Keys |-> IF k \in keys THEN Expanded(full[k]) ELSE @[k]],
                 !.over = @ \cup keys]

Finish(view, keys, full) ==
    [held |-> [k \in Keys |-> IF k \in keys THEN <<>> ELSE view.held[k]],
     shown |-> [k \in Keys |-> IF k \in keys THEN Chunk(full[k], TRUE).shown
                               ELSE view.shown[k]],
     over |-> view.over \cup keys]

(* _expand_record *)
After(view, record) ==
    CASE record.kind = "partial" -> AddDelta(view, record.key, record.text)
      [] record.kind = "final" -> Finish(view, KeysOf(record), record.texts)
      [] record.kind \in {"textless", "done"} -> Flush(view, KeysOf(record))
      [] record.kind = "comment" -> view

-----------------------------------------------------------------------------
(* HTTP chunks cut the records: each goes over the wire as its data line    *)
(* and a blank line.                                                        *)
Wire(record) == [i \in 1..2 |-> [record |-> record, part |-> i]]

Rest(bytes) ==
    IF \E i \in 1..Len(bytes) : bytes[i].part = 2
    THEN SubSeq(bytes, 1 + Max({i \in 1..Len(bytes) : bytes[i].part = 2}), Len(bytes))
    ELSE bytes

(* feed: expand the records that are complete and keep the rest; at the     *)
(* end a record whose blank line never came is expanded too, and all that   *)
(* is held is flushed.  A record is expanded with its last part, a record   *)
(* of the last body with its first.                                         *)
Feed(view, bytes, final) ==
    LET due == IF final THEN 1 ELSE 2
        fed[i \in 0..Len(bytes)] ==
            IF i = 0 THEN view
            ELSE IF bytes[i].part = due THEN After(fed[i - 1], bytes[i].record)
            ELSE fed[i - 1]
    IN  IF final THEN Flush(fed[Len(bytes)], Keys) ELSE fed[Len(bytes)]

Kept(bytes, final) == IF final THEN <<>> ELSE Rest(bytes)

=============================================================================
